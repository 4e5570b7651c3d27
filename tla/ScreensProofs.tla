---------------------------- MODULE ScreensProofs ----------------------------
(***************************************************************************)
(* What Forms and Screens promise, for every size of the book, every       *)
(* length of the history and every number of changes from elsewhere.       *)
(*                                                                         *)
(* None of the properties is inductive: each rests on what the form that   *)
(* is open remembers about a book of an earlier moment.  IInv says what    *)
(* that is: an editor of a movement is open only in a month that is open;  *)
(* a preview, a request to apply and an offer to repeat it are of the book *)
(* of now, or is gone from the screen; a request to close or reopen that   *)
(* still counts the month it named would reach that month; and on the      *)
(* phone each form is the one of the screen that is shown.                 *)
(***************************************************************************)
EXTENDS Screens, TLAPS

InnerOK(f, b) == f.at = "cell" => f.inner = Idle \/ Open(b)

\* A preview, an offer to repeat it and a request to apply it are of the same target,
\* over the book of now; or the ledger was replaced and there is no target.
CycleOK(f, b) ==
  f.at = "cycle" =>
    /\ f.busy # "no" => f.asked # None
    /\ f.preview # NoPreview => f.target # None
    /\ f.target # None /\ (f.busy = "apply" \/ f.retry = "apply" \/ f.preview # NoPreview)
         => f.preview = [target |-> f.target, of |-> b]
    /\ f.target # None /\ f.busy = "apply" => f.asked = f.target
    /\ f.busy = "preview" => f.preview = NoPreview
    /\ f.sent => f.busy # "no"

NewOK(f) == f.at = "new" => f.made = IF f.sent THEN 1 ELSE 0

FormOK(f, b) ==
  f \in Drafts /\ InnerOK(f, b) /\ CycleOK(f, b) /\ NewOK(f)

\* A request whose ledger was not replaced would reach the month it named.
RequestsOK(q, b) ==
  /\ q \in Seq(Requests) /\ Len(q) <= Edits
  /\ \A i \in DOMAIN q : q[i].month # None => TargetOf(q[i].what, b) = q[i].month

BookOK(b) == b \in Books /\ b.out <= b.pocket

\* The form a screen of the phone may show.
Belongs(f, s) ==
  \/ f.at = "nothing" /\ s \notin {"edit", "new", "node"}
  \/ f.at = "card" /\ s = "pocket"
  \/ f.at = "oprow" /\ s = "retiros"
  \/ f.at \in {"edit", "new", "node", "closure"} /\ s = f.at

\* The forms a tab of the desktop may show.
DesktopForms == {"nothing", "cell", "pocket", "popover", "rowdelete", "cycle", "closure"}

Entry == [s : Pages \cup {Outside, Config}, d : Nat]

Honest(h) ==
  \A i \in DOMAIN h : \A k \in 1 .. h[i].d : i - k \in DOMAIN h /\ h[i - k].s # Outside

HistOK ==
  /\ hist \in Seq(Entry)
  /\ hist = <<>> => pos = 0 /\ backs = 0 /\ form.at \in DesktopForms
  /\ hist # <<>> => Len(hist) \in 2 .. MaxHist /\ pos \in DOMAIN hist /\ Belongs(form, Here)
  /\ backs \in 0 .. 2
  /\ Honest(hist)

Lefts == [foreign : 0 .. Foreign, edits : 0 .. Edits]

IInv ==
  BookOK(book) /\ FormOK(form, book) /\ HistOK /\ left \in Lefts /\ RequestsOK(requests, book)

-----------------------------------------------------------------------------
(* The history.                                                            *)

\* A history of screens of the application whose depths are honest.
Sound(h) == h \in Seq(Entry) /\ Honest(h)

LEMMA Redirected ==
  ASSUME NEW s \in Pages \cup {Outside, Config}, NEW b
  PROVE  /\ Redirect(s, b) \in Pages \cup {Outside, Config}
         /\ Redirect(s, b) = Outside <=> s = Outside
  BY DEF Redirect, Pages, Outside, Config, ParentOf

LEMMA ReplacedSound ==
  ASSUME NEW h, Sound(h), NEW p \in DOMAIN h, NEW s \in Pages \cup {Outside, Config},
         s = Outside => h[p].s = Outside
  PROVE  /\ Sound(Replaced(h, p, s))
         /\ Len(Replaced(h, p, s)) = Len(h)
         /\ Replaced(h, p, s)[p] = [s |-> s, d |-> h[p].d]
  <1> DEFINE r == Replaced(h, p, s)
  <1>1. h \in Seq(Entry) /\ h[p] \in Entry
    BY DEF Sound
  <1>2. [h[p] EXCEPT !.s = s] = [s |-> s, d |-> h[p].d]
    BY <1>1 DEF Entry
  <1>3. r = [h EXCEPT ![p] = [s |-> s, d |-> h[p].d]]
    BY <1>2 DEF Replaced
  <1>4. r \in Seq(Entry) /\ Len(r) = Len(h) /\ DOMAIN r = DOMAIN h
    BY <1>1, <1>3 DEF Entry
  <1>5. \A i \in DOMAIN h : r[i].d = h[i].d /\ (r[i].s = Outside => h[i].s = Outside)
    BY <1>1, <1>3
  <1>6. r[p] = [s |-> s, d |-> h[p].d]
    BY <1>1, <1>3
  <1> HIDE DEF r
  <1>7. Honest(r)
    BY <1>4, <1>5 DEF Honest, Sound
  <1> QED
    BY <1>4, <1>6, <1>7 DEF Sound, r

LEMMA ExtendedSound ==
  ASSUME NEW h, Sound(h), NEW p \in DOMAIN h, NEW s \in Pages \cup {Config}, h[p].s # Outside,
         NEW d \in {0, h[p].d + 1}
  PROVE  LET e == Append(SubSeq(h, 1, p), [s |-> s, d |-> d])
         IN  Sound(e) /\ Len(e) = p + 1 /\ e[p + 1] = [s |-> s, d |-> d]
  <1> DEFINE e == Append(SubSeq(h, 1, p), [s |-> s, d |-> d])
  <1>0. h \in Seq(Entry) /\ p \in 1 .. Len(h) /\ h[p] \in Entry
    BY DEF Sound
  <1>1. h \in Seq(Entry) /\ p \in 1 .. Len(h) /\ h[p].d \in Nat
    BY <1>0 DEF Entry
  <1>2. [s |-> s, d |-> d] \in Entry
    BY <1>1 DEF Entry
  <1>3. SubSeq(h, 1, p) \in Seq(Entry) /\ Len(SubSeq(h, 1, p)) = p
        /\ \A i \in 1 .. p : SubSeq(h, 1, p)[i] = h[i]
    BY <1>1
  <1>4. e \in Seq(Entry) /\ Len(e) = p + 1 /\ DOMAIN e = 1 .. p + 1
    BY <1>1, <1>2, <1>3
  <1>5. /\ \A i \in 1 .. p : e[i] = h[i]
        /\ e[p + 1] = [s |-> s, d |-> d]
    BY <1>1, <1>2, <1>3
  <1> HIDE DEF e
  <1>6. \A i \in 1 .. p : \A k \in 1 .. h[i].d : i - k \in DOMAIN h /\ h[i - k].s # Outside
    BY <1>1 DEF Sound, Honest
  <1>7. ASSUME NEW i \in 1 .. p + 1, NEW k \in 1 .. e[i].d
        PROVE  i - k \in 1 .. p /\ e[i - k].s # Outside
    <2>1. CASE i \in 1 .. p
      <3>1. i - k \in DOMAIN h /\ h[i - k].s # Outside
        BY <1>5, <1>6, <1>7, <2>1
      <3>2. k \in Nat \ {0}
        BY <1>7
      <3>3. i - k \in 1 .. p
        BY <1>1, <2>1, <3>1, <3>2
      <3> QED
        BY <1>5, <3>1, <3>3
    <2>2. CASE i = p + 1
      <3>1. k \in 1 .. h[p].d + 1
        BY <1>1, <1>5, <1>7, <2>2
      <3>2. CASE k = 1
        BY <1>1, <1>5, <2>2, <3>2
      <3>3. CASE k # 1
        <4>1. k - 1 \in 1 .. h[p].d
          BY <1>1, <3>1, <3>3
        <4>2. p - (k - 1) \in DOMAIN h /\ h[p - (k - 1)].s # Outside
          BY <1>1, <1>6, <4>1
        <4>3. p - (k - 1) = i - k /\ i - k \in 1 .. p
          BY <1>1, <2>2, <3>1, <4>1, <4>2
        <4> QED
          BY <1>5, <4>2, <4>3
      <3> QED
        BY <3>2, <3>3
    <2> QED
      BY <1>1, <1>7, <2>1, <2>2
  <1>8. Honest(e)
    BY <1>1, <1>4, <1>7 DEF Honest
  <1> QED
    BY <1>4, <1>5, <1>8 DEF Sound, e

-----------------------------------------------------------------------------
(* What a screen shows.                                                    *)

LEMMA NothingOK == ASSUME NEW b PROVE FormOK(Nothing, b)
  <1>1. Nothing \in Drafts
    BY DEF Drafts, EditForms, CreationForms, NodeForms
  <1> QED
    BY <1>1 DEF FormOK, InnerOK, CycleOK, NewOK, Nothing

LEMMA EditOK ==
  ASSUME NEW b, NEW v \in Amounts, NEW i \in Amounts, NEW a \in BOOLEAN,
         NEW f, f = [at |-> "edit", val |-> v, initial |-> i, asking |-> a]
  PROVE  FormOK(f, b)
  <1>1. f \in Drafts
    BY DEF Drafts, EditForms, CreationForms, NodeForms
  <1> QED
    BY <1>1 DEF FormOK, InnerOK, CycleOK, NewOK

LEMMA NodeOK ==
  ASSUME NEW b, NEW a \in BOOLEAN, NEW f, f = [at |-> "node", asked |-> a]
  PROVE  FormOK(f, b)
  <1>1. f \in Drafts
    BY DEF Drafts, EditForms, CreationForms, NodeForms
  <1> QED
    BY <1>1 DEF FormOK, InnerOK, CycleOK, NewOK

LEMMA CreationOK ==
  ASSUME NEW b, NEW f \in CreationForms, f.made = IF f.sent THEN 1 ELSE 0
  PROVE  FormOK(f, b)
  <1>1. f \in Drafts /\ f.at = "new"
    BY DEF Drafts, CreationForms
  <1> QED
    BY <1>1 DEF FormOK, InnerOK, CycleOK, NewOK

LEMMA MountedOK ==
  ASSUME NEW s \in Pages \cup {Outside, Config}, NEW b, BookOK(b)
  PROVE  FormOK(Mounted(s, b), b) /\ Belongs(Mounted(s, b), s)
  <1>1. CASE s = "edit"
    <2>1. b.move \in Amounts
      BY DEF BookOK, Books
    <2>2. Mounted(s, b) = [at |-> "edit", val |-> b.move, initial |-> b.move, asking |-> FALSE]
      BY <1>1 DEF Mounted
    <2>3. FormOK(Mounted(s, b), b)
      BY <2>1, <2>2, EditOK
    <2>4. Mounted(s, b).at = s
      BY <1>1, <2>1, <2>2
    <2> QED
      BY <1>1, <2>3, <2>4 DEF Belongs
  <1>2. CASE s = "new"
    <2>1. Mounted(s, b) = [at |-> "new", sent |-> FALSE, made |-> 0]
      BY <1>2 DEF Mounted
    <2>2. Mounted(s, b) \in CreationForms
      BY <2>1 DEF CreationForms
    <2>3. FormOK(Mounted(s, b), b)
      BY <2>1, <2>2, CreationOK
    <2>4. Mounted(s, b).at = s
      BY <1>2, <2>1
    <2> QED
      BY <1>2, <2>3, <2>4 DEF Belongs
  <1>3. CASE s = "node"
    <2>1. Mounted(s, b) = [at |-> "node", asked |-> FALSE]
      BY <1>3 DEF Mounted
    <2>3. FormOK(Mounted(s, b), b)
      BY <2>1, NodeOK
    <2>4. Mounted(s, b).at = s
      BY <1>3, <2>1
    <2> QED
      BY <1>3, <2>3, <2>4 DEF Belongs
  <1>4. CASE s \notin {"edit", "new", "node"}
    <2>1. Mounted(s, b) = Nothing
      BY <1>4 DEF Mounted
    <2> QED
      BY <1>4, <2>1, NothingOK DEF Belongs, Nothing
  <1> QED
    BY <1>1, <1>2, <1>3, <1>4

LEMMA ShownOK ==
  ASSUME NEW h, Sound(h), Len(h) \in 2 .. MaxHist, NEW p \in DOMAIN h, NEW f,
         FormOK(f, book'), BookOK(book'), Belongs(f, Here), Shows(h, p, f), backs' \in 0 .. 2
  PROVE  FormOK(form', book') /\ HistOK'
  <1> DEFINE s == Redirect(h[p].s, book')
  <1>1. h[p] \in Entry /\ h[p].s \in Pages \cup {Outside, Config}
    <2>1. h[p] \in Entry
      BY DEF Sound
    <2> QED
      BY <2>1 DEF Entry
  <1>2. s \in Pages \cup {Outside, Config} /\ (s = Outside => h[p].s = Outside)
    BY <1>1, Redirected
  <1>3. hist' = Replaced(h, p, s) /\ pos' = p
    BY DEF Shows, Settled
  <1> HIDE DEF s
  <1>4. Sound(hist') /\ Len(hist') = Len(h) /\ hist'[p] = [s |-> s, d |-> h[p].d]
    BY <1>2, <1>3, ReplacedSound
  <1>5. hist'[p].s = s
    BY <1>4
  <1>6. form' = IF s = Here THEN f ELSE Mounted(s, book')
    BY <1>5 DEF Shows
  <1>7. FormOK(form', book') /\ Belongs(form', s)
    BY <1>2, <1>6, MountedOK
  <1>8. hist' \in Seq(Entry) /\ Len(hist') \in 2 .. MaxHist /\ pos' \in DOMAIN hist' /\ hist' # <<>>
    BY <1>3, <1>4 DEF Sound
  <1>9. Honest(hist')
    BY <1>4 DEF Sound
  <1>10. Here' = s
    BY <1>3, <1>5 DEF Here
  <1> QED
    BY <1>7, <1>8, <1>9, <1>10 DEF HistOK

LEMMA GoesBackOK ==
  ASSUME HistOK, Phone, Here \in Pages, backs < 2, NEW f,
         FormOK(f, book'), BookOK(book'), Belongs(f, Here), GoesBack(f)
  PROVE  FormOK(form', book') /\ HistOK'
  <1>1. Sound(hist) /\ Len(hist) \in 2 .. MaxHist /\ pos \in DOMAIN hist /\ backs \in 0 .. 2
    BY DEF HistOK, Sound, Phone
  <1>2. CASE Depth > 0
    <2>1. backs' \in 0 .. 2 /\ Shows(hist, pos, f)
      BY <1>1, <1>2 DEF GoesBack
    <2> QED
      BY <1>1, <2>1, ShownOK
  <1>3. CASE ~(Depth > 0)
    <2>1. ParentOf(Here) \in Pages /\ ParentOf(Here) # Outside
      BY DEF ParentOf, Pages, Outside
    <2> DEFINE h == Replaced(hist, pos, ParentOf(Here))
    <2>2. Sound(h) /\ Len(h) = Len(hist)
      BY <1>1, <2>1, ReplacedSound
    <2>3. pos \in DOMAIN h
      BY <1>1, <2>2 DEF Sound
    <2>4. backs' \in 0 .. 2 /\ Shows(h, pos, f)
      BY <1>1, <1>3 DEF GoesBack
    <2> HIDE DEF h
    <2> QED
      BY <1>1, <2>2, <2>3, <2>4, ShownOK
  <1> QED
    BY <1>2, <1>3

LEMMA NavigationOK == ASSUME IInv, Navigation, ~ReloadPage PROVE IInv' /\ Keeps
  <1>0. Keeps
    <2>1. ASSUME NEW s, OpenScreen(s) \/ ReplaceScreen(s) PROVE Keeps
      BY <2>1 DEF OpenScreen, ReplaceScreen
    <2>2. ASSUME NEW p, Browse(p) PROVE Keeps
      BY <2>2 DEF Browse
    <2>3. ASSUME GoBack \/ Pop \/ OpenConfig \/ LeaveConfig PROVE Keeps
      BY <2>3 DEF GoBack, Pop, OpenConfig, LeaveConfig
    <2> QED
      BY <2>1, <2>2, <2>3 DEF Navigation
  <1>1. book' = book /\ left' = left /\ requests' = requests
    BY <1>0 DEF Keeps
  <1>2. BookOK(book') /\ FormOK(form, book') /\ HistOK
    BY <1>1 DEF IInv
  <1>3. Phone => /\ Sound(hist) /\ Len(hist) \in 2 .. MaxHist /\ pos \in DOMAIN hist
                 /\ Belongs(form, Here) /\ hist[pos] \in Entry
    BY <1>2 DEF HistOK, Sound, Phone
  <1>4. backs \in 0 .. 2 /\ (backs > 0 => Phone)
    BY <1>2 DEF HistOK, Phone
  <1> SUFFICES FormOK(form', book') /\ HistOK'
    BY <1>0, <1>1 DEF IInv, Lefts
  <1>5. CASE GoBack
    <2>1. Phone /\ Here \in Pages /\ backs < 2 /\ GoesBack(form)
      BY <1>5 DEF GoBack
    <2> QED
      BY <1>2, <1>3, <2>1, GoesBackOK
  <1>6. CASE Pop
    <2>1. backs' \in 0 .. 2 /\ Phone
      BY <1>4, <1>6 DEF Pop
    <2>2. PICK p \in DOMAIN hist : Shows(hist, p, form)
      <3>1. (IF pos > 1 THEN pos - 1 ELSE pos) \in DOMAIN hist
        BY <1>3, <2>1 DEF Sound
      <3> QED
        BY <1>6, <3>1 DEF Pop
    <2> QED
      BY <1>2, <1>3, <2>1, <2>2, ShownOK
  <1>7. CASE \E p \in 1 .. MaxHist : Browse(p)
    <2>1. PICK p \in DOMAIN hist : Shows(hist, p, form) /\ backs' = backs /\ Phone
      BY <1>7 DEF Browse
    <2> QED
      BY <1>2, <1>3, <1>4, <2>1, ShownOK
  <1>9. CASE \E s \in Pages : OpenScreen(s)
    <2>1. PICK s \in Pages : OpenScreen(s)
      BY <1>9
    <2>2. Phone /\ hist[pos].s # Outside /\ pos < MaxHist /\ backs' = backs
          /\ Shows(Pushed(hist, pos, s), pos + 1, form)
      BY <2>1 DEF OpenScreen, Rest, Here
    <2> DEFINE h == Pushed(hist, pos, s)
    <2>3. Sound(h) /\ Len(h) = pos + 1
      BY <1>3, <2>2, ExtendedSound DEF Pushed
    <2>4. pos \in Nat \ {0} /\ MaxHist \in Nat
      BY <1>3, <2>2, ScreensAssumption DEF Sound
    <2>5. Len(h) \in 2 .. MaxHist /\ pos + 1 \in DOMAIN h
      BY <2>2, <2>3, <2>4 DEF Sound
    <2>6. Shows(h, pos + 1, form)
      BY <2>2
    <2> HIDE DEF h
    <2> QED
      BY <1>2, <1>3, <1>4, <2>2, <2>3, <2>5, <2>6, ShownOK
  <1>10. CASE \E s \in {"registrar", "list"} : ReplaceScreen(s)
    <2>1. PICK s \in {"registrar", "list"} : ReplaceScreen(s)
      BY <1>10
    <2>2. s \in Pages /\ s # Outside
      BY DEF Pages, Outside
    <2>3. Phone /\ backs' = backs /\ Shows(Replaced(hist, pos, s), pos, form)
      BY <2>1 DEF ReplaceScreen, Rest
    <2> DEFINE h == Replaced(hist, pos, s)
    <2>4. Sound(h) /\ Len(h) = Len(hist)
      BY <1>3, <2>2, <2>3, ReplacedSound
    <2>5. pos \in DOMAIN h
      BY <1>3, <2>3, <2>4 DEF Sound
    <2>6. Shows(h, pos, form)
      BY <2>3
    <2> HIDE DEF h
    <2> QED
      BY <1>2, <1>3, <1>4, <2>3, <2>4, <2>5, <2>6, ShownOK
  <1>11. CASE OpenConfig \/ LeaveConfig
    <2>1. PICK s \in {Config, "registrar"} :
            /\ Phone /\ hist[pos].s # Outside /\ pos < MaxHist /\ backs' = backs
            /\ Shows(Routed(s), pos + 1, form)
      BY <1>11 DEF OpenConfig, LeaveConfig, Rest, Here
    <2>2. s \in Pages \cup {Config}
      BY DEF Pages
    <2> DEFINE h == Routed(s)
    <2>3. Sound(h) /\ Len(h) = pos + 1
      BY <1>3, <2>1, <2>2, ExtendedSound DEF Routed
    <2>4. pos \in Nat \ {0} /\ MaxHist \in Nat
      BY <1>3, <2>1, ScreensAssumption DEF Sound
    <2>5. Len(h) \in 2 .. MaxHist /\ pos + 1 \in DOMAIN h
      BY <2>1, <2>3, <2>4 DEF Sound
    <2>6. Shows(h, pos + 1, form)
      BY <2>1
    <2> HIDE DEF h
    <2> QED
      BY <1>2, <1>3, <1>4, <2>1, <2>3, <2>5, <2>6, ShownOK
  <1> QED
    BY <1>5, <1>6, <1>7, <1>9, <1>10, <1>11 DEF Navigation

-----------------------------------------------------------------------------
(* The book.                                                               *)

\* What a change leaves: a book the domain accepts, its closed month untouched.
Fair(b, c) == BookOK(c) /\ (~Open(b) /\ ~Open(c) => Figures(c) = Figures(b))

SameBoundary(b, c) == c.closed = b.closed /\ c.reopened = b.reopened

\* A change that neither closes nor reopens.
Mild(b, c) == Fair(b, c) /\ SameBoundary(b, c)

LEMMA FiguresFair ==
  ASSUME NEW b, BookOK(b), Open(b), NEW v \in Amounts
  PROVE  /\ Mild(b, SetCell(b, v))
         /\ MoveFits(b, v) => Mild(b, SetMove(b, v))
         /\ PocketFits(b, v) => Mild(b, SetPocket(b, v))
         /\ OutFits(b, v) => Mild(b, SetOut(b, v))
  <1>1. Mild(b, SetCell(b, v))
    BY DEF Mild, SameBoundary, Fair, BookOK, Books, SetCell
  <1>2. MoveFits(b, v) => Mild(b, SetMove(b, v))
    BY DEF Mild, SameBoundary, Fair, BookOK, Books, MoveFits, SetMove
  <1>3. PocketFits(b, v) => Mild(b, SetPocket(b, v))
    BY DEF Mild, SameBoundary, Fair, BookOK, Books, PocketFits, SetPocket, Amounts
  <1>4. OutFits(b, v) => Mild(b, SetOut(b, v))
    BY DEF Mild, SameBoundary, Fair, BookOK, Books, OutFits, SetOut, Amounts
  <1> QED
    BY <1>1, <1>2, <1>3, <1>4

LEMMA StructureFair ==
  ASSUME NEW b, BookOK(b)
  PROVE  /\ b.kids < 2 => Mild(b, AddKid(b))
         /\ b.kids > 0 => Mild(b, DropKid(b))
         /\ Mild(b, Delete(b))
         /\ \A p \in Places : Mild(b, [b EXCEPT !.place = p])
         /\ \A d \in 0 .. Paydays : Mild(b, [b EXCEPT !.payday = d])
         /\ Closable(b) => Fair(b, Close(b))
         /\ Reopenable(b) => Fair(b, Reopen(b))
  <1>1. b.kids < 2 => Mild(b, AddKid(b))
    BY DEF Mild, SameBoundary, Fair, BookOK, Books, AddKid, Figures
  <1>2. b.kids > 0 => Mild(b, DropKid(b))
    BY DEF Mild, SameBoundary, Fair, BookOK, Books, DropKid, Figures
  <1>3. Mild(b, Delete(b))
    BY DEF Mild, SameBoundary, Fair, BookOK, Books, Delete, Figures
  <1>4. ASSUME NEW p \in Places PROVE Mild(b, [b EXCEPT !.place = p])
    BY DEF Mild, SameBoundary, Fair, BookOK, Books, Figures
  <1>5. ASSUME NEW d \in 0 .. Paydays PROVE Mild(b, [b EXCEPT !.payday = d])
    BY DEF Mild, SameBoundary, Fair, BookOK, Books, Figures
  <1>0. b \in Books /\ b.out <= b.pocket /\ b.closed \in 0 .. Months
    BY DEF BookOK, Books
  <1>6. Closable(b) => Fair(b, Close(b))
    <2> SUFFICES ASSUME Closable(b) PROVE Fair(b, Close(b))
      OBVIOUS
    <2>1. b.closed + 1 \in 0 .. Months
      BY <1>0, FormsAssumption DEF Closable
    <2>2. Close(b) \in Books
      BY <1>0, <2>1 DEF Close, Books
    <2>3. Close(b).out = b.out /\ Close(b).pocket = b.pocket /\ Figures(Close(b)) = Figures(b)
      BY <1>0 DEF Close, Books, Figures
    <2> QED
      BY <1>0, <2>2, <2>3 DEF Fair, BookOK
  <1>7. Reopenable(b) => Fair(b, Reopen(b))
    <2> SUFFICES ASSUME Reopenable(b) PROVE Fair(b, Reopen(b))
      OBVIOUS
    <2>1. b.closed - 1 \in 0 .. Months
      BY <1>0, FormsAssumption DEF Reopenable
    <2>2. Reopen(b) \in Books
      BY <1>0, <2>1 DEF Reopen, Books
    <2>3. Reopen(b).out = b.out /\ Reopen(b).pocket = b.pocket /\ Figures(Reopen(b)) = Figures(b)
      BY <1>0 DEF Reopen, Books, Figures
    <2> QED
      BY <1>0, <2>2, <2>3 DEF Fair, BookOK
  <1> QED
    BY <1>1, <1>2, <1>3, <1>4, <1>5, <1>6, <1>7

LEMMA ElsewhereFair ==
  ASSUME NEW b, BookOK(b), NEW c \in Elsewhere(b)
  PROVE  Fair(b, c) /\ c # b
  <1>1. c \in Accepted(b) /\ c # b
    BY DEF Elsewhere
  <1>2. b.kids \in 0 .. 2
    BY DEF BookOK, Books
  <1>3. \/ Open(b) /\ \E v \in Amounts : \/ c = SetCell(b, v)
                                         \/ MoveFits(b, v) /\ c = SetMove(b, v)
                                         \/ PocketFits(b, v) /\ c = SetPocket(b, v)
                                         \/ OutFits(b, v) /\ c = SetOut(b, v)
        \/ b.kids = 0 /\ c = AddKid(b)
        \/ b.kids > 0 /\ c = DropKid(b)
        \/ c = Delete(b)
        \/ \E p \in Places : c = [b EXCEPT !.place = p]
        \/ Closable(b) /\ c = Close(b)
        \/ Reopenable(b) /\ c = Reopen(b)
        \/ \E d \in 0 .. Paydays : c = [b EXCEPT !.payday = d]
    BY <1>1 DEF Accepted
  <1>4. CASE Open(b) /\ \E v \in Amounts : \/ c = SetCell(b, v)
                                           \/ MoveFits(b, v) /\ c = SetMove(b, v)
                                           \/ PocketFits(b, v) /\ c = SetPocket(b, v)
                                           \/ OutFits(b, v) /\ c = SetOut(b, v)
    BY <1>1, <1>4, FiguresFair DEF Mild
  <1>5. CASE \/ b.kids = 0 /\ c = AddKid(b)
             \/ b.kids > 0 /\ c = DropKid(b)
             \/ c = Delete(b)
             \/ \E p \in Places : c = [b EXCEPT !.place = p]
             \/ Closable(b) /\ c = Close(b)
             \/ Reopenable(b) /\ c = Reopen(b)
             \/ \E d \in 0 .. Paydays : c = [b EXCEPT !.payday = d]
    BY <1>1, <1>2, <1>5, StructureFair DEF Mild
  <1> QED
    BY <1>3, <1>4, <1>5

-----------------------------------------------------------------------------
(* The forms, kind by kind.                                                *)

LEMMA Kinds ==
  ASSUME NEW f \in Drafts
  PROVE  /\ f.at = "nothing" => f = Nothing
         /\ f.at = "cell" => f \in CellForms
         /\ f.at = "pocket" => f \in PocketForms
         /\ f.at = "popover" => f \in PopoverForms
         /\ f.at = "closure" => f \in ClosureForms
         /\ f.at = "card" => f \in CardForms
         /\ f.at = "oprow" => f \in RowForms
         /\ f.at = "edit" => f \in EditForms
         /\ f.at = "new" => f \in CreationForms
         /\ f.at = "node" => f \in NodeForms
         /\ f.at = "cycle" => f \in CycleForms
  BY DEF Drafts, Nothing, CellForms, PocketForms, PopoverForms, ClosureForms, CardForms,
         RowForms, EditForms, CreationForms, NodeForms, CycleForms

\* The forms that remember nothing a later book could belie.
LEMMA PlainOK ==
  ASSUME NEW b,
         NEW f \in {Nothing, [at |-> "rowdelete"]} \cup PocketForms \cup PopoverForms
                    \cup CardForms \cup RowForms \cup EditForms \cup NodeForms
  PROVE  FormOK(f, b)
  <1>1. f \in Drafts
    BY DEF Drafts
  <1>2. f.at \notin {"cell", "cycle", "closure", "new"}
    BY DEF Nothing, PocketForms, PopoverForms, CardForms, RowForms, EditForms, NodeForms
  <1> QED
    BY <1>1, <1>2 DEF FormOK, InnerOK, CycleOK, NewOK

LEMMA CellFormOK ==
  ASSUME NEW b, NEW f \in CellForms, f.inner = Idle \/ Open(b)
  PROVE  FormOK(f, b)
  <1>1. f \in Drafts /\ f.at = "cell"
    BY DEF Drafts, CellForms
  <1> QED
    BY <1>1 DEF FormOK, InnerOK, CycleOK, NewOK

LEMMA ClosureFormOK == ASSUME NEW b, NEW f \in ClosureForms PROVE FormOK(f, b)
  <1>1. f \in Drafts /\ f.at = "closure"
    BY DEF Drafts, ClosureForms
  <1> QED
    BY <1>1 DEF FormOK, InnerOK, CycleOK, NewOK

LEMMA CycleFormOK ==
  ASSUME NEW b, NEW f \in CycleForms, CycleOK(f, b)
  PROVE  FormOK(f, b)
  <1>1. f \in Drafts /\ f.at = "cycle"
    BY DEF Drafts, CycleForms
  <1> QED
    BY <1>1 DEF FormOK, InnerOK, NewOK

-----------------------------------------------------------------------------
(* A ledger painted under a form.                                          *)

LEMMA CellPainted ==
  ASSUME NEW f \in CellForms, NEW b, BookOK(b)
  PROVE  FormOK(CellShown(f, b), b) /\ CellShown(f, b).at \in {"nothing", "cell"}
  <1>1. CASE ~b.food
    BY <1>1, NothingOK DEF CellShown, Nothing
  <1>2. CASE b.food
    <2> DEFINE g == [f EXCEPT !.val = IF f.typed THEN @ ELSE b.cell,
                              !.inner = InnerShown(@, b)]
    <2>1. b.cell \in Amounts
      BY DEF BookOK, Books
    <2>2. f.inner \in InnerForms /\ f.val \in Amounts /\ f.typed \in BOOLEAN
      BY DEF CellForms
    <2>3. InnerShown(f.inner, b) \in InnerForms /\ (InnerShown(f.inner, b) = Idle \/ Open(b))
      BY <2>2 DEF InnerShown, InnerForms
    <2>4. g = [f EXCEPT !.val = IF f.typed THEN f.val ELSE b.cell,
                        !.inner = InnerShown(f.inner, b)]
      BY DEF CellForms
    <2>5. g \in CellForms /\ g.inner = InnerShown(f.inner, b) /\ g.at = "cell"
      BY <2>1, <2>2, <2>3, <2>4 DEF CellForms
    <2>6. CellShown(f, b) = g
      BY <1>2 DEF CellShown
    <2> HIDE DEF g
    <2> QED
      BY <2>3, <2>5, <2>6, CellFormOK
  <1> QED
    BY <1>1, <1>2

\* Another ledger leaves the preview without value.
LEMMA CyclePainted ==
  ASSUME NEW f \in CycleForms, NEW b, NEW c, BookOK(c), c # b
  PROVE  LET g == CycleShown(f, b, c)
         IN  /\ g \in CycleForms /\ g.preview = NoPreview /\ g.target = None
             /\ g.retry = "no" /\ g.busy = f.busy /\ g.asked = f.asked /\ g.sent = f.sent
  <1> DEFINE i == Invalidated(f)
  <1>1. /\ i \in CycleForms /\ i.preview = NoPreview /\ i.target = None
        /\ i.retry = "no" /\ i.busy = f.busy /\ i.asked = f.asked /\ i.sent = f.sent
    BY DEF Invalidated, CycleForms, Previews
  <1>2. c.payday \in 0 .. Paydays
    BY DEF BookOK, Books
  <1>3. CycleShown(f, b, c) = [i EXCEPT !.day = IF c.payday = b.payday THEN @ ELSE c.payday]
    BY DEF CycleShown
  <1> HIDE DEF i
  <1> QED
    BY <1>1, <1>2, <1>3 DEF CycleForms

LEMMA PaintedOK ==
  ASSUME NEW b, BookOK(b), NEW f, FormOK(f, b), NEW c, BookOK(c)
  PROVE  FormOK(Shown(f, b, c), c)
  <1>0. f \in Drafts
    BY DEF FormOK
  <1>1. CASE f.at = "cell"
    BY <1>0, <1>1, Kinds, CellPainted DEF Shown
  <1>2. CASE f.at = "popover"
    <2>1. f \in PopoverForms /\ c.out \in Amounts
      BY <1>0, <1>2, Kinds DEF BookOK, Books
    <2>2. PopoverShown(f, b, c) \in PopoverForms
      BY <2>1 DEF PopoverShown, PopoverForms
    <2>3. Shown(f, b, c) = PopoverShown(f, b, c)
      BY <1>2 DEF Shown
    <2> QED
      BY <2>2, <2>3, PlainOK
  <1>7. CASE f.at = "cycle" /\ c = b
    BY <1>7 DEF Shown, CycleShown
  <1>3. CASE f.at = "cycle" /\ c # b
    <2> DEFINE g == CycleShown(f, b, c)
    <2>1. /\ g \in CycleForms /\ g.preview = NoPreview /\ g.target = None
          /\ g.busy = f.busy /\ g.asked = f.asked /\ g.sent = f.sent
      BY <1>0, <1>3, Kinds, CyclePainted
    <2>2. Shown(f, b, c) = g
      BY <1>3 DEF Shown
    <2> HIDE DEF g
    <2>3. CycleOK(g, c)
      BY <1>3, <2>1 DEF FormOK, CycleOK
    <2> QED
      BY <2>1, <2>2, <2>3, CycleFormOK
  <1>4. CASE f.at = "closure"
    <2>1. f \in ClosureForms
      BY <1>0, <1>4, Kinds
    <2>2. FormOK(f, c)
      BY <2>1, ClosureFormOK
    <2>3. Shown(f, b, c) \in {f, Nothing}
      BY <1>4 DEF Shown, ClosureShown
    <2> QED
      BY <2>2, <2>3, NothingOK
  <1>5. CASE f.at \in {"rowdelete", "card", "oprow"}
    <2>1. Shown(f, b, c) \in {f, Nothing}
      BY <1>5 DEF Shown
    <2>2. FormOK(f, c)
      BY <1>5 DEF FormOK, InnerOK, CycleOK, NewOK
    <2> QED
      BY <2>1, <2>2, NothingOK
  <1>6. CASE f.at \notin {"cell", "popover", "cycle", "closure", "rowdelete", "card", "oprow"}
    <2>1. Shown(f, b, c) = f
      BY <1>6 DEF Shown
    <2>2. FormOK(f, c)
      BY <1>6 DEF FormOK, InnerOK, CycleOK, NewOK
    <2> QED
      BY <2>1, <2>2
  <1> QED
    BY <1>1, <1>2, <1>3, <1>4, <1>5, <1>6, <1>7

\* On the phone what is painted still belongs to its screen.
LEMMA PaintedBelongs ==
  ASSUME NEW f, NEW s, Belongs(f, s), NEW b, NEW c
  PROVE  Belongs(Shown(f, b, c), s)
  <1>1. f.at \notin {"cell", "popover", "cycle", "rowdelete"}
    BY DEF Belongs
  <1>2. Shown(f, b, c) = f \/ (f.at \in {"closure", "card", "oprow"} /\ Shown(f, b, c) = Nothing)
    BY <1>1 DEF Shown, ClosureShown
  <1>3. Nothing.at = "nothing"
    BY DEF Nothing
  <1> QED
    BY <1>2, <1>3 DEF Belongs

-----------------------------------------------------------------------------
(* The forms of the desktop.                                               *)

\* What every step leaves: a book and a form that agree; a request to apply that
\* is of the preview; a month closed or reopened that is the one asked about.
Previewed ==
  /\ form.at = "cycle" /\ form'.at = "cycle" /\ form.busy # "apply" /\ form'.busy = "apply"
       => form.preview = [target |-> form.target, of |-> book] /\ form'.asked = form.target
  /\ Own /\ form.at = "cycle" /\ form.preview # NoPreview /\ book'.payday # book.payday
       => form.preview = [target |-> book'.payday, of |-> book]

Named ==
  Own /\ book'.closed # book.closed /\ Head(requests).month # None
    => Head(requests).month = IF Head(requests).what = "close" THEN book'.closed ELSE book.closed

\* What is left of the requests would reach the months they named.
Sure == Fair(book, book') /\ left' \in Lefts /\ RequestsOK(requests', book') /\ Named

Good == Sure /\ FormOK(form', book') /\ form'.at \in DesktopForms

LEMMA SameBook == ASSUME NEW b, BookOK(b) PROVE Mild(b, b)
  BY DEF Mild, SameBoundary, Fair

LEMMA SameTargets ==
  ASSUME NEW b, NEW c, SameBoundary(b, c), NEW q, RequestsOK(q, b)
  PROVE  RequestsOK(q, c)
  <1>1. \A what : TargetOf(what, c) = TargetOf(what, b)
    BY DEF SameBoundary, TargetOf, Closable, Reopenable
  <1> QED
    BY <1>1 DEF RequestsOK

LEMMA Kept ==
  ASSUME IInv, UNCHANGED <<book, left>>, RequestsOK(requests', book)
  PROVE  Sure /\ book' = book
  <1>1. Fair(book, book')
    BY SameBook DEF IInv, Mild
  <1> QED
    BY <1>1 DEF IInv, Sure, Named, Lefts

LEMMA KeepsOK == ASSUME IInv, Keeps PROVE Sure /\ book' = book
  BY Kept DEF IInv, Keeps

LEMMA Written ==
  ASSUME IInv, NEW b, Writes(b)
  PROVE  left' \in Lefts /\ book' = b
  BY FormsAssumption DEF IInv, Writes, Lefts

LEMMA Saved ==
  ASSUME IInv, NEW b, Saves(b), Mild(book, b)
  PROVE  Sure /\ book' = b
  <1>1. Writes(b) /\ requests' = requests
    BY DEF Saves
  <1>2. left' \in Lefts /\ book' = b
    BY <1>1, Written
  <1>3. RequestsOK(requests', book')
    BY <1>1, <1>2, SameTargets DEF IInv, Mild
  <1> QED
    BY <1>2, <1>3 DEF Sure, Named, Mild, SameBoundary

\* The ledger is replaced: no request counts on its month any more.
LEMMA OvertakenOK ==
  ASSUME NEW q \in Seq(Requests), Len(q) <= Edits, NEW b
  PROVE  RequestsOK(Overtaken(q), b)
  <1>1. DOMAIN q = 1 .. Len(q) /\ Len(q) \in Nat
    OBVIOUS
  <1>2. ASSUME NEW i \in DOMAIN q
        PROVE  [q[i] EXCEPT !.month = None] \in Requests /\ [q[i] EXCEPT !.month = None].month = None
    <2>1. q[i] \in Requests
      OBVIOUS
    <2> QED
      BY <2>1 DEF Requests
  <1> DEFINE r == Overtaken(q)
  <1>3. r = [i \in 1 .. Len(q) |-> [q[i] EXCEPT !.month = None]]
    BY <1>1 DEF Overtaken
  <1>4. \A i \in 1 .. Len(q) : r[i] \in Requests /\ r[i].month = None
    BY <1>1, <1>2, <1>3
  <1>5. DOMAIN r = 1 .. Len(q)
    BY <1>3
  <1>6. r \in Seq(Requests) /\ Len(r) = Len(q)
    BY <1>1, <1>2, <1>3
  <1> HIDE DEF r
  <1> QED
    BY <1>4, <1>5, <1>6 DEF RequestsOK, r

\* The first request is answered.
LEMMA TailOK ==
  ASSUME NEW q, NEW b, RequestsOK(q, b), q # <<>>
  PROVE  RequestsOK(Tail(q), b) /\ Tail(q) \in Seq(Requests) /\ Len(Tail(q)) <= Edits
  <1>1. q \in Seq(Requests) /\ Len(q) \in Nat \ {0} /\ Len(q) <= Edits
    BY DEF RequestsOK
  <1>2. Tail(q) \in Seq(Requests) /\ Len(Tail(q)) = Len(q) - 1 /\ DOMAIN Tail(q) = 1 .. Len(q) - 1
        /\ \A i \in 1 .. Len(q) - 1 : Tail(q)[i] = q[i + 1] /\ i + 1 \in DOMAIN q
    BY <1>1
  <1>3. Len(Tail(q)) <= Edits
    BY <1>1, <1>2, FormsAssumption
  <1> QED
    BY <1>2, <1>3 DEF RequestsOK

\* There is a change left for a request more.
LEMMA Budget == ASSUME IInv, Len(requests) < left.edits PROVE Len(requests) < Edits
  <1>1. Len(requests) \in Nat /\ left.edits \in 0 .. Edits
    BY DEF IInv, RequestsOK, Lefts
  <1> QED
    BY <1>1, FormsAssumption

\* A request more, for a month that it would reach.
LEMMA AppendOK ==
  ASSUME NEW q, NEW b, RequestsOK(q, b), Len(q) < Edits,
         NEW what \in {"close", "reopen"}, NEW m \in 1 .. Months, TargetOf(what, b) = m, NEW h \in BOOLEAN
  PROVE  RequestsOK(Append(q, Request(what, m, h)), b)
  <1> DEFINE x == Request(what, m, h)
  <1>1. x \in Requests /\ x.what = what /\ x.month = m
    BY DEF Request, Requests
  <1>2. q \in Seq(Requests)
    BY DEF RequestsOK
  <1> HIDE DEF x
  <1>3. /\ Append(q, x) \in Seq(Requests) /\ Len(Append(q, x)) = Len(q) + 1
        /\ \A i \in DOMAIN Append(q, x) : (i \in DOMAIN q /\ Append(q, x)[i] = q[i]) \/ Append(q, x)[i] = x
    BY <1>1, <1>2
  <1>4. Len(Append(q, x)) <= Edits
    BY <1>2, <1>3, FormsAssumption
  <1>5. \A i \in DOMAIN Append(q, x) :
          Append(q, x)[i].month # None => TargetOf(Append(q, x)[i].what, b) = Append(q, x)[i].month
    BY <1>1, <1>3 DEF RequestsOK
  <1> QED
    BY <1>3, <1>4, <1>5 DEF RequestsOK, x

LEMMA CellStepsOK == ASSUME IInv, CellSteps PROVE Good /\ form.at \in {"nothing", "cell"}
  <1>1. BookOK(book) /\ form \in Drafts /\ book.cell \in Amounts /\ book.move \in Amounts
    BY DEF IInv, FormOK, BookOK, Books
  <1>2. form.at = "cell" => /\ form \in CellForms /\ (form.inner = Idle \/ Open(book))
                            /\ form.inner \in InnerForms /\ form.val \in Amounts
                            /\ form.typed \in BOOLEAN
    BY <1>1, Kinds DEF IInv, FormOK, InnerOK, CellForms
  <1>3. ASSUME Keeps, form' = Nothing PROVE Good
    BY <1>3, KeepsOK, NothingOK DEF Good, Nothing, DesktopForms
  <1>4. ASSUME Keeps, form' \in CellForms, form'.inner = Idle \/ Open(book) PROVE Good
    BY <1>4, KeepsOK, CellFormOK DEF Good, CellForms, DesktopForms
  <1>5. CASE OpenCell
    <2>1. form' \in CellForms /\ form'.inner = Idle
      BY <1>1, <1>5 DEF OpenCell, CellForms, InnerForms
    <2> QED
      BY <1>4, <1>5, <2>1 DEF OpenCell, Nothing
  <1>6. CASE CancelCell
    BY <1>3, <1>6 DEF CancelCell
  <1>7. CASE EditMovement \/ AskMovement
    <2>1. PICK i \in InnerForms : form' = [form EXCEPT !.inner = i]
      <3>1. CASE EditMovement
        BY <1>1, <3>1 DEF EditMovement, InnerForms
      <3>2. CASE AskMovement
        <4>1. 0 \in Amounts
          BY FormsAssumption DEF Amounts
        <4> QED
          BY <3>2, <4>1 DEF AskMovement, InnerForms
      <3> QED
        BY <1>7, <3>1, <3>2
    <2>2. form.at = "cell" /\ Open(book) /\ Keeps
      BY <1>7 DEF EditMovement, AskMovement
    <2>3. form' \in CellForms
      BY <1>2, <2>1, <2>2 DEF CellForms
    <2> QED
      BY <1>4, <2>2, <2>3
  <1>8. CASE CancelMovement
    <2>1. form.at = "cell" /\ Keeps /\ form' = [form EXCEPT !.inner = Idle]
      BY <1>8 DEF CancelMovement
    <2>2. form' \in CellForms /\ form'.inner = Idle
      BY <1>2, <2>1 DEF CellForms, InnerForms
    <2> QED
      BY <1>4, <2>1, <2>2
  <1>9. ASSUME NEW v \in Amounts, TypeInCell(v) PROVE Good /\ form.at = "cell"
    <2>1. form.at = "cell" /\ Keeps /\ Open(book) /\ form' = [form EXCEPT !.val = v, !.typed = TRUE]
      BY <1>9 DEF TypeInCell
    <2>2. form' \in CellForms
      BY <1>2, <2>1 DEF CellForms
    <2> QED
      BY <1>4, <2>1, <2>2
  <1>10. ASSUME NEW v \in Amounts, TypeMovement(v) PROVE Good /\ form.at = "cell"
    <2>1. form.at = "cell" /\ Keeps /\ form.inner.at = "editor"
      BY <1>10 DEF TypeMovement
    <2>2. Open(book) /\ form.inner \in [at : {"editor", "asking"}, val : Amounts]
      BY <1>2, <2>1 DEF Idle, InnerForms
    <2> DEFINE i == [form.inner EXCEPT !.val = v]
    <2>3. i \in InnerForms
      BY <2>2 DEF InnerForms
    <2>4. form' = [form EXCEPT !.inner = i]
      BY <1>2, <1>10, <2>1 DEF TypeMovement, CellForms
    <2> HIDE DEF i
    <2>5. form' \in CellForms
      BY <1>2, <2>1, <2>3, <2>4 DEF CellForms
    <2> QED
      BY <1>4, <2>1, <2>2, <2>5
  <1>11. ASSUME NEW v \in Amounts, AddMovementHere(v) PROVE Good /\ form.at = "cell"
    <2> DEFINE b == [book EXCEPT !.cell = @ + v]
    <2>1. form.at = "cell" /\ Open(book) /\ book.cell + v <= Max /\ Saves(b)
          /\ form' = Shown(form, book, book')
      BY <1>11 DEF AddMovementHere
    <2>2. book.cell + v \in Amounts
      BY <1>1, <2>1, FormsAssumption DEF Amounts
    <2>3. b = [book EXCEPT !.cell = book.cell + v]
      BY <1>1 DEF BookOK, Books
    <2>4. Mild(book, b)
      BY <1>1, <2>1, <2>2, <2>3 DEF Mild, SameBoundary, Fair, BookOK, Books
    <2> HIDE DEF b
    <2>5. Sure
      BY <2>1, <2>4, Saved
    <2>6. form' = CellShown(form, book')
      BY <2>1 DEF Shown
    <2>7. BookOK(book') /\ form \in CellForms
      BY <1>2, <2>1, <2>5 DEF Sure, Fair
    <2> QED
      BY <2>1, <2>5, <2>6, <2>7, CellPainted DEF Good, DesktopForms
  <1>12. CASE SaveMovement
    <2> DEFINE g == [form EXCEPT !.inner = Idle]
    <2>1. /\ form.at = "cell" /\ form.inner.at \in {"editor", "asking"}
          /\ MoveFits(book, form.inner.val) /\ Saves(SetMove(book, form.inner.val))
          /\ form' = Shown(g, book, book')
      BY <1>12 DEF SaveMovement
    <2>2. Open(book) /\ form.inner.val \in Amounts
      BY <1>2, <2>1 DEF Idle, InnerForms
    <2>3. Sure
      BY <1>1, <2>1, <2>2, FiguresFair, Saved
    <2>4. g \in CellForms /\ g.at = "cell"
      BY <1>2, <2>1 DEF CellForms, InnerForms
    <2> HIDE DEF g
    <2>5. form' = CellShown(g, book')
      BY <2>1, <2>4 DEF Shown
    <2>6. BookOK(book')
      BY <2>3 DEF Sure, Fair
    <2> QED
      BY <2>1, <2>3, <2>4, <2>5, <2>6, CellPainted DEF Good, DesktopForms
  <1>13. ASSUME NEW c \in BOOLEAN, CommitCell(c) PROVE Good /\ form.at = "cell"
    <2>1. PICK b \in {book, SetCell(book, form.val)} :
            Saves(b) /\ (b = book \/ Open(book)) /\ form.at = "cell" /\ form' = Nothing
      BY <1>13 DEF CommitCell
    <2>2. Mild(book, b)
      BY <1>1, <1>2, <2>1, FiguresFair, SameBook
    <2> QED
      BY <2>1, <2>2, Saved, NothingOK DEF Good, Nothing, DesktopForms
  <1> QED
    BY <1>5, <1>6, <1>7, <1>8, <1>9, <1>10, <1>11, <1>12, <1>13
    DEF CellSteps, OpenCell, CancelCell, EditMovement, AskMovement, SaveMovement, CancelMovement,
        Nothing

LEMMA PocketStepsOK ==
  ASSUME IInv, PocketSteps
  PROVE  Good /\ form.at \in {"nothing", "pocket", "popover"}
  <1>1. BookOK(book) /\ form \in Drafts /\ book.pocket \in Amounts /\ book.out \in Amounts
    BY DEF IInv, FormOK, BookOK, Books
  <1>2. /\ form.at = "pocket" => form \in PocketForms /\ form.val \in Amounts
        /\ form.at = "popover" => form \in PopoverForms /\ form.val \in Amounts
                                  /\ form.amount \in Amounts
    BY <1>1, Kinds DEF PocketForms, PopoverForms
  <1>3. ASSUME Keeps, form' \in {Nothing} \cup PocketForms \cup PopoverForms PROVE Good
    BY <1>3, KeepsOK, PlainOK DEF Good, Nothing, PocketForms, PopoverForms, DesktopForms
  <1>4. ASSUME NEW b, Saves(b), Mild(book, b), form' \in {Nothing} \cup PopoverForms PROVE Good
    BY <1>4, Saved, PlainOK DEF Good, Nothing, PopoverForms, DesktopForms
  <1>5. CASE OpenPocket \/ OpenPopover
    <2>1. Keeps /\ form = Nothing
      BY <1>5 DEF OpenPocket, OpenPopover
    <2>2. 0 \in Amounts
      BY FormsAssumption DEF Amounts
    <2>3. OpenPocket => form' \in PocketForms
      BY <1>1 DEF OpenPocket, PocketForms
    <2>4. OpenPopover => form' \in PopoverForms
      BY <1>1, <2>2 DEF OpenPopover, PopoverForms
    <2> QED
      BY <1>3, <1>5, <2>1, <2>3, <2>4 DEF Nothing
  <1>6. CASE CancelPocket \/ ClosePopover
    BY <1>3, <1>6 DEF CancelPocket, ClosePopover
  <1>7. CASE CommitPocket
    <2>1. form.at = "pocket" /\ form' = Nothing
      BY <1>7 DEF CommitPocket
    <2>2. CASE ~Open(book) \/ form.val = book.pocket
      BY <1>3, <1>7, <2>1, <2>2 DEF CommitPocket
    <2>3. CASE Open(book) /\ form.val # book.pocket
      <3>1. PocketFits(book, form.val) /\ Saves(SetPocket(book, form.val))
        BY <1>7, <2>3 DEF CommitPocket
      <3>2. Mild(book, SetPocket(book, form.val))
        BY <1>1, <1>2, <2>1, <2>3, <3>1, FiguresFair
      <3> QED
        BY <1>4, <2>1, <3>1, <3>2
    <2> QED
      BY <2>1, <2>2, <2>3
  <1>8. CASE SaveWithdrawal
    <2>1. form.at = "popover" /\ Open(book) /\ OutFits(book, book.out + form.amount)
          /\ Saves(SetOut(book, book.out + form.amount)) /\ form' = Nothing
      BY <1>8 DEF SaveWithdrawal
    <2>2. book.out + form.amount \in Amounts
      BY <1>1, <1>2, <2>1, FormsAssumption DEF OutFits, Amounts
    <2>3. Mild(book, SetOut(book, book.out + form.amount))
      BY <1>1, <2>1, <2>2, FiguresFair
    <2> QED
      BY <1>4, <2>1, <2>3
  <1>9. CASE CommitRow
    <2>1. form.at = "popover" /\ Open(book) /\ form' = [form EXCEPT !.val = book'.out, !.typed = FALSE]
      BY <1>9 DEF CommitRow
    <2>2. ASSUME book'.out \in Amounts PROVE form' \in PopoverForms
      BY <1>2, <2>1, <2>2 DEF PopoverForms
    <2>3. CASE form.val = book.out \/ ~OutFits(book, form.val)
      <3>1. Keeps
        BY <1>9, <2>3 DEF CommitRow
      <3>2. book'.out \in Amounts
        BY <1>1, <3>1 DEF Keeps
      <3> QED
        BY <1>3, <2>1, <2>2, <3>1, <3>2
    <2>4. CASE form.val # book.out /\ OutFits(book, form.val)
      <3>1. Saves(SetOut(book, form.val))
        BY <1>9, <2>4 DEF CommitRow
      <3>2. Mild(book, SetOut(book, form.val))
        BY <1>1, <1>2, <2>1, <2>4, FiguresFair
      <3>3. book'.out \in Amounts
        BY <3>1, <3>2, Saved DEF Sure, Fair, BookOK, Books
      <3> QED
        BY <1>4, <2>1, <2>2, <3>1, <3>2, <3>3
    <2> QED
      BY <2>1, <2>3, <2>4
  <1>10. CASE EscapeRow
    <2>1. form.at = "popover" /\ Keeps /\ form' = [form EXCEPT !.val = book.out, !.typed = FALSE]
      BY <1>10 DEF EscapeRow
    <2>2. form' \in PopoverForms
      BY <1>1, <1>2, <2>1 DEF PopoverForms
    <2> QED
      BY <1>3, <2>1, <2>2
  <1>11. ASSUME NEW v \in Amounts, TypeInPocket(v) \/ TypeAmount(v) \/ TypeInRow(v)
         PROVE  Good /\ form.at \in {"pocket", "popover"}
    <2>1. Keeps /\ form.at \in {"pocket", "popover"}
      BY <1>11 DEF TypeInPocket, TypeAmount, TypeInRow
    <2>2. CASE TypeInPocket(v)
      <3>1. form' \in PocketForms
        BY <1>2, <2>2 DEF TypeInPocket, PocketForms
      <3> QED
        BY <1>3, <2>1, <3>1
    <2>3. CASE TypeAmount(v) \/ TypeInRow(v)
      <3>1. form' \in PopoverForms
        BY <1>2, <2>3 DEF TypeAmount, TypeInRow, PopoverForms
      <3> QED
        BY <1>3, <2>1, <3>1
    <2> QED
      BY <1>11, <2>2, <2>3
  <1> QED
    BY <1>5, <1>6, <1>7, <1>8, <1>9, <1>10, <1>11
    DEF PocketSteps, OpenPocket, CommitPocket, CancelPocket, OpenPopover, SaveWithdrawal, CommitRow,
        EscapeRow, ClosePopover, Nothing

LEMMA RowStepsOK == ASSUME IInv, RowSteps PROVE Good /\ form.at \in {"nothing", "rowdelete"}
  <1>1. BookOK(book) /\ form.at \in {"nothing", "rowdelete"}
    <2>1. form = Nothing => form.at = "nothing"
      BY DEF Nothing
    <2>2. form = Nothing \/ form.at = "rowdelete"
      BY DEF RowSteps, AskRow, ConfirmRow, CancelRow, AddChild, Drop
    <2> QED
      BY <2>1, <2>2 DEF IInv
  <1>2. ASSUME Keeps, form' \in {Nothing, [at |-> "rowdelete"]} PROVE Good
    BY <1>2, KeepsOK, PlainOK DEF Good, Nothing, DesktopForms
  <1>3. ASSUME NEW b, Saves(b), Mild(book, b), form' = Nothing PROVE Good
    BY <1>3, Saved, NothingOK DEF Good, Nothing, DesktopForms
  <1>4. CASE AskRow \/ CancelRow
    BY <1>1, <1>2, <1>4 DEF AskRow, CancelRow
  <1>5. CASE ConfirmRow
    <2>1. PICK b \in {book, Delete(book)} : Saves(b) /\ form' = Nothing
      BY <1>5 DEF ConfirmRow
    <2>2. Mild(book, b)
      BY <1>1, StructureFair, SameBook
    <2> QED
      BY <1>1, <1>3, <2>1, <2>2
  <1>6. CASE AddChild
    <2>1. PICK b \in {book, AddKid(book)} : Saves(b) /\ form' = Nothing /\ book.kids < 2
      BY <1>6 DEF AddChild
    <2>2. Mild(book, b)
      BY <1>1, <2>1, StructureFair, SameBook
    <2> QED
      BY <1>1, <1>3, <2>1, <2>2
  <1>7. CASE \E p \in Places : Drop(p)
    <2>1. PICK p \in Places : Saves([book EXCEPT !.place = p]) /\ form' = Nothing
      BY <1>7 DEF Drop
    <2>2. Mild(book, [book EXCEPT !.place = p])
      BY <1>1, StructureFair
    <2> QED
      BY <1>1, <1>3, <2>1, <2>2
  <1> QED
    BY <1>1, <1>4, <1>5, <1>6, <1>7 DEF RowSteps

\* Requests that name no month they did not name before.
LEMMA SameMonths ==
  ASSUME NEW q, NEW b, RequestsOK(q, b), NEW r \in Seq(Requests), Len(r) = Len(q),
         \A i \in DOMAIN q : r[i].what = q[i].what /\ r[i].month = q[i].month
  PROVE  RequestsOK(r, b)
  <1>1. q \in Seq(Requests) /\ DOMAIN r = DOMAIN q
    BY DEF RequestsOK
  <1> QED
    BY <1>1 DEF RequestsOK

LEMMA UnheldOK ==
  ASSUME NEW q, NEW b, RequestsOK(q, b)
  PROVE  RequestsOK([i \in DOMAIN q |-> [q[i] EXCEPT !.held = FALSE]], b)
  <1>1. q \in Seq(Requests) /\ DOMAIN q = 1 .. Len(q) /\ Len(q) \in Nat
    BY DEF RequestsOK
  <1>2. ASSUME NEW i \in DOMAIN q
        PROVE  /\ [q[i] EXCEPT !.held = FALSE] \in Requests
               /\ [q[i] EXCEPT !.held = FALSE].what = q[i].what
               /\ [q[i] EXCEPT !.held = FALSE].month = q[i].month
    <2>1. q[i] \in Requests
      BY <1>1
    <2> QED
      BY <2>1 DEF Requests
  <1> DEFINE r == [i \in 1 .. Len(q) |-> [q[i] EXCEPT !.held = FALSE]]
  <1>3. r \in Seq(Requests) /\ Len(r) = Len(q)
    BY <1>1, <1>2
  <1>4. \A i \in DOMAIN q : r[i].what = q[i].what /\ r[i].month = q[i].month
    BY <1>1, <1>2
  <1>5. RequestsOK(r, b)
    <2> HIDE DEF r
    <2> QED
      BY <1>3, <1>4, SameMonths
  <1> QED
    BY <1>1, <1>5

LEMMA SentOK ==
  ASSUME NEW q, NEW b, RequestsOK(q, b), q # <<>>
  PROVE  RequestsOK([q EXCEPT ![1].sent = TRUE], b)
  <1>1. q \in Seq(Requests) /\ DOMAIN q = 1 .. Len(q) /\ Len(q) \in Nat \ {0} /\ 1 \in DOMAIN q
    BY DEF RequestsOK
  <1>2. q[1] \in Requests
    BY <1>1
  <1> DEFINE x == [q[1] EXCEPT !.sent = TRUE]
             r == [q EXCEPT ![1] = x]
  <1>3. x \in Requests /\ x.what = q[1].what /\ x.month = q[1].month
    BY <1>2 DEF Requests
  <1>4. [q EXCEPT ![1].sent = TRUE] = r
    OBVIOUS
  <1> HIDE DEF x
  <1>5. r \in Seq(Requests) /\ Len(r) = Len(q)
    BY <1>1, <1>3
  <1>6. \A i \in DOMAIN q : r[i].what = q[i].what /\ r[i].month = q[i].month
    BY <1>1, <1>3
  <1>7. RequestsOK(r, b)
    <2> HIDE DEF r
    <2> QED
      BY <1>5, <1>6, SameMonths
  <1> QED
    BY <1>4, <1>7

LEMMA CycleStepsOK ==
  ASSUME IInv, CycleSteps
  PROVE  Good /\ Previewed /\ form.at \in {"nothing", "cycle"}
  <1>1. /\ BookOK(book) /\ form \in Drafts /\ book \in Books /\ book.payday \in 0 .. Paydays
        /\ left \in Lefts /\ RequestsOK(requests, book)
        /\ requests \in Seq(Requests) /\ Len(requests) <= Edits
    BY DEF IInv, FormOK, BookOK, Books, RequestsOK
  <1>2. form.at = "cycle" =>
          /\ form \in CycleForms /\ CycleOK(form, book)
          /\ form.day \in 0 .. Paydays /\ form.preview \in Previews
          /\ form.target \in {None} \cup 0 .. Paydays /\ form.asked \in {None} \cup 0 .. Paydays
          /\ form.retry \in {"no", "preview", "apply"} /\ form.busy \in {"no", "preview", "apply"}
          /\ form.sent \in BOOLEAN
    BY <1>1, Kinds DEF IInv, FormOK, CycleForms
  <1>3. None \notin 0 .. Paydays /\ NoPreview \in Previews
    BY FormsAssumption DEF None, Previews
  <1>4. ASSUME Sure, form' \in CycleForms, CycleOK(form', book')
        PROVE  Good
    BY <1>4, CycleFormOK DEF Good, CycleForms, DesktopForms
  <1>5. ASSUME Keeps PROVE Sure /\ book' = book
    BY <1>5, KeepsOK
  \* A form that is touched: no preview, no target, nothing to repeat.
  <1>6. form.at = "cycle" =>
          LET i == Invalidated(form)
          IN  /\ i \in CycleForms /\ i.preview = NoPreview /\ i.target = None /\ i.retry = "no"
              /\ i.busy = form.busy /\ i.asked = form.asked /\ i.sent = form.sent
    BY <1>2, <1>3 DEF Invalidated, CycleForms
  <1>7. ASSUME NEW d \in 0 .. Paydays, form.at = "cycle", Keeps, form.busy # "apply",
               form' = [Invalidated(form) EXCEPT !.day = d]
        PROVE  Good /\ Previewed
    <2> DEFINE i == Invalidated(form)
    <2>1. /\ i \in CycleForms /\ i.preview = NoPreview /\ i.target = None /\ i.retry = "no"
          /\ i.busy = form.busy /\ i.asked = form.asked /\ i.sent = form.sent
          /\ form' = [i EXCEPT !.day = d]
      BY <1>6, <1>7
    <2> HIDE DEF i
    <2>2. /\ form' \in CycleForms /\ form'.preview = NoPreview /\ form'.retry = "no"
          /\ form'.target = None /\ form'.sent = form.sent
          /\ form'.busy = form.busy /\ form'.asked = form.asked
      BY <1>7, <2>1 DEF CycleForms
    <2>3. CycleOK(form', book')
      BY <1>2, <1>7, <2>2 DEF CycleOK
    <2> QED
      BY <1>4, <1>5, <1>7, <2>2, <2>3 DEF Previewed
  <1>8. ASSUME form' = Nothing, Keeps PROVE Good /\ Previewed
    BY <1>5, <1>8, NothingOK DEF Good, Previewed, Nothing, DesktopForms
  <1>9. CASE OpenCycle
    <2>1. /\ form' \in CycleForms /\ form'.preview = NoPreview /\ form'.retry = "no"
          /\ form'.busy = "no" /\ form'.sent = FALSE
      BY <1>1, <1>3, <1>9 DEF OpenCycle, CycleForms
    <2>2. CycleOK(form', book')
      BY <2>1 DEF CycleOK
    <2>3. RequestsOK(requests', book) /\ UNCHANGED <<book, left>> /\ form.at = "nothing"
      BY <1>1, <1>9, UnheldOK DEF OpenCycle, Nothing
    <2>4. Sure
      BY <2>3, Kept
    <2> QED
      BY <1>4, <2>1, <2>2, <2>3, <2>4 DEF Previewed
  <1>10. ASSUME NEW d \in 0 .. Paydays, ChooseDay(d) PROVE Good /\ Previewed /\ form.at = "cycle"
    BY <1>7, <1>10 DEF ChooseDay
  <1>11. CASE Preview
    <2>1. /\ form.at = "cycle" /\ Keeps /\ form.busy = "no"
          /\ form' = [form EXCEPT !.busy = "preview", !.asked = form.day,
                                  !.preview = NoPreview, !.retry = "no"]
      BY <1>11 DEF Preview
    <2>2. /\ form' \in CycleForms /\ form'.busy = "preview" /\ form'.asked = form.day
          /\ form'.preview = NoPreview /\ form'.retry = "no" /\ form'.sent = form.sent
      BY <1>2, <1>3, <2>1 DEF CycleForms
    <2>3. CycleOK(form', book')
      BY <1>2, <1>3, <2>1, <2>2 DEF CycleOK
    <2> QED
      BY <1>4, <1>5, <2>1, <2>2, <2>3 DEF Previewed
  <1>20. CASE SendCycle
    <2>1. form.at = "cycle" /\ Keeps /\ form.busy # "no" /\ form' = [form EXCEPT !.sent = TRUE]
      BY <1>20 DEF SendCycle
    <2>2. /\ form' \in CycleForms /\ form'.busy = form.busy /\ form'.asked = form.asked
          /\ form'.preview = form.preview /\ form'.retry = form.retry /\ form'.target = form.target
      BY <1>2, <2>1 DEF CycleForms
    <2>3. CycleOK(form', book')
      BY <1>2, <1>5, <2>1, <2>2 DEF CycleOK
    <2> QED
      BY <1>4, <1>5, <2>1, <2>2, <2>3 DEF Previewed
  <1>12. CASE PreviewReady
    <2> DEFINE p == [target |-> form.asked, of |-> book]
    <2>1. /\ form.at = "cycle" /\ Keeps /\ form.busy = "preview"
          /\ form' = [Heard(form) EXCEPT !.target = form.asked, !.preview = p]
      BY <1>12 DEF PreviewReady
    <2>2. form.asked \in 0 .. Paydays
      BY <1>2, <2>1 DEF CycleOK
    <2>3. p \in Previews
      BY <1>1, <2>2 DEF Previews
    <2> HIDE DEF p
    <2>4. /\ form' \in CycleForms /\ form'.busy = "no" /\ form'.target = form.asked
          /\ form'.preview = p /\ form'.sent = FALSE
      BY <1>2, <2>1, <2>2, <2>3 DEF CycleForms, Heard
    <2>5. CycleOK(form', book')
      BY <1>3, <1>5, <2>1, <2>2, <2>4 DEF CycleOK, p
    <2> QED
      BY <1>4, <1>5, <2>1, <2>4, <2>5 DEF Previewed
  <1>13. CASE Confirm
    <2>1. /\ form.at = "cycle" /\ Keeps
          /\ form' = [form EXCEPT !.busy = "apply", !.asked = form.target, !.retry = "no"]
          /\ form.target # None /\ (form.preview # NoPreview \/ form.retry = "apply")
      BY <1>13 DEF Confirm
    <2>2. form.preview = [target |-> form.target, of |-> book]
      BY <1>2, <2>1 DEF CycleOK
    <2>3. /\ form' \in CycleForms /\ form'.busy = "apply" /\ form'.target = form.target
          /\ form'.preview = form.preview /\ form'.asked = form.target
      BY <1>2, <2>1 DEF CycleForms
    <2>4. CycleOK(form', book')
      BY <1>5, <2>1, <2>2, <2>3 DEF CycleOK
    <2> QED
      BY <1>4, <1>5, <2>1, <2>2, <2>3, <2>4 DEF Previewed
  \* The form has heard of its request, and the ledger was replaced with it.
  <1>21. ASSUME NEW b, BookOK(b), b # book, form.at = "cycle", book' = b,
                form' = Heard(CycleShown(form, book, b))
         PROVE  form' \in CycleForms /\ CycleOK(form', book') /\ form'.busy = "no"
    <2> DEFINE g == CycleShown(form, book, b)
    <2>1. g \in CycleForms /\ g.preview = NoPreview /\ g.target = None /\ g.retry = "no"
      BY <1>2, <1>21, CyclePainted
    <2>2. form' = Heard(g)
      BY <1>21
    <2> HIDE DEF g
    <2>3. /\ form' \in CycleForms /\ form'.preview = NoPreview /\ form'.retry = "no"
          /\ form'.busy = "no" /\ form'.sent = FALSE
      BY <2>1, <2>2 DEF CycleForms, Heard
    <2> QED
      BY <2>3 DEF CycleOK
  <1>14. CASE Applied
    <2> DEFINE b == [book EXCEPT !.payday = form.asked]
    <2>1. /\ form.at = "cycle" /\ form.busy = "apply" /\ PaydayFits(book, form.asked)
          /\ Writes(b) /\ requests' = Overtaken(requests)
          /\ form' = Heard(CycleShown(form, book, book'))
      BY <1>14 DEF Applied
    <2>2. form.asked \in 0 .. Paydays
      BY <1>2, <2>1 DEF CycleOK
    <2>3. Mild(book, b) /\ b.payday = form.asked
      BY <1>1, <2>2, StructureFair DEF Books
    <2>4. b # book
      BY <2>1, <2>3 DEF PaydayFits
    <2> HIDE DEF b
    <2>5. left' \in Lefts /\ book' = b /\ BookOK(b)
      BY <2>1, <2>3, Written DEF Mild, Fair
    <2>6. RequestsOK(requests', book')
      BY <1>1, <2>1, OvertakenOK
    <2>7. Sure
      BY <2>3, <2>5, <2>6 DEF Sure, Named, Mild, SameBoundary
    <2>8. form' \in CycleForms /\ CycleOK(form', book') /\ form'.busy = "no"
      BY <1>21, <2>1, <2>4, <2>5
    <2>9. form.preview # NoPreview => form.preview = [target |-> form.asked, of |-> book]
      BY <1>2, <2>1 DEF CycleOK
    <2> QED
      BY <1>4, <2>1, <2>3, <2>5, <2>7, <2>8, <2>9 DEF Previewed
  <1>15. ASSUME NEW r \in BOOLEAN, RequestFailed(r) PROVE Good /\ Previewed /\ form.at = "cycle"
    <2>1. /\ form.at = "cycle" /\ Keeps
          /\ form' = [Heard(form) EXCEPT !.retry = IF r THEN form.busy ELSE "no"]
      BY <1>15 DEF RequestFailed
    <2>2. /\ form' \in CycleForms /\ form'.busy = "no" /\ form'.target = form.target
          /\ form'.preview = form.preview /\ (form'.retry = "apply" => form.busy = "apply")
          /\ form'.sent = FALSE
      BY <1>2, <2>1 DEF CycleForms, Heard
    <2>3. CycleOK(form', book')
      BY <1>2, <1>5, <2>1, <2>2 DEF CycleOK
    <2> QED
      BY <1>4, <1>5, <2>1, <2>2, <2>3 DEF Previewed
  <1>16. CASE RequestConflict
    <2>1. /\ form.at = "cycle" /\ left.foreign > 0 /\ left' = [left EXCEPT !.foreign = @ - 1]
          /\ requests' = Overtaken(requests)
      BY <1>16 DEF RequestConflict
    <2>2. PICK b \in Elsewhere(book) : book' = b /\ form' = Heard(CycleShown(form, book, b))
      BY <1>16 DEF RequestConflict
    <2>3. Fair(book, b) /\ BookOK(b) /\ b # book
      BY <1>1, ElsewhereFair DEF Fair
    <2>4. left' \in Lefts /\ ~Own
      BY <1>1, <2>1, FormsAssumption DEF Lefts, Own
    <2>5. RequestsOK(requests', book')
      BY <1>1, <2>1, OvertakenOK
    <2>6. Sure
      BY <2>2, <2>3, <2>4, <2>5 DEF Sure, Named
    <2>7. form' \in CycleForms /\ CycleOK(form', book') /\ form'.busy = "no"
      BY <1>21, <2>1, <2>2, <2>3
    <2> QED
      BY <1>4, <2>1, <2>4, <2>6, <2>7 DEF Previewed
  <1>17. CASE DropPreview \/ Discard
    <2>1. /\ form.at = "cycle" /\ Keeps /\ form.busy = "no"
      BY <1>17 DEF DropPreview, Discard
    <2>2. PICK d \in 0 .. Paydays : form' = [Invalidated(form) EXCEPT !.day = d]
      <3>1. CASE Discard
        BY <1>1, <3>1 DEF Discard
      <3>2. CASE DropPreview
        <4>1. Invalidated(form).day = form.day
          BY <1>2, <2>1 DEF Invalidated, CycleForms
        <4>2. 0 \in 0 .. Paydays
          BY FormsAssumption
        <4>3. form' = [Invalidated(form) EXCEPT !.day = IF book.payday = 0 THEN 0 ELSE form.day]
          BY <3>2, <4>1 DEF DropPreview
        <4> QED
          BY <1>2, <2>1, <4>2, <4>3
      <3> QED
        BY <1>17, <3>1, <3>2
    <2> QED
      BY <1>7, <2>1, <2>2
  <1>18. CASE LeaveCycle
    BY <1>8, <1>18 DEF LeaveCycle
  <1>19. form.at \in {"nothing", "cycle"}
    <2>1. form = Nothing => form.at = "nothing"
      BY DEF Nothing
    <2> QED
      BY <1>10, <1>15, <2>1
      DEF CycleSteps, OpenCycle, Preview, SendCycle, PreviewReady, Confirm, Applied, RequestConflict,
          DropPreview, Discard, LeaveCycle
  <1> QED
    BY <1>9, <1>10, <1>11, <1>12, <1>13, <1>14, <1>15, <1>16, <1>17, <1>18, <1>19, <1>20 DEF CycleSteps

\* The month a button or a question can name.
LEMMA Targets ==
  ASSUME NEW b, BookOK(b), NEW what \in {"close", "reopen"}, TargetOf(what, b) # None
  PROVE  /\ TargetOf(what, b) \in 1 .. Months
         /\ what = "close" => Closable(b) /\ TargetOf(what, b) = b.closed + 1
         /\ what = "reopen" => Reopenable(b) /\ TargetOf(what, b) = b.closed
  BY FormsAssumption DEF BookOK, Books, TargetOf, Closable, Reopenable

\* Neither a figure nor the calendar.
Aside == Figures(book') = Figures(book) /\ book'.payday = book.payday

\* What the server reaches is the month the request named, if it counts on one.
LEMMA Reached ==
  ASSUME IInv, Travelling, Reaches(Head(requests))
  PROVE  Fair(book, book') /\ left' \in Lefts /\ Named /\ Aside
  <1> DEFINE q == Head(requests)
             b == IF q.what = "close" THEN Close(book) ELSE Reopen(book)
  <1>1. BookOK(book) /\ RequestsOK(requests, book) /\ requests \in Seq(Requests) /\ requests # <<>>
    BY DEF IInv, RequestsOK, Travelling
  <1>2. 1 \in DOMAIN requests /\ q = requests[1] /\ q \in Requests
    BY <1>1
  <1>3. q.what \in {"close", "reopen"} /\ (q.month # None => q.month = TargetOf(q.what, book))
    BY <1>1, <1>2 DEF Requests, RequestsOK
  <1>4. TargetOf(q.what, book) # None /\ Writes(b)
    BY DEF Reaches
  <1> HIDE DEF q
  <1>5. /\ q.what = "close" => Closable(book) /\ TargetOf(q.what, book) = book.closed + 1
        /\ q.what = "reopen" => Reopenable(book) /\ TargetOf(q.what, book) = book.closed
    BY <1>1, <1>3, <1>4, Targets
  <1>6. Fair(book, b)
    BY <1>1, <1>3, <1>5, StructureFair
  <1>7. /\ q.what = "close" => b.closed = book.closed + 1
        /\ Figures(b) = Figures(book) /\ b.payday = book.payday
    BY <1>1 DEF BookOK, Books, Close, Reopen, Figures
  <1> HIDE DEF b
  <1>8. left' \in Lefts /\ book' = b
    BY <1>4, Written
  <1>9. q.month # None => q.month = IF q.what = "close" THEN book'.closed ELSE book.closed
    BY <1>3, <1>5, <1>7, <1>8
  <1>10. Named
    BY <1>9 DEF Named, q
  <1> QED
    BY <1>6, <1>7, <1>8, <1>10 DEF Aside

LEMMA AnswersOK ==
  ASSUME IInv, Answers
  PROVE  Sure /\ (Own => Aside)
  <1>1. /\ BookOK(book) /\ left \in Lefts /\ requests # <<>> /\ RequestsOK(requests, book)
        /\ Travelling
    BY DEF IInv, Answers, ClosureDone, ClosureRefused, ClosureConflict, Travelling
  <1>2. RequestsOK(Tail(requests), book)
    BY <1>1, TailOK
  <1>3. \A b : RequestsOK(Overtaken(Tail(requests)), b)
    BY <1>1, TailOK, OvertakenOK
  <1>4. CASE ClosureRefused
    <2>1. UNCHANGED <<book, left>> /\ requests' = Tail(requests)
      BY <1>4 DEF ClosureRefused
    <2> QED
      BY <1>2, <2>1, Kept DEF Aside
  <1>5. CASE ClosureConflict
    <2>1. /\ book' \in Elsewhere(book) /\ left.foreign > 0 /\ left' = [left EXCEPT !.foreign = @ - 1]
          /\ requests' = Overtaken(Tail(requests))
      BY <1>5 DEF ClosureConflict
    <2>2. left' \in Lefts /\ ~Own
      BY <1>1, <2>1, FormsAssumption DEF Lefts, Own
    <2>3. Fair(book, book')
      BY <1>1, <2>1, ElsewhereFair
    <2> QED
      BY <1>3, <2>1, <2>2, <2>3 DEF Sure, Named
  <1>6. CASE ClosureDone
    <2>1. Reaches(Head(requests)) /\ requests' = Overtaken(Tail(requests))
      BY <1>6 DEF ClosureDone
    <2>2. Fair(book, book') /\ left' \in Lefts /\ Named /\ Aside
      BY <1>1, <2>1, Reached
    <2> QED
      BY <1>3, <2>1, <2>2 DEF Sure
  <1> QED
    BY <1>4, <1>5, <1>6 DEF Answers

LEMMA PressClosureOK ==
  ASSUME IInv, NEW what \in {"close", "reopen"}, PressClosure(what)
  PROVE  Good /\ Previewed /\ form.at = "nothing" /\ form' = form
  <1> DEFINE m == TargetOf(what, book)
  <1>1. /\ form = Nothing /\ form' = form /\ UNCHANGED <<book, left>> /\ m # None
        /\ Len(requests) < left.edits /\ requests' = Append(requests, Request(what, m, TRUE))
    BY DEF PressClosure
  <1>2. m \in 1 .. Months
    BY <1>1, Targets DEF IInv
  <1>3. TargetOf(what, book) = m
    OBVIOUS
  <1> HIDE DEF m
  <1>4. Len(requests) < Edits
    BY <1>1, Budget
  <1>5. RequestsOK(requests', book)
    BY <1>1, <1>2, <1>3, <1>4, AppendOK DEF IInv
  <1>6. Sure
    BY <1>1, <1>5, Kept
  <1> QED
    BY <1>1, <1>6, NothingOK DEF Good, Nothing, DesktopForms, Previewed

LEMMA DesktopOK ==
  ASSUME IInv, Desktop
  PROVE  IInv' /\ Sure /\ Previewed
  <1>1. Good /\ Previewed
    <2>1. CASE CellSteps
      BY <2>1, CellStepsOK DEF Previewed
    <2>2. CASE PocketSteps
      BY <2>2, PocketStepsOK DEF Previewed
    <2>3. CASE RowSteps
      BY <2>3, RowStepsOK DEF Previewed
    <2>4. CASE CycleSteps
      BY <2>4, CycleStepsOK
    <2>5. CASE \E what \in {"close", "reopen"} : PressClosure(what)
      BY <2>5, PressClosureOK
    <2> QED
      BY <2>1, <2>2, <2>3, <2>4, <2>5 DEF Desktop
  <1>2. hist = <<>> /\ UNCHANGED <<hist, pos, backs>>
    BY DEF Desktop, Phone
  <1>3. HistOK'
    BY <1>1, <1>2 DEF IInv, HistOK, Good
  <1> QED
    BY <1>1, <1>3 DEF IInv, Good, Sure, Fair, Lefts

-----------------------------------------------------------------------------
(* The forms of the phone.                                                 *)

\* The form tells the screen.
LEMMA Where ==
  ASSUME IInv
  PROVE  /\ Phone => hist \in Seq(Entry) /\ pos \in DOMAIN hist /\ Belongs(form, Here)
         /\ form.at \in {"card", "oprow", "edit", "new", "node"} => Phone
         /\ Phone /\ form.at = "card" => Here = "pocket"
         /\ Phone /\ form.at = "oprow" => Here = "retiros"
         /\ Phone /\ form.at \in {"edit", "new", "node", "closure"} => Here = form.at
         /\ Phone /\ Here \in {"edit", "new", "node"} => form.at = Here
         /\ Phone /\ Here = "move" => form.at = "nothing"
         /\ Phone => form.at \notin {"cell", "cycle"}
  BY DEF IInv, HistOK, Phone, Belongs, DesktopForms

LEMMA SameScreen ==
  ASSUME IInv, UNCHANGED <<hist, pos, backs>>, Sure, FormOK(form', book'),
         Phone => Belongs(form', Here), ~Phone => form'.at \in DesktopForms
  PROVE  IInv'
  <1>1. Here' = Here
    BY DEF Here
  <1>2. HistOK'
    BY <1>1 DEF IInv, HistOK, Phone
  <1> QED
    BY <1>2 DEF IInv, Sure, Fair, Lefts

\* A screen of the phone that stays, over the ledger painted anew.
LEMMA StaysOK ==
  ASSUME IInv, Phone, Sure, NEW f, FormOK(f, book'), Belongs(f, Here), Stays(f)
  PROVE  IInv'
  <1>1. Sound(hist) /\ Len(hist) \in 2 .. MaxHist /\ pos \in DOMAIN hist
    BY DEF IInv, HistOK, Phone, Sound
  <1>2. Shows(hist, pos, f) /\ backs' \in 0 .. 2 /\ BookOK(book')
    BY DEF Stays, IInv, HistOK, Sure, Fair
  <1>3. FormOK(form', book') /\ HistOK'
    BY <1>1, <1>2, ShownOK
  <1> QED
    BY <1>2, <1>3 DEF IInv, Sure, Lefts

\* A form that ends where it is, with nothing open.
LEMMA Ends ==
  ASSUME IInv, Phone, Here \in {"pocket", "retiros"}, NEW b, Mild(book, b), Saves(b), Stays(Nothing)
  PROVE  IInv' /\ Sure
  <1>1. Sure
    BY Saved
  <1>2. Belongs(Nothing, Here)
    BY DEF Belongs, Nothing
  <1> QED
    BY <1>1, <1>2, NothingOK, StaysOK

\* A form that ends with a «‹».
LEMMA Returns ==
  ASSUME IInv, Phone, Here \in Pages, backs < 2, NEW b, Mild(book, b), Saves(b),
         NEW f, FormOK(f, b), Belongs(f, Here), GoesBack(f)
  PROVE  IInv' /\ Sure
  <1>1. Sure /\ book' = b
    BY Saved
  <1>2. FormOK(form', book') /\ HistOK'
    BY <1>1, GoesBackOK DEF IInv, Sure, Fair
  <1> QED
    BY <1>1, <1>2 DEF IInv, Sure, Fair, Lefts

\* The steps that neither save nor move.
LEMMA PhoneKeepsOK ==
  ASSUME IInv,
         \/ OpenCard \/ CancelOnPhone \/ AskOnPhone
         \/ \E asking \in BOOLEAN : OpenRow(asking)
         \/ \E v \in Amounts : TypeOnPhone(v)
         \/ \E what \in {"close", "reopen"} : AskClosure(what)
         \/ \E yes \in BOOLEAN : AnswerClosure(yes)
  PROVE  IInv' /\ Sure /\ form.at # "cycle"
  <1>1. BookOK(book) /\ form \in Drafts /\ book.pocket \in Amounts /\ book.out \in Amounts
        /\ 0 \in Amounts
    BY FormsAssumption DEF IInv, FormOK, BookOK, Books, Amounts
  <1>2. /\ form.at = "card" => form \in CardForms
        /\ form.at = "oprow" => form \in RowForms
        /\ form.at = "edit" => form \in EditForms
        /\ form.at = "node" => form \in NodeForms
        /\ form.at = "closure" => form \in ClosureForms
    BY <1>1, Kinds
  <1>3. UNCHANGED <<book, left, hist, pos, backs>>
    BY DEF OpenCard, CancelOnPhone, AskOnPhone, OpenRow, TypeOnPhone, AskClosure, AnswerClosure, Keeps
  <1>4. RequestsOK(requests', book)
    <2>1. CASE requests' = requests
      BY <2>1 DEF IInv
    <2>2. CASE requests' # requests
      <3>1. PICK yes \in BOOLEAN : AnswerClosure(yes)
        BY <2>2 DEF OpenCard, CancelOnPhone, AskOnPhone, OpenRow, TypeOnPhone, AskClosure, Keeps
      <3>2. /\ form.at = "closure" /\ TargetOf(form.what, book) = form.month
            /\ Len(requests) < left.edits
            /\ requests' = Append(requests, Request(form.what, form.month, FALSE))
        BY <2>2, <3>1 DEF AnswerClosure, Asks
      <3>3. form.what \in {"close", "reopen"} /\ form.month \in 1 .. Months
        BY <1>2, <3>2 DEF ClosureForms
      <3>4. Len(requests) < Edits
        BY <3>2, Budget
      <3> QED
        BY <3>2, <3>3, <3>4, AppendOK DEF IInv
    <2> QED
      BY <2>1, <2>2
  <1>5. ASSUME Phone, FormOK(form', book), Belongs(form', Here)
        PROVE  IInv' /\ Sure /\ form.at # "cycle"
    <2>1. form.at # "cycle"
      BY <1>5, Where
    <2>2. Sure /\ book' = book
      BY <1>3, <1>4, Kept
    <2> QED
      BY <1>3, <1>5, <2>1, <2>2, SameScreen
  <1>6. CASE OpenCard
    <2>1. form' \in CardForms /\ form'.at = "card" /\ Phone /\ Here = "pocket"
      BY <1>1, <1>6 DEF OpenCard, Touches, CardForms
    <2> QED
      BY <1>5, <2>1, PlainOK DEF Belongs
  <1>7. CASE \E asking \in BOOLEAN : OpenRow(asking)
    <2>1. form' \in RowForms /\ form'.at = "oprow" /\ Phone /\ Here = "retiros"
      BY <1>1, <1>7 DEF OpenRow, Touches, RowForms
    <2> QED
      BY <1>5, <2>1, PlainOK DEF Belongs
  <1>8. CASE \E v \in Amounts : TypeOnPhone(v)
    <2>1. PICK v \in Amounts : form.at \in {"card", "edit", "oprow"} /\ form' = [form EXCEPT !.val = v]
      BY <1>8 DEF TypeOnPhone
    <2>2. form' \in CardForms \cup EditForms \cup RowForms /\ form'.at = form.at
      BY <1>2, <2>1 DEF CardForms, EditForms, RowForms
    <2>3. Phone /\ Belongs(form', Here)
      BY <2>1, <2>2, Where DEF Belongs
    <2> QED
      BY <1>5, <2>2, <2>3, PlainOK
  <1>9. CASE CancelOnPhone
    <2>1. form.at \in {"card", "oprow"} /\ form' = Nothing /\ form'.at = "nothing"
      BY <1>9 DEF CancelOnPhone, Nothing
    <2>2. Phone /\ Belongs(form', Here)
      BY <2>1, Where DEF Belongs
    <2> QED
      BY <1>5, <2>1, <2>2, NothingOK
  <1>10. CASE AskOnPhone
    <2>1. Phone /\ Here \in {"edit", "node"} /\ form.at = Here
      BY <1>10, Where DEF AskOnPhone, Touches
    <2>2. \/ form.at = "edit" /\ form' = [form EXCEPT !.asking = TRUE]
          \/ form.at = "node" /\ form' = [form EXCEPT !.asked = TRUE]
      BY <1>10, <2>1 DEF AskOnPhone, Touches
    <2>3. form' \in EditForms \cup NodeForms /\ form'.at = form.at
      BY <1>2, <2>2 DEF EditForms, NodeForms
    <2> QED
      BY <1>5, <2>1, <2>3, PlainOK DEF Belongs
  <1>11. CASE \E what \in {"close", "reopen"} : AskClosure(what)
    <2>1. PICK what \in {"close", "reopen"} : AskClosure(what)
      BY <1>11
    <2> DEFINE m == TargetOf(what, book)
    <2>2. /\ Phone /\ Here = "closure" /\ m # None
          /\ form' = [at |-> "closure", what |-> what, month |-> m, phase |-> "asking"]
      BY <2>1 DEF AskClosure, Touches
    <2>3. m \in 1 .. Months
      BY <1>1, <2>2, Targets
    <2> HIDE DEF m
    <2>4. form' \in ClosureForms /\ form'.at = "closure"
      BY <2>2, <2>3 DEF ClosureForms
    <2> QED
      BY <1>5, <2>2, <2>4, ClosureFormOK DEF Belongs
  <1>12. CASE \E yes \in BOOLEAN : AnswerClosure(yes)
    <2>1. /\ Phone /\ Here = "closure" /\ form.at = "closure"
          /\ form' = [form EXCEPT !.phase = "busy"] \/ form' = Nothing
      BY <1>12 DEF AnswerClosure, Touches
    <2>2. CASE form' = Nothing
      BY <1>5, <2>1, <2>2, NothingOK DEF Belongs, Nothing
    <2>3. CASE form' = [form EXCEPT !.phase = "busy"]
      <3>1. form' \in ClosureForms /\ form'.at = "closure"
        BY <1>2, <2>1, <2>3 DEF ClosureForms
      <3> QED
        BY <1>5, <2>1, <3>1, ClosureFormOK DEF Belongs
    <2> QED
      BY <2>1, <2>2, <2>3
  <1> QED
    BY <1>6, <1>7, <1>8, <1>9, <1>10, <1>11, <1>12

\* The steps that save.
LEMMA PhoneSavesOK ==
  ASSUME IInv,
         \/ SaveCard \/ SaveRow \/ SubmitMovement \/ RemoveMovement \/ CreateNode \/ RemoveNode
         \/ \E p \in Places : MoveNode(p)
  PROVE  IInv' /\ Sure /\ form.at # "cycle"
  <1>1. /\ BookOK(book) /\ form \in Drafts /\ FormOK(form, book)
        /\ book.pocket \in Amounts /\ book.out \in Amounts /\ book.out <= book.pocket
        /\ 0 \in Amounts
    BY FormsAssumption DEF IInv, FormOK, BookOK, Books, Amounts
  <1>2. /\ form.at = "card" => form.val \in Amounts
        /\ form.at = "oprow" => form.val \in Amounts
        /\ form.at = "edit" => form \in EditForms /\ form.val \in Amounts
        /\ form.at = "node" => form \in NodeForms
        /\ form.at = "new" => form \in CreationForms /\ NewOK(form)
        /\ form.at = "nothing" => form = Nothing
    BY <1>1, Kinds DEF CardForms, RowForms, EditForms, FormOK
  <1>3. CASE SaveCard
    <2>1. form.at = "card" /\ Open(book) /\ Saves(SetPocket(book, form.val)) /\ Stays(Nothing)
      BY <1>3 DEF SaveCard
    <2>2. PocketFits(book, form.val)
      BY <1>1, <1>3 DEF SaveCard, PocketFits, Amounts
    <2>3. Mild(book, SetPocket(book, form.val))
      BY <1>1, <1>2, <2>1, <2>2, FiguresFair
    <2>4. Phone /\ Here = "pocket"
      BY <2>1, Where
    <2> QED
      BY <2>1, <2>3, <2>4, Ends
  <1>4. CASE SaveRow
    <2>1. form.at = "oprow" /\ Open(book) /\ Saves(SetOut(book, form.val)) /\ Stays(Nothing)
      BY <1>4 DEF SaveRow
    <2>2. OutFits(book, form.val)
      BY <1>1, <1>4 DEF SaveRow, OutFits, Amounts
    <2>3. Mild(book, SetOut(book, form.val))
      BY <1>1, <1>2, <2>1, <2>2, FiguresFair
    <2>4. Phone /\ Here = "retiros"
      BY <2>1, Where
    <2> QED
      BY <2>1, <2>3, <2>4, Ends
  <1>5. CASE SubmitMovement \/ RemoveMovement
    <2>1. Phone /\ Here = "edit" /\ backs < 2 /\ form.at = "edit" /\ GoesBack(form)
      BY <1>5, Where DEF SubmitMovement, RemoveMovement, Touches
    <2>2. PICK v \in {0, form.val} : Open(book) /\ MoveFits(book, v) /\ Saves(SetMove(book, v))
      BY <1>5 DEF SubmitMovement, RemoveMovement
    <2>3. Mild(book, SetMove(book, v))
      BY <1>1, <1>2, <2>1, <2>2, FiguresFair
    <2>4. FormOK(form, SetMove(book, v)) /\ Belongs(form, Here)
      BY <1>2, <2>1, PlainOK DEF Belongs
    <2>5. Here \in Pages
      BY <2>1 DEF Pages
    <2> QED
      BY <2>1, <2>2, <2>3, <2>4, <2>5, Returns
  <1>6. CASE CreateNode
    <2> DEFINE f == [form EXCEPT !.sent = TRUE, !.made = @ + 1]
    <2>1. /\ Phone /\ Here = "new" /\ backs < 2 /\ form.at = "new" /\ ~form.sent /\ book.kids < 2
          /\ Saves(AddKid(book)) /\ GoesBack(f)
      BY <1>6, Where DEF CreateNode, Touches
    <2>2. form \in CreationForms /\ form.made = 0
      BY <1>2, <2>1 DEF NewOK
    <2>3. f \in CreationForms /\ f.at = "new" /\ f.sent = TRUE /\ f.made = 1
      <3>1. form.made + 1 \in Nat /\ form.made + 1 = 1
        BY <2>2
      <3>2. f = [form EXCEPT !.sent = TRUE, !.made = form.made + 1]
        BY <2>2 DEF CreationForms
      <3> HIDE DEF f
      <3> QED
        BY <2>2, <3>1, <3>2 DEF CreationForms
    <2> HIDE DEF f
    <2>4. FormOK(f, AddKid(book)) /\ Belongs(f, Here)
      BY <2>1, <2>3, CreationOK DEF Belongs
    <2>5. Mild(book, AddKid(book)) /\ Here \in Pages
      BY <1>1, <2>1, StructureFair DEF Pages
    <2> QED
      BY <2>1, <2>4, <2>5, Returns
  <1>7. CASE RemoveNode
    <2>1. Phone /\ Here = "node" /\ backs < 2 /\ form.at = "node" /\ Saves(Delete(book)) /\ GoesBack(form)
      BY <1>7, Where DEF RemoveNode, Touches
    <2>2. FormOK(form, Delete(book)) /\ Belongs(form, Here)
      BY <1>2, <2>1, PlainOK DEF Belongs
    <2>3. Mild(book, Delete(book)) /\ Here \in Pages
      BY <1>1, <2>1, StructureFair DEF Pages
    <2> QED
      BY <2>1, <2>2, <2>3, Returns
  <1>8. CASE \E p \in Places : MoveNode(p)
    <2>1. PICK p \in Places : /\ Phone /\ Here = "move" /\ backs < 2 /\ form.at = "nothing"
                             /\ Saves([book EXCEPT !.place = p]) /\ GoesBack(form)
      BY <1>8, Where DEF MoveNode, Touches
    <2> DEFINE b == [book EXCEPT !.place = p]
    <2>2. FormOK(form, b) /\ Belongs(form, Here)
      BY <1>2, <2>1, NothingOK DEF Belongs
    <2>3. Mild(book, b) /\ Here \in Pages
      BY <1>1, <2>1, StructureFair DEF Pages
    <2>4. Saves(b)
      BY <2>1
    <2> HIDE DEF b
    <2> QED
      BY <2>1, <2>2, <2>3, <2>4, Returns
  <1> QED
    BY <1>3, <1>4, <1>5, <1>6, <1>7, <1>8

LEMMA PhoneFormsOK ==
  ASSUME IInv, PhoneForms
  PROVE  IInv' /\ Sure /\ Previewed
  <1>1. CASE \/ SaveCard \/ SaveRow \/ SubmitMovement \/ RemoveMovement \/ CreateNode \/ RemoveNode
             \/ \E p \in Places : MoveNode(p)
    BY <1>1, PhoneSavesOK DEF Previewed
  <1>2. CASE \/ OpenCard \/ CancelOnPhone \/ AskOnPhone
             \/ \E asking \in BOOLEAN : OpenRow(asking)
             \/ \E v \in Amounts : TypeOnPhone(v)
             \/ \E what \in {"close", "reopen"} : AskClosure(what)
             \/ \E yes \in BOOLEAN : AnswerClosure(yes)
    BY <1>2, PhoneKeepsOK DEF Previewed
  <1> QED
    BY <1>1, <1>2 DEF PhoneForms

-----------------------------------------------------------------------------
(* The ledger is replaced, or a closing answered, under whatever is open.  *)

LEMMA ReleasedOK ==
  ASSUME IInv
  PROVE  /\ Released(form) \in {form, Nothing}
         /\ FormOK(Released(form), book)
         /\ form.at = "cycle" => Released(form) = form
         /\ Phone => Belongs(Released(form), Here)
         /\ ~Phone => Released(form).at \in DesktopForms
  <1>1. Released(form) = form \/ (form.at = "closure" /\ Released(form) = Nothing)
    BY DEF Released
  <1>2. /\ FormOK(form, book) /\ (Phone => Belongs(form, Here) /\ (form.at = "closure" => Here = "closure"))
        /\ ~Phone => form.at \in DesktopForms
    BY Where DEF IInv, HistOK, Phone
  <1>3. Nothing.at = "nothing" /\ "nothing" \in DesktopForms
    BY DEF Nothing, DesktopForms
  <1> QED
    BY <1>1, <1>2, <1>3, NothingOK DEF Belongs

LEMMA PaintsOK ==
  ASSUME IInv, Sure, Own => book'.payday = book.payday,
         NEW f \in {form, Released(form)}, Paints(Shown(f, book, book'))
  PROVE  IInv' /\ Previewed
  <1> DEFINE g == Shown(f, book, book')
  <1>1. /\ FormOK(f, book) /\ (Phone => Belongs(f, Here)) /\ (~Phone => f.at \in DesktopForms)
        /\ form.at = "cycle" => f = form
    BY ReleasedOK, Where DEF IInv, HistOK, Phone
  <1>2. BookOK(book) /\ BookOK(book') /\ f \in Drafts
    BY <1>1 DEF IInv, Sure, Fair, FormOK
  <1>3. FormOK(g, book')
    BY <1>1, <1>2, PaintedOK
  <1>4. CASE Phone
    <2>1. Belongs(g, Here)
      BY <1>1, <1>4, PaintedBelongs
    <2>2. Stays(g)
      BY <1>4 DEF Paints
    <2> HIDE DEF g
    <2>3. IInv'
      BY <1>3, <1>4, <2>1, <2>2, StaysOK
    <2>4. form.at # "cycle"
      BY <1>4, Where
    <2> QED
      BY <2>3, <2>4 DEF Previewed
  <1>5. CASE ~Phone
    <2>1. form' = g /\ UNCHANGED <<hist, pos, backs>>
      BY <1>5 DEF Paints
    <2>2. g.at \in {f.at, "nothing"} /\ (f.at = "cycle" => g.busy = f.busy)
      <3>1. CASE f.at = "cycle"
        <4>1. CASE book' = book
          BY <3>1, <4>1 DEF Shown, CycleShown
        <4>2. CASE book' # book
          <5>1. f \in CycleForms
            BY <1>2, <3>1, Kinds
          <5>2. g \in CycleForms /\ g.busy = f.busy
            BY <1>2, <3>1, <4>2, <5>1, CyclePainted DEF Shown
          <5> HIDE DEF g
          <5> QED
            BY <3>1, <5>2 DEF CycleForms
        <4> QED
          BY <4>1, <4>2
      <3>2. CASE f.at = "cell"
        <4>1. f \in CellForms
          BY <1>2, <3>2, Kinds
        <4> QED
          BY <1>2, <3>2, <4>1, CellPainted DEF Shown
      <3>3. CASE f.at = "popover"
        <4>1. f \in PopoverForms
          BY <1>2, <3>3, Kinds
        <4> QED
          BY <3>3, <4>1 DEF Shown, PopoverShown, PopoverForms
      <3>4. CASE f.at \notin {"cycle", "cell", "popover"}
        <4>1. g \in {f, Nothing}
          BY <3>4 DEF Shown, ClosureShown
        <4> QED
          BY <3>4, <4>1 DEF Nothing
      <3> QED
        BY <3>1, <3>2, <3>3, <3>4
    <2> HIDE DEF g
    <2>3. form'.at \in DesktopForms
      BY <1>1, <1>5, <2>1, <2>2 DEF DesktopForms
    <2>4. Previewed
      BY <1>1, <2>1, <2>2 DEF Previewed
    <2> QED
      BY <1>3, <1>5, <2>1, <2>3, <2>4, SameScreen
  <1> QED
    BY <1>4, <1>5

LEMMA SynchronisedOK ==
  ASSUME IInv, Synchronised
  PROVE  IInv' /\ Sure /\ Previewed /\ ~Own
  <1>1. /\ left.foreign > 0 /\ left' = [left EXCEPT !.foreign = @ - 1]
        /\ requests' = Overtaken(requests) /\ book' \in Elsewhere(book)
        /\ Paints(Shown(form, book, book'))
    BY DEF Synchronised
  <1>2. left' \in Lefts /\ ~Own
    BY <1>1, FormsAssumption DEF IInv, Lefts, Own
  <1>3. Fair(book, book')
    BY <1>1, ElsewhereFair DEF IInv
  <1>4. RequestsOK(requests', book')
    BY <1>1, OvertakenOK DEF IInv, RequestsOK
  <1>5. Sure
    BY <1>2, <1>3, <1>4 DEF Sure, Named
  <1> QED
    BY <1>1, <1>2, <1>5, PaintsOK

LEMMA ExclusiveOK ==
  ASSUME IInv, Exclusive
  PROVE  IInv' /\ Sure /\ Previewed /\ (Own => Aside)
  <1>1. CASE ClosureAnswered
    <2>1. Sure /\ (Own => Aside) /\ Paints(Shown(Released(form), book, book'))
      BY <1>1, AnswersOK DEF ClosureAnswered
    <2> QED
      BY <2>1, PaintsOK DEF Aside
  <1>2. CASE SendClosure /\ UNCHANGED <<hist, pos, backs>>
    <2>1. /\ UNCHANGED <<book, form, left, hist, pos, backs>>
          /\ requests # <<>> /\ requests' = [requests EXCEPT ![1].sent = TRUE]
      BY <1>2 DEF SendClosure
    <2>2. RequestsOK(requests', book)
      BY <2>1, SentOK DEF IInv
    <2>3. Sure
      BY <2>1, <2>2, Kept
    <2>4. FormOK(form', book') /\ (Phone => Belongs(form', Here)) /\ (~Phone => form'.at \in DesktopForms)
      BY <2>1, Where DEF IInv, HistOK, Phone
    <2> QED
      BY <2>1, <2>3, <2>4, SameScreen DEF Previewed, Aside
  <1> QED
    BY <1>1, <1>2 DEF Exclusive

LEMMA ReloadOK ==
  ASSUME IInv, ReloadPage
  PROVE  IInv' /\ Sure /\ Previewed
  <1>1. Phone /\ requests' = <<>> /\ Stays(Mounted(Here, book'))
    BY DEF ReloadPage, Rest
  <1>2. RequestsOK(requests', book')
    BY <1>1, FormsAssumption DEF RequestsOK
  <1>3. Fair(book, book') /\ left' \in Lefts /\ Named
    <2>1. CASE UNCHANGED <<book, left>>
      BY <2>1, SameBook DEF IInv, Mild, Named, Lefts
    <2>2. CASE ~UNCHANGED <<book, left>>
      <3>1. Travelling /\ Reaches(Head(requests))
        BY <2>2 DEF ReloadPage
      <3> QED
        BY <3>1, Reached
    <2> QED
      BY <2>1, <2>2
  <1>4. Sure /\ BookOK(book')
    BY <1>2, <1>3 DEF Sure, Fair
  <1>5. Here \in Pages \cup {Outside, Config} /\ form.at # "cycle"
    <2>1. hist[pos] \in Entry /\ form.at # "cycle"
      BY <1>1, Where
    <2> QED
      BY <2>1 DEF Entry, Here
  <1>6. FormOK(Mounted(Here, book'), book') /\ Belongs(Mounted(Here, book'), Here)
    BY <1>4, <1>5, MountedOK
  <1> QED
    BY <1>1, <1>4, <1>5, <1>6, StaysOK DEF Previewed

-----------------------------------------------------------------------------
(* A step, a behaviour.                                                    *)

\* One step keeps the invariant, and does what the action properties say.
LEMMA StepOK ==
  ASSUME IInv, [Next]_screens
  PROVE  IInv' /\ Sure /\ Previewed
  <1>1. CASE Navigation /\ ~ReloadPage
    <2>1. IInv' /\ Keeps
      BY <1>1, NavigationOK
    <2>2. Phone
      <3>1. ASSUME NEW s, OpenScreen(s) \/ ReplaceScreen(s) PROVE Phone
        BY <3>1 DEF OpenScreen, ReplaceScreen, Rest
      <3>2. ASSUME NEW p, Browse(p) PROVE Phone
        BY <3>2 DEF Browse
      <3>3. ASSUME GoBack \/ OpenConfig \/ LeaveConfig PROVE Phone
        BY <3>3 DEF GoBack, OpenConfig, LeaveConfig, Rest
      <3>4. ASSUME Pop PROVE Phone
        BY <3>4 DEF Pop, IInv, HistOK, Phone
      <3> QED
        BY <1>1, <3>1, <3>2, <3>3, <3>4 DEF Navigation
    <2>3. form.at # "cycle"
      BY <2>2, Where
    <2> QED
      BY <2>1, <2>3, KeepsOK DEF Previewed
  <1>2. CASE UNCHANGED screens
    <2>1. IInv'
      BY <1>2 DEF IInv, HistOK, Here, screens
    <2>2. form' = form /\ book' = book /\ Keeps
      BY <1>2 DEF screens, Keeps
    <2> QED
      BY <2>1, <2>2, KeepsOK DEF Previewed
  <1> QED
    BY <1>1, <1>2, DesktopOK, PhoneFormsOK, SynchronisedOK, ExclusiveOK, ReloadOK DEF Next

LEMMA InitOK == ASSUME Init PROVE IInv
  <1>1. book \in Books /\ BookOK(book)
    <2>1. (CHOOSE p \in Places : TRUE) \in Places
      BY FormsAssumption
    <2>2. 1 \in Amounts /\ 0 \in 0 .. Months /\ 0 \in 0 .. Paydays /\ 0 \in 0 .. 2
      BY FormsAssumption DEF Amounts
    <2> DEFINE q == CHOOSE p \in Places : TRUE
    <2>3. book = [cell |-> 1, move |-> 1, pocket |-> 1, out |-> 1, closed |-> 0, reopened |-> FALSE,
                  food |-> TRUE, kids |-> 0, place |-> q, payday |-> 0]
      BY DEF Init
    <2> HIDE DEF q
    <2>4. q \in Places
      BY <2>1 DEF q
    <2>5. book \in Books
      BY <2>2, <2>3, <2>4 DEF Books
    <2>6. book.out <= book.pocket
      BY <2>3
    <2> QED
      BY <2>5, <2>6 DEF BookOK
  <1>2. left \in Lefts /\ RequestsOK(requests, book)
    BY FormsAssumption DEF Init, Lefts, RequestsOK
  <1>3. CASE hist = <<>> /\ pos = 0 /\ form = Nothing
    <2>1. Honest(hist) /\ hist \in Seq(Entry) /\ form.at \in DesktopForms /\ backs = 0
      BY <1>3 DEF Honest, Nothing, DesktopForms, Init
    <2> QED
      BY <1>1, <1>2, <1>3, <2>1, NothingOK DEF IInv, HistOK
  <1>4. ASSUME NEW s \in Pages, hist = <<[s |-> Outside, d |-> 0], [s |-> s, d |-> 0]>>,
               pos = 2, form = Mounted(s, book)
        PROVE  IInv
    <2>1. [s |-> Outside, d |-> 0] \in Entry /\ [s |-> s, d |-> 0] \in Entry
      BY DEF Entry
    <2>2. hist \in Seq(Entry) /\ Len(hist) = 2 /\ Here = s /\ DOMAIN hist = 1 .. 2
          /\ \A i \in 1 .. 2 : hist[i].d = 0
      BY <1>4, <2>1 DEF Here
    <2>3. Honest(hist)
      BY <2>2 DEF Honest
    <2>4. FormOK(form, book) /\ Belongs(form, Here)
      BY <1>1, <1>4, <2>2, MountedOK
    <2>5. hist # <<>> /\ Len(hist) \in 2 .. MaxHist /\ pos \in DOMAIN hist /\ backs \in 0 .. 2
      BY <1>4, <2>2, ScreensAssumption DEF Init
    <2> QED
      BY <1>1, <1>2, <2>2, <2>3, <2>4, <2>5 DEF IInv, HistOK
  <1> QED
    BY <1>3, <1>4 DEF Init

\* The form that is open agrees with the book under it; and a closing or a reopening
\* under way would reach the month it was asked for, unless the ledger was replaced
\* while it waited for the queue of saves, or an earlier one was answered (exclusive).
THEOREM Agreement == Spec => []IInv
  <1>1. IInv /\ [Next]_screens => IInv'
    BY StepOK
  <1> QED
    BY InitOK, <1>1, PTL DEF Spec

\* The book of the tab is one the domain accepts, whatever form wrote it, and the
\* form one of those there are (setLeafAmount, editMovement, applyReserveEdit).
THEOREM Typed == Spec => []TypeOK
  <1>1. IInv => TypeOK
    BY DEF IInv, BookOK, FormOK, HistOK, Lefts, RequestsOK, TypeOK
  <1> QED
    BY Agreement, <1>1, PTL

\* One «‹» never leaves the application, whatever was opened, replaced, reloaded
\* or gone through with the buttons of the browser (screenStack).
THEOREM BackStaysInside == Spec => []DepthHonest
  <1>1. IInv => DepthHonest
    BY DEF IInv, HistOK, Honest, DepthHonest
  <1> QED
    BY Agreement, <1>1, PTL

\* A screen of creation makes one subcategory however often it is tapped.
THEOREM OneCreation == Spec => []CreatedOnce
  <1>1. IInv => CreatedOnce
    <2>1. ASSUME IInv, form.at = "new" PROVE form.made <= 1
      BY <2>1 DEF IInv, FormOK, NewOK
    <2> QED
      BY <2>1 DEF CreatedOnce
  <1> QED
    BY Agreement, <1>1, PTL

\* No form, and no other device, writes a figure of a month that stays closed.
THEOREM NoClosedFigure == Spec => ClosedNotWritten
  <1>1. IInv /\ [Next]_screens =>
          [~Open(book) /\ ~Open(book') => Figures(book') = Figures(book)]_screens
    BY StepOK DEF Sure, Fair
  <1> QED
    BY Agreement, <1>1, PTL DEF Spec, ClosedNotWritten

\* A calendar is confirmed for what the preview on the screen showed, over the ledger it
\* was computed on, and what is applied is that while the preview stays on the screen: a
\* ledger replaced while the request waits for the saves takes it off (PeriodModeSection).
THEOREM AppliesThePreview == Spec => AppliedAsPreviewed
  <1>1. IInv /\ [Next]_screens =>
          [/\ form.at = "cycle" /\ form'.at = "cycle" /\ form.busy # "apply" /\ form'.busy = "apply"
                => form.preview = [target |-> form.target, of |-> book] /\ form'.asked = form.target
           /\ Own /\ form.at = "cycle" /\ form.preview # NoPreview /\ book'.payday # book.payday
                => form.preview = [target |-> book'.payday, of |-> book]]_screens
    BY StepOK DEF Previewed
  <1> QED
    BY Agreement, <1>1, PTL DEF Spec, AppliedAsPreviewed

\* The month that is closed or reopened is the one that was asked about, unless the
\* ledger was replaced, or an earlier request answered, while the request waited in the
\* chain of exclusive writes: what is sent names no month (exclusive, closeMonth).
THEOREM ClosesWhatWasAsked == Spec => QuestionHonoured
  <1>1. IInv /\ [Next]_screens =>
          [Own /\ book'.closed # book.closed /\ Head(requests).month # None
             => Head(requests).month
                  = IF Head(requests).what = "close" THEN book'.closed ELSE book.closed]_screens
    BY StepOK DEF Sure, Named
  <1> QED
    BY Agreement, <1>1, PTL DEF Spec, QuestionHonoured

-----------------------------------------------------------------------------
(* Fields in which nothing was typed.                                      *)

\* They show the figure of the book of now.
Following(f, b) ==
  /\ f.at = "cell" /\ ~f.typed => f.val = b.cell
  /\ f.at = "popover" /\ ~f.typed => f.val = b.out

\* What NothingRetyped says of a step.
LeftAlone ==
  Own => /\ form.at = "cell" /\ form'.at = "nothing" /\ ~form.typed => Figures(book') = Figures(book)
         /\ form.at = "popover" /\ form'.at = "popover" /\ ~form.typed => Figures(book') = Figures(book)

\* A form of another kind has no such field.
LEMMA OtherFollows ==
  ASSUME NEW f, NEW b, f.at \notin {"cell", "popover"}
  PROVE  Following(f, b)
  BY DEF Following

\* Painting the ledger anew keeps them up.
LEMMA ShownFollows ==
  ASSUME NEW f \in Drafts, NEW b, NEW c, Following(f, b)
  PROVE  Following(Shown(f, b, c), c)
  <1>1. CASE f.at = "cell"
    <2>1. f \in CellForms
      BY <1>1, Kinds
    <2> DEFINE g == [f EXCEPT !.val = IF f.typed THEN @ ELSE c.cell, !.inner = InnerShown(@, c)]
    <2>2. g.at = "cell" /\ g.typed = f.typed /\ g.val = IF f.typed THEN f.val ELSE c.cell
      BY <2>1 DEF CellForms
    <2>3. Shown(f, b, c) = IF ~c.food THEN Nothing ELSE g
      BY <1>1 DEF Shown, CellShown
    <2> HIDE DEF g
    <2> QED
      BY <2>2, <2>3 DEF Following, Nothing
  <1>2. CASE f.at = "popover"
    <2>1. f \in PopoverForms
      BY <1>2, Kinds
    <2> DEFINE g == [f EXCEPT !.val = c.out, !.typed = FALSE]
    <2>2. g.at = "popover" /\ g.val = c.out
      BY <2>1 DEF PopoverForms
    <2>3. Shown(f, b, c) = IF c.out = b.out THEN f ELSE g
      BY <1>2 DEF Shown, PopoverShown
    <2> HIDE DEF g
    <2> QED
      BY <1>2, <2>2, <2>3 DEF Following
  <1>3. CASE f.at = "cycle"
    <2>1. f \in CycleForms
      BY <1>3, Kinds
    <2> DEFINE i == Invalidated(f)
    <2>2. i \in CycleForms /\ i.at = "cycle"
      BY <2>1 DEF Invalidated, CycleForms, Previews
    <2> HIDE DEF i
    <2>3. [i EXCEPT !.day = IF c.payday = b.payday THEN @ ELSE c.payday].at = "cycle"
      BY <2>2 DEF CycleForms
    <2>4. Shown(f, b, c).at = "cycle"
      BY <1>3, <2>3 DEF Shown, CycleShown, i
    <2> QED
      BY <2>4, OtherFollows
  <1>4. CASE f.at \notin {"cell", "popover", "cycle"}
    <2>1. Shown(f, b, c) \in {f, Nothing}
      BY <1>4 DEF Shown, ClosureShown
    <2> QED
      BY <1>4, <2>1 DEF Following, Nothing
  <1> QED
    BY <1>1, <1>2, <1>3, <1>4

LEMMA CellStepsFollow ==
  ASSUME IInv, Following(form, book), CellSteps
  PROVE  Following(form', book') /\ LeftAlone
  <1>1. form \in Drafts /\ book \in Books /\ form.at \in {"nothing", "cell"}
    BY CellStepsOK DEF IInv, FormOK, BookOK
  <1>2. form.at = "cell" => form \in CellForms
    BY <1>1, Kinds
  <1>3. ASSUME Keeps, form'.at # "popover",
               form'.at = "cell" /\ ~form'.typed => form'.val = book.cell
        PROVE  Following(form', book') /\ LeftAlone
    BY <1>1, <1>3 DEF Keeps, Following, LeftAlone
  <1>4. ASSUME form' = Nothing, form.at = "cell", ~form.typed => Figures(book') = Figures(book)
        PROVE  Following(form', book') /\ LeftAlone
    BY <1>4 DEF Following, LeftAlone, Nothing
  <1>5. CASE OpenCell
    <2>1. Keeps /\ form'.at = "cell" /\ form'.val = book.cell
      BY <1>5 DEF OpenCell
    <2> QED
      BY <1>3, <2>1
  <1>6. CASE CancelCell
    BY <1>3, <1>6 DEF CancelCell, Nothing
  <1>7. CASE EditMovement \/ AskMovement \/ CancelMovement
    <2>1. PICK i : form' = [form EXCEPT !.inner = i]
      <3>1. CASE EditMovement
        BY <3>1 DEF EditMovement
      <3>2. CASE AskMovement
        BY <3>2 DEF AskMovement
      <3>3. CASE CancelMovement
        BY <3>3 DEF CancelMovement
      <3> QED
        BY <1>7, <3>1, <3>2, <3>3
    <2>2. form.at = "cell" /\ Keeps
      BY <1>7 DEF EditMovement, AskMovement, CancelMovement
    <2>3. form'.at = "cell" /\ form'.typed = form.typed /\ form'.val = form.val
      BY <1>2, <2>1, <2>2 DEF CellForms
    <2> QED
      BY <1>3, <2>2, <2>3 DEF Following
  <1>8. ASSUME NEW v, TypeInCell(v) PROVE Following(form', book') /\ LeftAlone
    <2>1. form.at = "cell" /\ Keeps /\ form' = [form EXCEPT !.val = v, !.typed = TRUE]
      BY <1>8 DEF TypeInCell
    <2>2. form'.at = "cell" /\ form'.typed
      BY <1>2, <2>1 DEF CellForms
    <2> QED
      BY <1>3, <2>1, <2>2
  <1>9. ASSUME NEW v, TypeMovement(v) PROVE Following(form', book') /\ LeftAlone
    <2>1. form.at = "cell" /\ Keeps /\ form' = [form EXCEPT !.inner.val = v]
      BY <1>9 DEF TypeMovement
    <2>2. form'.at = "cell" /\ form'.typed = form.typed /\ form'.val = form.val
      BY <1>2, <2>1 DEF CellForms
    <2> QED
      BY <1>3, <2>1, <2>2 DEF Following
  <1>10. ASSUME NEW g \in CellForms, g.val = form.val, g.typed = form.typed, form.at = "cell",
                form' = Shown(g, book, book'), book'.food
         PROVE  Following(form', book') /\ LeftAlone
    <2>1. g \in Drafts /\ g.at = "cell" /\ Following(g, book)
      BY <1>10 DEF Drafts, CellForms, Following
    <2>2. Following(form', book')
      BY <1>10, <2>1, ShownFollows
    <2> DEFINE i == InnerShown(g.inner, book')
               w == IF g.typed THEN g.val ELSE book'.cell
    <2>3. form' = [g EXCEPT !.val = w, !.inner = i]
      BY <1>10, <2>1 DEF Shown, CellShown, CellForms
    <2> HIDE DEF i, w
    <2>4. form'.at = "cell"
      BY <2>3 DEF CellForms
    <2> QED
      BY <1>10, <2>2, <2>4 DEF LeftAlone
  <1>11. ASSUME NEW v, AddMovementHere(v) PROVE Following(form', book') /\ LeftAlone
    <2>1. /\ form.at = "cell" /\ form' = Shown(form, book, book')
          /\ book' = [book EXCEPT !.cell = book.cell + v] /\ book.food
      BY <1>1, <1>11 DEF AddMovementHere, Saves, Writes, Leaf, Books
    <2>2. book'.food
      BY <1>1, <2>1 DEF Books
    <2> QED
      BY <1>2, <1>10, <2>1, <2>2
  <1>12. CASE SaveMovement
    <2> DEFINE g == [form EXCEPT !.inner = Idle]
    <2>1. form.at = "cell" /\ form' = Shown(g, book, book')
      BY <1>12 DEF SaveMovement
    <2>2. g \in CellForms /\ g.val = form.val /\ g.typed = form.typed
      BY <1>2, <2>1 DEF CellForms, InnerForms
    <2> HIDE DEF g
    <2>3. book' = SetMove(book, form.inner.val) /\ book.food
      BY <1>12 DEF SaveMovement, Saves, Writes, Leaf
    <2>4. book'.food
      BY <1>1, <2>3 DEF SetMove, Books
    <2> QED
      BY <1>10, <2>1, <2>2, <2>4
  <1>13. ASSUME NEW confirmed \in BOOLEAN, CommitCell(confirmed)
         PROVE  Following(form', book') /\ LeftAlone
    <2>1. /\ form.at = "cell" /\ form' = Nothing
          /\ Saves(IF Open(book) /\ (confirmed \/ form.typed) THEN SetCell(book, form.val) ELSE book)
      BY <1>13 DEF CommitCell
    <2>2. book' \in {book, SetCell(book, form.val)}
      BY <2>1 DEF Saves, Writes
    <2>3. ASSUME ~form.typed PROVE Figures(book') = Figures(book)
      <3>1. form.val = book.cell
        BY <2>1, <2>3 DEF Following
      <3>2. SetCell(book, book.cell) = book
        BY <1>1 DEF SetCell, Books
      <3> QED
        BY <2>2, <3>1, <3>2
    <2> QED
      BY <1>4, <2>1, <2>3
  <1> QED
    BY <1>5, <1>6, <1>7, <1>8, <1>9, <1>11, <1>12, <1>13 DEF CellSteps

LEMMA PocketStepsFollow ==
  ASSUME IInv, Following(form, book), PocketSteps
  PROVE  Following(form', book') /\ LeftAlone
  <1>1. form \in Drafts /\ book \in Books /\ form.at \in {"nothing", "pocket", "popover"}
    BY PocketStepsOK DEF IInv, FormOK, BookOK
  <1>2. form.at = "popover" => form \in PopoverForms
    BY <1>1, Kinds
  <1>3. ASSUME form'.at \in {"nothing", "pocket"} PROVE Following(form', book') /\ LeftAlone
    BY <1>1, <1>3 DEF Following, LeftAlone
  <1>4. ASSUME Keeps, form'.at = "popover", ~form'.typed => form'.val = book.out
        PROVE  Following(form', book') /\ LeftAlone
    BY <1>1, <1>4 DEF Following, LeftAlone, Keeps
  <1>5. CASE OpenPocket \/ CommitPocket \/ CancelPocket \/ SaveWithdrawal \/ ClosePopover
    <2>1. form'.at \in {"nothing", "pocket"}
      BY <1>5 DEF OpenPocket, CommitPocket, CancelPocket, SaveWithdrawal, ClosePopover, Nothing
    <2> QED
      BY <1>3, <2>1
  <1>6. CASE OpenPopover
    BY <1>4, <1>6 DEF OpenPopover
  <1>7. ASSUME NEW v, TypeInPocket(v) PROVE Following(form', book') /\ LeftAlone
    <2>1. form.at = "pocket" /\ form' = [form EXCEPT !.val = v, !.typed = TRUE]
      BY <1>7 DEF TypeInPocket
    <2>2. form'.at = "pocket"
      BY <1>1, <2>1, Kinds DEF PocketForms
    <2> QED
      BY <1>3, <2>2
  <1>8. ASSUME NEW v, TypeAmount(v) PROVE Following(form', book') /\ LeftAlone
    <2>1. form.at = "popover" /\ Keeps /\ form' = [form EXCEPT !.amount = v]
      BY <1>8 DEF TypeAmount
    <2>2. form'.at = "popover" /\ form'.typed = form.typed /\ form'.val = form.val
      BY <1>2, <2>1 DEF PopoverForms
    <2> QED
      BY <1>4, <2>1, <2>2 DEF Following
  <1>9. ASSUME NEW v, TypeInRow(v) PROVE Following(form', book') /\ LeftAlone
    <2>1. form.at = "popover" /\ Keeps /\ form' = [form EXCEPT !.val = v, !.typed = TRUE]
      BY <1>9 DEF TypeInRow
    <2>2. form'.at = "popover" /\ form'.typed
      BY <1>2, <2>1 DEF PopoverForms
    <2> QED
      BY <1>4, <2>1, <2>2
  <1>10. CASE EscapeRow
    <2>1. form.at = "popover" /\ Keeps /\ form' = [form EXCEPT !.val = book.out, !.typed = FALSE]
      BY <1>10 DEF EscapeRow
    <2>2. form'.at = "popover" /\ form'.val = book.out
      BY <1>2, <2>1 DEF PopoverForms
    <2> QED
      BY <1>4, <2>1, <2>2
  <1>11. CASE CommitRow
    <2>1. form.at = "popover" /\ form' = [form EXCEPT !.val = book'.out, !.typed = FALSE]
          /\ IF form.val = book.out \/ ~OutFits(book, form.val) THEN Keeps
             ELSE Saves(SetOut(book, form.val))
      BY <1>11 DEF CommitRow
    <2>2. form'.at = "popover" /\ form'.val = book'.out
      BY <1>2, <2>1 DEF PopoverForms
    <2>3. ~form.typed => Figures(book') = Figures(book)
      BY <2>1 DEF Following, Keeps
    <2> QED
      BY <2>1, <2>2, <2>3 DEF Following, LeftAlone
  <1> QED
    BY <1>5, <1>6, <1>7, <1>8, <1>9, <1>10, <1>11 DEF PocketSteps

\* The other forms have no such field, before or after.
LEMMA OtherStepsFollow ==
  ASSUME IInv, RowSteps \/ CycleSteps
  PROVE  Following(form', book') /\ LeftAlone
  <1>1. form.at \notin {"cell", "popover"}
    BY RowStepsOK, CycleStepsOK
  <1>2. form \in Drafts
    BY DEF IInv, FormOK
  <1>3. form'.at \notin {"cell", "popover"}
    <2>1. CASE RowSteps
      <3>1. form' \in {Nothing, [at |-> "rowdelete"]}
        BY <2>1 DEF RowSteps, AskRow, ConfirmRow, CancelRow, AddChild, Drop
      <3>2. form'.at \in {"nothing", "rowdelete"}
        BY <3>1 DEF Nothing
      <3> QED
        BY <3>2
    <2>2. CASE CycleSteps
      <3>1. form.at = "cycle" => form \in CycleForms
        BY <1>2, Kinds
      <3>2. form.at = "cycle" => \A d : [Invalidated(form) EXCEPT !.day = d].at = "cycle"
        BY <3>1 DEF CycleForms, Invalidated
      <3>3. ASSUME NEW c, form.at = "cycle" PROVE Heard(CycleShown(form, book, c)).at = "cycle"
        BY <3>1, <3>3 DEF CycleForms, Invalidated, CycleShown, Heard
      <3>4. CASE OpenCycle \/ LeaveCycle
        <4>1. form'.at \in {"nothing", "cycle"}
          BY <3>4 DEF OpenCycle, LeaveCycle, Nothing
        <4> QED
          BY <4>1
      <3>5. CASE DropPreview \/ Discard \/ \E d \in 0 .. Paydays : ChooseDay(d)
        <4>1. form.at = "cycle"
          BY <3>5 DEF DropPreview, Discard, ChooseDay
        <4>2. \E d : form' = [Invalidated(form) EXCEPT !.day = d]
          <5>1. CASE DropPreview
            <6>1. form' = [Invalidated(form) EXCEPT !.day = IF book.payday = 0 THEN 0 ELSE Invalidated(form).day]
              BY <4>1, <3>1, <5>1 DEF DropPreview, CycleForms, Invalidated
            <6> QED
              BY <6>1
          <5>2. CASE Discard \/ \E d \in 0 .. Paydays : ChooseDay(d)
            BY <5>2 DEF Discard, ChooseDay
          <5> QED
            BY <3>5, <5>1, <5>2
        <4> QED
          BY <3>2, <4>1, <4>2
      <3>6. CASE Preview \/ SendCycle \/ PreviewReady \/ Confirm \/ \E retry \in BOOLEAN : RequestFailed(retry)
        <4>1. form.at = "cycle"
          BY <3>6 DEF Preview, SendCycle, PreviewReady, Confirm, RequestFailed
        <4>2. form'.at = "cycle"
          BY <3>1, <3>6, <4>1 DEF Preview, SendCycle, PreviewReady, Confirm, RequestFailed, Heard, CycleForms
        <4> QED
          BY <4>2
      <3>7. CASE Applied \/ RequestConflict
        <4>1. form.at = "cycle" /\ form' = Heard(CycleShown(form, book, book'))
          BY <3>7 DEF Applied, RequestConflict
        <4> QED
          BY <3>3, <4>1
      <3> QED
        BY <2>2, <3>4, <3>5, <3>6, <3>7 DEF CycleSteps
    <2> QED
      BY <2>1, <2>2
  <1> QED
    BY <1>1, <1>3, OtherFollows DEF LeftAlone

\* On the phone there is neither a cell of the grid nor a popover.
LEMMA PhoneFollows ==
  ASSUME IInv, IInv', Phone, Phone'
  PROVE  Following(form', book') /\ LeftAlone
  <1>1. form.at \notin {"cell", "popover"} /\ form'.at \notin {"cell", "popover"}
    BY DEF IInv, HistOK, Phone, Belongs
  <1> QED
    BY <1>1, OtherFollows DEF LeftAlone

LEMMA PhoneStays ==
  ASSUME IInv, IInv', Navigation \/ PhoneForms \/ (Phone /\ (Synchronised \/ Exclusive))
  PROVE  Phone /\ Phone'
  <1>1. Phone => pos \in Nat \ {0}
    BY DEF IInv, HistOK, Phone
  <1>2. ASSUME NEW f, GoesBack(f) PROVE pos' = pos
    BY <1>2 DEF GoesBack, Shows
  <1>3. ASSUME NEW f, Stays(f) PROVE pos' = pos
    BY <1>3 DEF Stays, Shows
  <1>4. Phone
    <2>1. CASE Navigation
      BY <2>1 DEF Navigation, GoBack, Pop, ReloadPage, OpenConfig, LeaveConfig, OpenScreen, ReplaceScreen,
                  Browse, Rest, IInv, HistOK, Phone
    <2>2. CASE PhoneForms
      <3>1. CASE form.at \in {"card", "oprow", "edit", "new", "node"}
        BY <3>1, Where
      <3>2. CASE form.at \notin {"card", "oprow", "edit", "new", "node"}
        BY <2>2, <3>2 DEF PhoneForms, OpenCard, SaveCard, SaveRow, CancelOnPhone, SubmitMovement, AskOnPhone,
             RemoveMovement, CreateNode, RemoveNode, OpenRow, TypeOnPhone, MoveNode,
             AskClosure, AnswerClosure, Touches
      <3> QED
        BY <3>1, <3>2
    <2> QED
      BY <2>1, <2>2
  <1>5. pos' \in Nat \ {0}
    <2>1. CASE Navigation
      <3>1. CASE GoBack
        BY <1>1, <1>2, <1>4, <3>1 DEF GoBack
      <3>2. CASE Pop
        BY <1>1, <1>4, <3>2 DEF Pop, Shows
      <3>3. CASE ReloadPage
        BY <1>1, <1>3, <1>4, <3>3 DEF ReloadPage
      <3>4. CASE OpenConfig \/ LeaveConfig
        BY <1>1, <1>4, <3>4 DEF OpenConfig, LeaveConfig, Shows
      <3>5. ASSUME NEW s, OpenScreen(s) \/ ReplaceScreen(s) PROVE pos' \in Nat \ {0}
        BY <1>1, <1>4, <3>5 DEF OpenScreen, ReplaceScreen, Shows
      <3>6. ASSUME NEW p \in 1 .. MaxHist, Browse(p) PROVE pos' \in Nat \ {0}
        BY <3>6, ScreensAssumption DEF Browse, Shows
      <3> QED
        BY <2>1, <3>1, <3>2, <3>3, <3>4, <3>5, <3>6 DEF Navigation
    <2>2. CASE PhoneForms
      <3>1. CASE SaveCard \/ SaveRow
        BY <1>1, <1>3, <1>4, <3>1 DEF SaveCard, SaveRow
      <3>2. CASE SubmitMovement \/ RemoveMovement \/ CreateNode \/ RemoveNode \/ \E p \in Places : MoveNode(p)
        BY <1>1, <1>2, <1>4, <3>2 DEF SubmitMovement, RemoveMovement, CreateNode, RemoveNode, MoveNode
      <3>3. CASE ~(SaveCard \/ SaveRow \/ SubmitMovement \/ RemoveMovement \/ CreateNode \/ RemoveNode
                   \/ \E p \in Places : MoveNode(p))
        <4>1. pos' = pos
          BY <2>2, <3>3 DEF PhoneForms, OpenCard, CancelOnPhone, AskOnPhone, OpenRow,
                            TypeOnPhone, AskClosure, AnswerClosure
        <4> QED
          BY <1>1, <1>4, <4>1
      <3> QED
        BY <3>1, <3>2, <3>3
    <2>3. CASE Phone /\ Synchronised
      BY <1>1, <1>3, <2>3 DEF Synchronised, Paints
    <2>4. CASE Phone /\ Exclusive
      BY <1>1, <1>3, <2>4 DEF Exclusive, ClosureAnswered, Paints
    <2> QED
      BY <2>1, <2>2, <2>3, <2>4
  <1>6. Phone'
    BY <1>5 DEF IInv, HistOK, Phone
  <1> QED
    BY <1>4, <1>6

LEMMA StepFollows ==
  ASSUME IInv, Following(form, book), [Next]_screens
  PROVE  Following(form', book') /\ (LeftAlone \/ UNCHANGED screens)
  <1>1. IInv' /\ form \in Drafts
    BY StepOK DEF IInv, FormOK
  <1>2. CASE Navigation \/ PhoneForms \/ (Phone /\ (Synchronised \/ Exclusive))
    BY <1>1, <1>2, PhoneFollows, PhoneStays
  <1>3. CASE Desktop
    <2>1. ASSUME NEW what \in {"close", "reopen"}, PressClosure(what)
          PROVE  Following(form', book') /\ LeftAlone
      BY <2>1, PressClosureOK, OtherFollows DEF LeftAlone
    <2> QED
      BY <1>3, <2>1, CellStepsFollow, PocketStepsFollow, OtherStepsFollow DEF Desktop
  <1>4. CASE ~Phone /\ Synchronised
    <2>1. ~Own /\ form' = Shown(form, book, book')
      BY <1>4, SynchronisedOK DEF Synchronised, Paints
    <2> QED
      BY <1>1, <2>1, ShownFollows DEF LeftAlone
  <1>6. CASE ~Phone /\ Exclusive
    <2>1. Own => Figures(book') = Figures(book)
      BY <1>6, ExclusiveOK DEF Aside
    <2>2. CASE ClosureAnswered
      <3>1. form' = Shown(Released(form), book, book')
        BY <1>6, <2>2 DEF ClosureAnswered, Paints
      <3>2. Released(form) \in Drafts /\ Following(Released(form), book)
        BY <1>1, ReleasedOK DEF Following, FormOK, Nothing
      <3> QED
        BY <2>1, <3>1, <3>2, ShownFollows DEF LeftAlone
    <2>3. CASE SendClosure
      BY <2>1, <2>3 DEF SendClosure, LeftAlone
    <2> QED
      BY <1>6, <2>2, <2>3 DEF Exclusive
  <1>5. CASE UNCHANGED screens
    BY <1>5 DEF screens
  <1> QED
    BY <1>2, <1>3, <1>4, <1>5, <1>6 DEF Next

\* Leaving a cell or a row of withdrawals in which nothing was typed writes no
\* figure, whatever was painted under it meanwhile (commitEdit, PlanRow, OpRow).
THEOREM UntypedWritesNothing == Spec => NothingRetyped
  <1>1. Init => Following(form, book)
    <2>1. ASSUME Init PROVE form.at \notin {"cell", "popover"}
      <3>1. \A s \in Pages : Mounted(s, book).at \in {"edit", "new", "node", "nothing"}
        BY DEF Mounted, Nothing
      <3> QED
        BY <2>1, <3>1 DEF Init, Nothing
    <2> QED
      BY <2>1, OtherFollows
  <1>2. IInv /\ Following(form, book) /\ [Next]_screens => Following(form, book)'
    BY StepFollows
  <1>3. IInv /\ Following(form, book) /\ [Next]_screens =>
          [Own => /\ form.at = "cell" /\ form'.at = "nothing" /\ ~form.typed
                       => Figures(book') = Figures(book)
                  /\ form.at = "popover" /\ form'.at = "popover" /\ ~form.typed
                       => Figures(book') = Figures(book)]_screens
    BY StepFollows DEF LeftAlone
  <1> QED
    BY Agreement, <1>1, <1>2, <1>3, PTL DEF Spec, NothingRetyped

=============================================================================
