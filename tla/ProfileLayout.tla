----------------------------- MODULE ProfileLayout -----------------------------
(***************************************************************************)
(* The arrangement of a profile page: the order of its columns, the order  *)
(* of the headings of the list of works, which headings and works are      *)
(* hidden, and the citation style.  All are columns of one row.            *)
(*                                                                         *)
(* The edit page (static/js/profile-sort.js) saves nothing on demand: each *)
(* drag and each click sends what the page now shows of one part of the    *)
(* arrangement, and neither waits for an earlier answer nor repeats a      *)
(* request that failed.  The views load the row, set that part, and save   *)
(* every column (newprofile/views/profile).  Visitors get the list of      *)
(* works from a cache whose entries live for a minute.                     *)
(*                                                                         *)
(* Outside the model: the texts of the profile, the citations themselves,  *)
(* a change in what the Works service lists.                               *)
(***************************************************************************)
EXTENDS Naturals, Sequences, FiniteSets

CONSTANTS Fields,        \* the configured fields of each column, in order
          Retired,       \* fields that older orders may name
          Headings,      \* the headings of the works, in alphabetical order
          Works, TypeOf, \* the works, and the heading each is under
          Styles,        \* CITATION_STYLES
          Pages,         \* browser tabs of the member
          Requests,      \* requests that can be under way; a set of numbers
          MaxHandlers,   \* bound on the handlers registered for one checkbox
          TTL,           \* HTMX_FRAGMENT_CACHE_TTL
          MaxRender,     \* the longest time to list the works for a visitor
          Environments,  \* the circumstances it may run in, see env
          None

Columns == {"left", "right"}
Parts == Columns \cup {"order", "works", "style"}

Items(seq) == {seq[i] : i \in DOMAIN seq}

\* The ways to arrange a set.
Arrangements(S) == {s \in [1..Cardinality(S) -> S] : Items(s) = S}

Partial(S) == UNION {Arrangements(T) : T \in SUBSET S}

\* "order": save_works_order stores the order with the headings that are hidden;
\* "works": save_works_visibility stores the works that are.
Orders == [order : Partial(Items(Headings)), hidden : SUBSET Items(Headings)]

Row == [left : Partial(Items(Fields["left"]) \cup Retired),
        right : Partial(Items(Fields["right"]) \cup Retired),
        order : Orders, works : SUBSET Works, style : Styles]

ASSUME NoneAssumption == None \notin Parts \cup Pages

ASSUME BoundsAssumption ==
  Requests \subseteq Nat /\ TTL \in Nat \ {0} /\ MaxRender \in Nat /\ MaxHandlers \in Nat

\* Nothing is configured twice.
ASSUME ConfigurationAssumption ==
  /\ IsFiniteSet(Retired)
  /\ \A default \in {Fields["left"], Fields["right"], Headings} :
       default \in Seq(Items(default)) /\ default \in Arrangements(Items(default))

ASSUME EnvironmentAssumption ==
  Environments \subseteq
    [pages : SUBSET Pages, parts : SUBSET Parts,
     hasty : BOOLEAN, flaky : BOOLEAN, others : BOOLEAN, visitors : BOOLEAN]

VARIABLES
  env,       \* the tabs and the parts that are used in them; hasty: the member does
             \* not wait for requests to end; flaky: requests fail; others: other
             \* requests save the row; visitors: someone looks at the profile
  row,       \* the Profile
  page,      \* what each tab shows, and the handlers on its checkboxes
  request,   \* the requests of the tabs and their local variables
  render,    \* a listing of the works for a visitor
  cached,    \* htmx_works_deposits:<user>:default
  wanted     \* what the member last asked for, of each part; None if another
             \* request was under way that may undo it

vars == <<env, row, page, request, render, cached, wanted>>

Closed == [open |-> FALSE]
Free == [at |-> "free"]

\* The items of seq that are in S.
Kept(seq, S) ==
  LET kept[n \in 0..Len(seq)] ==
        IF n = 0 THEN <<>>
        ELSE IF seq[n] \in S THEN Append(kept[n - 1], seq[n])
        ELSE kept[n - 1]
  IN  kept[Len(seq)]

\* Mutant of Arranged: what the saved order does not name is not shown.
ArrangedOnly(default, saved) == Kept(saved, Items(default))

\* process_orders: what the saved order names, then what is configured besides.
Arranged(default, saved) ==
  Kept(saved, Items(default)) \o Kept(default, Items(default) \ Items(saved))

\* A row as an edit page shows it.
View(r) ==
  [r EXCEPT !.left = Arranged(Fields["left"], @), !.right = Arranged(Fields["right"], @),
            !.order.order = Arranged(Headings, @)]

\* The list of works that visitors see.
Panel(r) ==
  [order |-> Arranged(Headings, r.order.order), style |-> r.style,
   visible |-> {w \in Works : w \notin r.works /\ TypeOf[w] \notin r.order.hidden}]

Panels == [order : Arrangements(Items(Headings)), style : Styles, visible : SUBSET Works]

Long == TTL + MaxRender + 1

Page == [open : {TRUE}, shown : Row, asked : BOOLEAN, handlers : 0..MaxHandlers]

\* list: the answer is a new list of works; form: the page is left when it is
\* answered; other: a handler elsewhere that saves the row it loaded (see
\* ProfileRecord).
IsRequest(r) ==
  /\ r.at \in {"sent", "loaded", "answered"}
  /\ r.kind \in {"save", "list", "form", "other"}
  /\ r.page \in Pages \cup {None} /\ r.part \in Parts \cup {None}
  /\ IF r.at = "sent" THEN r.copy = None ELSE r.copy \in Row
  /\ r.part # None => [row EXCEPT ![r.part] = r.value] \in Row

\* Types; an open page shows every configured field and heading exactly once.
TypeOK ==
  /\ env \in Environments
  /\ row \in Row
  /\ page \in [Pages -> {Closed} \cup Page]
  /\ \A p \in Pages : page[p].open =>
       /\ \A c \in Columns : page[p].shown[c] \in Arrangements(Items(Fields[c]))
       /\ page[p].shown.order.order \in Arrangements(Items(Headings))
  /\ \A q \in Requests : request[q] = Free \/ IsRequest(request[q])
  /\ render \in {Free} \cup [at : {"works"}, panel : Panels, age : 0..MaxRender, past : 0..Long]
  /\ cached \in {None} \cup [panel : Panels, age : 0..TTL, past : 0..Long]
  /\ DOMAIN wanted = Parts
  /\ \A part \in Parts : wanted[part] = None \/ [row EXCEPT ![part] = wanted[part]] \in Row

\* An order of the fields from an older configuration, and nothing said of the works.
Init ==
  /\ env \in Environments
  /\ row \in [left : Partial(Items(Fields["left"]) \cup Retired),
              right : Partial(Items(Fields["right"]) \cup Retired),
              order : {[order |-> <<>>, hidden |-> {}]}, works : {{}}, style : Styles]
  /\ \A c \in Columns \ env.parts : row[c] = <<>>
  /\ page = [p \in Pages |-> Closed]
  /\ request = [q \in Requests |-> Free]
  /\ render = Free
  /\ cached = None
  /\ wanted = row

UnderWay(q) == request[q].at \in {"sent", "loaded"}
Pending(part) == \E q \in Requests : UnderWay(q) /\ request[q].part = part

\* A patient member waits for the list of works, and for every answer.
MayGoOn(p) ==
  ~env.hasty => /\ page[p].asked
                /\ \A q \in Requests : request[q] # Free => request[q].page # p

\* The member uses this part of the tab.
MayAct(p, part) ==
  /\ page[p].open /\ part \in env.parts
  /\ part \in {"order", "works"} => page[p].handlers > 0
  /\ MayGoOn(p)

\* The first k requests that are free.
FirstFree(k) ==
  LET free == {q \in Requests : request[q] = Free} IN
  {q \in free : Cardinality({other \in free : other < q}) < k}

-------------------------------------------------------------------------------
(* The tabs.                                                               *)

\* k requests with one value, which is what the member wants from now on.
Post(p, kind, part, value, k) ==
  LET slots == FirstFree(k) IN
  /\ Cardinality(slots) = k
  /\ request' = [q \in Requests |->
       IF q \in slots THEN [at |-> "sent", kind |-> kind, page |-> p, part |-> part,
                            value |-> value, copy |-> None]
       ELSE request[q]]
  /\ wanted' = [wanted EXCEPT ![part] = IF Pending(part) THEN None ELSE value]
  /\ UNCHANGED <<env, row, render, cached>>

\* Mutant of Change: what is sent is what was shown before.
ChangeBefore(p, part, value, k) ==
  /\ MayAct(p, part)
  /\ value # page[p].shown[part]
  /\ page' = [page EXCEPT ![p].shown[part] = value]
  /\ Post(p, "save", part, page[p].shown[part], k)

\* The page shows the change and sends what it shows (saveOrder).
Change(p, part, value, k) ==
  /\ MayAct(p, part)
  /\ value # page[p].shown[part]
  /\ page' = [page EXCEPT ![p].shown[part] = value]
  /\ Post(p, "save", part, value, k)

\* edit_profile shows the row ...
Open(p) ==
  /\ p \in env.pages /\ ~page[p].open
  /\ page' = [page EXCEPT ![p] = [open |-> TRUE, asked |-> FALSE, handlers |-> 0,
                                  shown |-> View(row)]]
  /\ UNCHANGED <<env, row, request, render, cached, wanted>>

\* ... and the page, once it is loaded, posts for the list of works: with the style
\* it shows, which is saved.
AskForList(p) ==
  /\ page[p].open /\ ~page[p].asked
  /\ page' = [page EXCEPT ![p].asked = TRUE]
  /\ Post(p, "list", "style", page[p].shown.style, 1)

\* A fragment of the page is replaced: htmx:afterSwap registers every handler again.
Swap(p) ==
  /\ page[p].open /\ page[p].handlers \in 1..(MaxHandlers - 1)
  /\ page' = [page EXCEPT ![p].handlers = @ + 1]
  /\ UNCHANGED <<env, row, request, render, cached, wanted>>

\* A field is dragged within its column, a heading within the list.
DragField(p, c, arrangement) == Change(p, c, arrangement, 1)
DragHeading(p, arrangement) ==
  Change(p, "order", [page[p].shown.order EXCEPT !.order = arrangement], 1)

\* Each handler that is registered for a checkbox sends the change.
ClickHeading(p, h) ==
  LET shown == page[p].shown.order IN
  Change(p, "order",
         [shown EXCEPT !.hidden = IF h \in @ THEN @ \ {h} ELSE @ \cup {h}],
         page[p].handlers)

\* The checkboxes of the works under a hidden heading are disabled.
ClickWork(p, w) ==
  LET shown == page[p].shown.works IN
  /\ MayAct(p, "works") /\ TypeOf[w] \notin page[p].shown.order.hidden
  /\ Change(p, "works", IF w \in shown THEN shown \ {w} ELSE shown \cup {w},
            page[p].handlers)

\* The style is saved by the view that lists the works again.
ChooseStyle(p, style) ==
  /\ MayAct(p, "style")
  /\ style # page[p].shown.style
  /\ page' = [page EXCEPT ![p].shown.style = style]
  /\ Post(p, "list", "style", style, 1)

\* The whole form is posted, the style with it.
Submit(p) ==
  /\ MayAct(p, "style")
  /\ Post(p, "form", "style", page[p].shown.style, 1)
  /\ UNCHANGED page

\* The requests of a tab that is left have nobody to answer.
Orphaned(p) ==
  [q \in Requests |-> IF request[q] = Free \/ request[q].page # p THEN request[q]
                      ELSE IF UnderWay(q) THEN [request[q] EXCEPT !.page = None]
                      ELSE Free]

\* The tab is closed or reloaded; the requests it has sent are not taken back.
Leave(p) ==
  /\ page[p].open /\ MayGoOn(p)
  /\ page' = [page EXCEPT ![p] = Closed]
  /\ request' = Orphaned(p)
  /\ UNCHANGED <<env, row, render, cached, wanted>>

-------------------------------------------------------------------------------
(* The views.                                                              *)

\* A handler of another page or application loads the row to save it.
Other(q) ==
  /\ env.others /\ request[q] = Free
  /\ request' = [request EXCEPT ![q] =
       [at |-> "loaded", kind |-> "other", page |-> None, part |-> None,
        value |-> None, copy |-> row]]
  /\ UNCHANGED <<env, row, page, render, cached, wanted>>

\* The row as it is now.
Load(q) ==
  /\ request[q].at = "sent"
  /\ request' = [request EXCEPT ![q].at = "loaded", ![q].copy = row]
  /\ UNCHANGED <<env, row, page, render, cached, wanted>>

\* The request, or the save, fails; the page only logs it.
Lose(q) ==
  /\ env.flaky /\ UnderWay(q)
  /\ request' = [request EXCEPT ![q] = Free]
  /\ wanted' = [part \in Parts |-> IF part = request[q].part THEN None ELSE wanted[part]]
  /\ UNCHANGED <<env, row, page, render, cached>>

\* Mutant of Saved: everything in the body is stored, though it carries one part.
SavedWithDefaults(q) ==
  IF request[q].part = None THEN request[q].copy
  ELSE IF request[q].part = "order"
       THEN [request[q].copy EXCEPT !.order = request[q].value, !.works = {}]
  ELSE [request[q].copy EXCEPT ![request[q].part] = request[q].value]

\* The row that a request saves: its copy, with its part set.
Saved(q) ==
  IF request[q].part = None THEN request[q].copy
  ELSE [request[q].copy EXCEPT ![request[q].part] = request[q].value]

\* Another request, for another part, holds a row without what q saves.
Outdated(q) ==
  \E r \in Requests \ {q} :
    /\ request[r].at = "loaded" /\ request[r].part # request[q].part
    /\ request[r].copy[request[q].part] # request[q].value

Store(q) ==
  /\ row' = Saved(q)
  /\ wanted' = [part \in Parts |-> IF part = request[q].part /\ Outdated(q) THEN None
                                   ELSE wanted[part]]
  /\ UNCHANGED <<env, render, cached>>

\* save_profile_order, save_works_order, save_works_visibility, and others.
Save(q) ==
  /\ request[q].at = "loaded" /\ request[q].kind \in {"save", "other"}
  /\ request' = [request EXCEPT ![q] = Free]
  /\ Store(q)
  /\ UNCHANGED page

\* works_deposits_edit: after it has asked the Works service for the list, which it
\* sends to the tab with what its copy says is hidden.
Answer(q) ==
  IF request[q].page = None THEN Free
  ELSE [at |-> "answered", kind |-> "list", page |-> request[q].page, part |-> "style",
        value |-> request[q].value, copy |-> Saved(q)]

SaveAndList(q) ==
  /\ request[q].at = "loaded" /\ request[q].kind = "list"
  /\ request' = [request EXCEPT ![q] = Answer(q)]
  /\ Store(q)
  /\ UNCHANGED page

\* edit_profile: the tab goes to the profile.
SaveForm(q) ==
  LET p == request[q].page IN
  /\ request[q].at = "loaded" /\ request[q].kind = "form"
  /\ request' = IF p = None THEN [request EXCEPT ![q] = Free]
                ELSE [Orphaned(p) EXCEPT ![q] = Free]
  /\ page' = IF p = None THEN page ELSE [page EXCEPT ![p] = Closed]
  /\ Store(q)

\* The list replaces the one that is shown; how many handlers its checkboxes get
\* depends on the swaps that come with it.
ShowList(q) ==
  /\ request[q].at = "answered"
  /\ \E k \in 1..MaxHandlers :
       page' = [page EXCEPT ![request[q].page] =
         [@ EXCEPT !.handlers = k,
                   !.shown.order = View(request[q].copy).order,
                   !.shown.works = request[q].copy.works]]
  /\ request' = [request EXCEPT ![q] = Free]
  /\ UNCHANGED <<env, row, render, cached, wanted>>

-------------------------------------------------------------------------------
(* The visitors.                                                           *)

\* works_deposits: nothing is cached, and the works are listed for the row ...
StartRender ==
  /\ env.visitors /\ render = Free /\ cached = None
  /\ render' = [at |-> "works", panel |-> Panel(row), age |-> 0, past |-> 0]
  /\ UNCHANGED <<env, row, page, request, cached, wanted>>

\* ... and the panel is put into the cache; or the service failed, and it is not.
Fill ==
  /\ render # Free
  /\ cached' = [panel |-> render.panel, age |-> 0, past |-> render.past]
  /\ render' = Free
  /\ UNCHANGED <<env, row, page, request, wanted>>

RenderFails ==
  /\ render # Free /\ env.flaky
  /\ render' = Free
  /\ UNCHANGED <<env, row, page, request, cached, wanted>>

\* How long it is since visitors would have seen this panel.
Passed(entry) ==
  [entry EXCEPT !.past = IF entry.panel = Panel(row) THEN 0
                         ELSE IF @ = Long THEN Long ELSE @ + 1]

\* Mutant of Aged: an entry is as good as new.
AgedNever(entry) == Passed(entry)

\* Mutant of Aged: it lives for one tick more.
AgedLate(entry) == IF entry.age > TTL THEN None ELSE [Passed(entry) EXCEPT !.age = @ + 1]

\* An entry expires.
Aged(entry) == IF entry.age = TTL THEN None ELSE [Passed(entry) EXCEPT !.age = @ + 1]

\* Time passes; a listing takes no longer than its time-outs allow.
Tick ==
  /\ env.visitors
  /\ render # Free => render.age < MaxRender
  /\ render' = IF render = Free THEN Free ELSE [Passed(render) EXCEPT !.age = @ + 1]
  /\ cached' = IF cached = None THEN None ELSE Aged(cached)
  /\ UNCHANGED <<env, row, page, request, wanted>>

-------------------------------------------------------------------------------
PageStep ==
  \E p \in Pages :
    \/ Open(p) \/ AskForList(p) \/ Swap(p) \/ Submit(p) \/ Leave(p)
    \/ \E c \in Columns : \E a \in Arrangements(Items(Fields[c])) : DragField(p, c, a)
    \/ \E a \in Arrangements(Items(Headings)) : DragHeading(p, a)
    \/ \E h \in Items(Headings) : ClickHeading(p, h)
    \/ \E w \in Works : ClickWork(p, w)
    \/ \E style \in Styles : ChooseStyle(p, style)

RequestStep ==
  \E q \in Requests :
    \/ Other(q) \/ Load(q) \/ Lose(q) \/ Save(q) \/ SaveAndList(q) \/ SaveForm(q) \/ ShowList(q)

VisitorStep == StartRender \/ Fill \/ RenderFails \/ Tick

Next == PageStep \/ RequestStep \/ VisitorStep

Spec == Init /\ [][Next]_vars

\* Time passes, and a listing ends.
FairSpec == Spec /\ WF_vars(Tick) /\ WF_vars(Fill \/ RenderFails)

-------------------------------------------------------------------------------
(* Properties.                                                             *)

\* A change that met no other request of its part, nor one that held an older row,
\* is in the row when it has been answered, and nothing takes it back: not the
\* other parts' requests, which save the row whole, nor other tabs and applications.
UncontestedChangesPersist ==
  \A part \in Parts :
    wanted[part] # None /\ ~Pending(part) => row[part] = wanted[part]

\* The only tab, and requests that do not fail.
Alone == (\E p \in Pages : env.pages = {p}) /\ ~env.flaky /\ ~env.others

\* A member with one tab, who waits for the answers, sees what is stored.
PageAgreesWithRow ==
  \A p \in Pages :
    /\ Alone /\ ~env.hasty
    /\ page[p].open
    /\ \A q \in Requests : request[q] = Free
    => page[p].shown = View(row)

\* What visitors get was true not longer ago than an entry lives and a listing takes.
VisitorsSeeRecent == cached # None => cached.past <= TTL + MaxRender

\* If the row stays as it is, then visitors see it in the end.
ChangesReachVisitors ==
  \A v \in Panels :
    <>[](env.visitors /\ Panel(row) = v) => <>[](cached = None \/ cached.panel = v)
================================================================================
