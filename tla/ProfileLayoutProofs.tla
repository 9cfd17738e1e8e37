-------------------------- MODULE ProfileLayoutProofs --------------------------
(***************************************************************************)
(* Proofs about ProfileLayout, in four parts: a change that meets no other *)
(* request stays, and visitors get a list that was true a short time ago   *)
(* (for these the values do not matter, only the shape of rows and         *)
(* requests); what process_orders makes of any order; types; and what the  *)
(* page of a patient member shows.                                         *)
(***************************************************************************)
EXTENDS ProfileLayout, FiniteSetTheorems, FunctionTheorems, SequenceTheorems,
        WellFoundedInduction, TLAPS

-------------------------------------------------------------------------------
(* The invariant.                                                          *)

IsRow(r) == r = [part \in Parts |-> r[part]]

Formed(r) ==
  /\ r = [at |-> r.at, kind |-> r.kind, page |-> r.page, part |-> r.part,
          value |-> r.value, copy |-> r.copy]
  /\ r.at \in {"sent", "loaded", "answered"}
  /\ r.part \in Parts \cup {None}
  /\ r.at = "loaded" => IsRow(r.copy)

Shape ==
  /\ IsRow(row)
  /\ wanted = [part \in Parts |-> wanted[part]]
  /\ request = [q \in Requests |-> request[q]]
  /\ \A q \in Requests : request[q] = Free \/ Formed(request[q])

\* What is under way for a part carries what is wanted.
Carries(part) ==
  \A q \in Requests : UnderWay(q) /\ request[q].part = part => request[q].value = wanted[part]

\* If nothing is, the row has what is wanted, and so has every copy that may be saved.
Settled(part) ==
  ~Pending(part) =>
    /\ row[part] = wanted[part]
    /\ \A q \in Requests : request[q].at = "loaded" => request[q].copy[part] = wanted[part]

Holds(part) == wanted[part] # None => Carries(part) /\ Settled(part)

IInv == Shape /\ \A part \in Parts : Holds(part)

-------------------------------------------------------------------------------
(* Steps, as the invariant sees them.                                      *)

\* What is under way stays as it is, and nothing is added.
Keeps(q) ==
  \/ ~UnderWay(q) /\ request'[q].at \notin {"sent", "loaded"}
  \/ /\ request'[q].at = request[q].at /\ request'[q].part = request[q].part
     /\ request'[q].value = request[q].value /\ request'[q].copy = request[q].copy

\* Steps that neither send nor handle a request.
LEMMA QuietHolds ==
  ASSUME NEW part \in Parts, Holds(part),
         row' = row, wanted' = wanted, \A q \in Requests : Keeps(q)
  PROVE  Holds(part)'
  BY DEF Holds, Carries, Settled, Pending, UnderWay, Keeps

\* Some requests with one value are sent.
Sends(slots, part, value) ==
  /\ slots # {} /\ slots \subseteq Requests
  /\ \A q \in slots : /\ ~UnderWay(q)
                      /\ request'[q].at = "sent" /\ request'[q].part = part
                      /\ request'[q].value = value
  /\ \A q \in Requests \ slots : request'[q] = request[q]
  /\ wanted' = [wanted EXCEPT ![part] = IF Pending(part) THEN None ELSE value]
  /\ row' = row

LEMMA SendHolds ==
  ASSUME NEW part \in Parts, Shape, Holds(part),
         NEW slots, NEW other \in Parts, NEW value, Sends(slots, other, value)
  PROVE  Holds(part)'
<1>1. CASE part # other
  <2>1. wanted'[part] = wanted[part]
    BY <1>1 DEF Sends, Shape
  <2>2. Pending(part)' <=> Pending(part)
    BY <1>1 DEF Sends, Pending, UnderWay
  <2>3. QED
    BY <1>1, <2>1, <2>2 DEF Sends, Holds, Carries, Settled, UnderWay
<1>2. CASE part = other
  <2>1. wanted'[part] = IF Pending(part) THEN None ELSE value
    BY <1>2 DEF Sends, Shape
  <2>2. Pending(part)'
    BY <1>2 DEF Sends, Pending, UnderWay
  <2>3. QED
    BY <1>2, <2>1, <2>2 DEF Sends, Holds, Carries, Settled, Pending, UnderWay
<1>3. QED
  BY <1>1, <1>2

\* A request gets a copy of the row.
Loads(q) ==
  /\ q \in Requests
  /\ request'[q].at = "loaded" /\ request'[q].copy = row
  /\ \/ /\ UnderWay(q) /\ request'[q].part = request[q].part
        /\ request'[q].value = request[q].value
     \/ ~UnderWay(q) /\ request'[q].part = None
  /\ \A r \in Requests \ {q} : request'[r] = request[r]
  /\ row' = row /\ wanted' = wanted

LEMMA LoadHolds ==
  ASSUME NEW part \in Parts, Holds(part), NEW q, Loads(q)
  PROVE  Holds(part)'
<1>1. Pending(part)' <=> Pending(part)
  BY NoneAssumption DEF Loads, Pending, UnderWay
<1>2. QED
  BY <1>1, NoneAssumption DEF Loads, Holds, Carries, Settled, UnderWay

\* A request ends without a save.
LEMMA LoseHolds ==
  ASSUME NEW part \in Parts, Shape, Holds(part), NEW q \in Requests, Lose(q)
  PROVE  Holds(part)'
<1>1. /\ row' = row /\ request'[q] = Free
      /\ \A r \in Requests \ {q} : request'[r] = request[r]
  BY DEF Lose, Shape
<1>2. wanted'[part] = IF part = request[q].part THEN None ELSE wanted[part]
  BY DEF Lose
<1>3. CASE part = request[q].part
  BY <1>2, <1>3 DEF Holds
<1>4. CASE part # request[q].part
  <2>1. Pending(part)' <=> Pending(part)
    BY <1>1, <1>4 DEF Pending, UnderWay, Free
  <2>2. QED
    BY <1>1, <1>2, <1>4, <2>1 DEF Holds, Carries, Settled, UnderWay, Free
<1>5. QED
  BY <1>3, <1>4

\* A request saves its row, and is not under way any more.
LEMMA StoreHolds ==
  ASSUME NEW part \in Parts, Shape, Holds(part), NEW q \in Requests,
         request[q].at = "loaded", Store(q), request'[q].at \notin {"sent", "loaded"},
         \A r \in Requests \ {q} : Keeps(r)
  PROVE  Holds(part)'
<1>1. Formed(request[q])
  BY DEF Shape, Free
<1>2. wanted'[part] = IF part = request[q].part /\ Outdated(q) THEN None ELSE wanted[part]
  BY DEF Store
<1>3. ASSUME wanted'[part] # None  PROVE  Carries(part)' /\ Settled(part)'
  <2>1. wanted'[part] = wanted[part] /\ Carries(part) /\ Settled(part)
    BY <1>2, <1>3 DEF Holds
  <2>2. Carries(part)'
    BY <2>1 DEF Carries, UnderWay, Keeps
  <2>3. CASE part = request[q].part
    <3>1. row'[part] = wanted[part]
      BY <1>1, <2>1, <2>3, NoneAssumption
         DEF Store, Saved, Formed, IsRow, Carries, UnderWay
    <3>2. ASSUME ~Pending(part)', NEW r \in Requests, request'[r].at = "loaded"
          PROVE  request'[r].copy[part] = wanted[part]
      <4>1. r # q /\ request[r].at = "loaded" /\ request[r].part # part
            /\ request'[r].copy = request[r].copy
        BY <3>2 DEF Keeps, Pending, UnderWay
      <4>2. ~Outdated(q)
        BY <1>2, <1>3, <2>3
      <4>3. request[q].value = wanted[part]
        BY <2>1, <2>3 DEF Carries, UnderWay
      <4>4. QED
        BY <2>3, <4>1, <4>2, <4>3 DEF Outdated
    <3>3. QED
      BY <2>1, <2>2, <3>1, <3>2 DEF Settled
  <2>4. CASE part # request[q].part
    <3>1. SUFFICES ASSUME ~Pending(part)'
                   PROVE  Settled(part)'
      BY <2>2 DEF Settled
    <3>2. ~Pending(part)
      BY <2>4, <3>1 DEF Pending, UnderWay, Keeps
    <3>3. request[q].copy[part] = wanted[part]
      BY <2>1, <3>2 DEF Settled
    <3>4. row'[part] = wanted[part]
      BY <1>1, <2>4, <3>3 DEF Store, Saved, Formed, IsRow
    <3>5. QED
      BY <2>1, <3>2, <3>4 DEF Settled, Keeps, UnderWay
  <2>5. QED
    BY <2>3, <2>4
<1>4. QED
  BY <1>3 DEF Holds

-------------------------------------------------------------------------------
(* The actions.                                                            *)

\* Initially nothing is under way, and the row is what is wanted.
LEMMA InitInv == Init => IInv
<1>1. ASSUME Init  PROVE  Shape
  <2>1. IsRow(row)
    BY <1>1 DEF Init, IsRow, Parts, Columns
  <2>2. QED
    BY <1>1, <2>1 DEF Init, Shape, IsRow
<1>2. ASSUME Init, NEW part \in Parts  PROVE  Holds(part)
  BY <1>2 DEF Init, Holds, Carries, Settled, UnderWay, Free
<1>3. QED
  BY <1>1, <1>2 DEF IInv

\* Free requests are not under way.
LEMMA FreeIsIdle ==
  ASSUME NEW q, request[q] = Free
  PROVE  ~UnderWay(q)
  BY DEF UnderWay, Free

\* A post sends a request at least.
LEMMA PostKeeps ==
  ASSUME IInv, NEW p, NEW kind, NEW part \in Parts, NEW value, NEW k,
         k # 0, Post(p, kind, part, value, k)
  PROVE  IInv'
<1> DEFINE slots == FirstFree(k)
<1>1. slots \subseteq Requests /\ \A q \in slots : request[q] = Free
  BY DEF FirstFree
<1>2. slots # {}
  BY FS_EmptySet DEF Post
<1>3. request' = [q \in Requests |->
        IF q \in slots THEN [at |-> "sent", kind |-> kind, page |-> p, part |-> part,
                             value |-> value, copy |-> None]
        ELSE request[q]]
  BY DEF Post
<1>4. row' = row /\ wanted' = [wanted EXCEPT ![part] = IF Pending(part) THEN None ELSE value]
  BY DEF Post
<1> HIDE DEF slots
<1>5. Sends(slots, part, value)
  BY <1>1, <1>2, <1>3, <1>4, FreeIsIdle DEF Sends
<1>6. Shape'
  <2>1. IsRow(row)' /\ wanted' = [x \in Parts |-> wanted'[x]]
    BY <1>4 DEF IInv, Shape, IsRow
  <2>2. \A q \in slots : Formed(request'[q])
    BY <1>1, <1>3 DEF Formed
  <2>3. \A q \in Requests \ slots : request'[q] = request[q]
    BY <1>3
  <2>4. \A q \in Requests : request'[q] = Free \/ Formed(request'[q])
    BY <2>2, <2>3 DEF IInv, Shape
  <2>5. QED
    BY <1>3, <2>1, <2>4 DEF Shape, Formed, Free
<1>7. QED
  BY <1>5, <1>6, SendHolds DEF IInv

\* Sends of the pages.
LEMMA ChangeKeeps ==
  ASSUME IInv, NEW p, NEW part \in Parts, NEW value, NEW k, k # 0, Change(p, part, value, k)
  PROVE  IInv'
  BY PostKeeps DEF Change

\* Steps that leave row, requests and wishes alone.
LEMMA StutterKeeps ==
  ASSUME IInv, UNCHANGED <<row, request, wanted>>
  PROVE  IInv'
  BY DEF IInv, Shape, Holds, Carries, Settled, Pending, UnderWay

\* The requests of a tab that is left.
LEMMA OrphanKeeps ==
  ASSUME Shape, NEW p, NEW q \in Requests
  PROVE  /\ Orphaned(p)[q] = Free \/ Formed(Orphaned(p)[q])
         /\ UnderWay(q) => /\ Orphaned(p)[q].at = request[q].at
                           /\ Orphaned(p)[q].part = request[q].part
                           /\ Orphaned(p)[q].value = request[q].value
                           /\ Orphaned(p)[q].copy = request[q].copy
         /\ ~UnderWay(q) => Orphaned(p)[q].at \notin {"sent", "loaded"}
<1>1. CASE request[q] = Free \/ request[q].page # p
  BY <1>1 DEF Orphaned, Shape, UnderWay
<1>2. CASE request[q] # Free /\ request[q].page = p /\ UnderWay(q)
  <2>1. Orphaned(p)[q] = [request[q] EXCEPT !.page = None]
    BY <1>2 DEF Orphaned
  <2>2. Formed(request[q])
    BY <1>2 DEF Shape
  <2>3. QED
    BY <1>2, <2>1, <2>2 DEF Formed
<1>3. CASE request[q] # Free /\ request[q].page = p /\ ~UnderWay(q)
  BY <1>3 DEF Orphaned, Free
<1>4. QED
  BY <1>1, <1>2, <1>3

LEMMA LeaveKeeps ==
  ASSUME IInv, NEW p, Leave(p)
  PROVE  IInv'
<1>1. request' = Orphaned(p) /\ row' = row /\ wanted' = wanted
  BY DEF Leave
<1>2. Shape'
  <2>1. request' = [q \in Requests |-> request'[q]]
    BY <1>1 DEF Orphaned
  <2>2. \A q \in Requests : request'[q] = Free \/ Formed(request'[q])
    BY <1>1, OrphanKeeps DEF IInv
  <2>3. QED
    BY <1>1, <2>1, <2>2 DEF IInv, Shape, IsRow, Formed, Free
<1>3. \A q \in Requests : Keeps(q)
  BY <1>1, OrphanKeeps DEF IInv, Keeps
<1>4. QED
  BY <1>1, <1>2, <1>3, QuietHolds DEF IInv

\* Copies that are made.
LEMMA LoadKeeps ==
  ASSUME IInv, NEW q \in Requests, Load(q) \/ Other(q)
  PROVE  IInv'
<1>1. Loads(q)
  <2>1. CASE Load(q)
    <3>1. Formed(request[q])
      BY <2>1 DEF Load, IInv, Shape, Free
    <3>2. QED
      BY <2>1, <3>1 DEF Load, Loads, IInv, Shape, Formed, UnderWay
  <2>2. CASE Other(q)
    BY <2>2, FreeIsIdle DEF Other, Loads, IInv, Shape
  <2>3. QED
    BY <2>1, <2>2
<1>2. Formed(request'[q])
  <2>1. CASE Load(q)
    <3>1. Formed(request[q])
      BY <2>1 DEF Load, IInv, Shape, Free
    <3>2. request'[q] = [at |-> "loaded", kind |-> request[q].kind, page |-> request[q].page,
                         part |-> request[q].part, value |-> request[q].value, copy |-> row]
      BY <2>1, <3>1 DEF Load, IInv, Shape, Formed
    <3>3. QED
      BY <3>1, <3>2 DEF Formed, IInv, Shape
  <2>2. CASE Other(q)
    BY <2>2 DEF Other, IInv, Shape, Formed
  <2>3. QED
    BY <2>1, <2>2
<1>3. Shape'
  <2>1. request' = [r \in Requests |-> request'[r]]
    BY DEF Load, Other, IInv, Shape
  <2>2. \A r \in Requests : request'[r] = Free \/ Formed(request'[r])
    BY <1>1, <1>2 DEF Loads, IInv, Shape
  <2>3. QED
    BY <1>1, <2>1, <2>2 DEF Loads, IInv, Shape, IsRow, Formed, Free
<1>4. QED
  BY <1>1, <1>3, LoadHolds DEF IInv

LEMMA LoseKeeps ==
  ASSUME IInv, NEW q \in Requests, Lose(q)
  PROVE  IInv'
<1>1. Shape'
  BY DEF IInv, Shape, Lose, IsRow, Formed, Free
<1>2. QED
  BY <1>1, LoseHolds DEF IInv

\* What is saved is a row.
LEMMA SavedIsRow ==
  ASSUME Shape, NEW q \in Requests, request[q].at = "loaded"
  PROVE  IsRow(Saved(q))
<1>1. Formed(request[q])
  BY DEF Shape, Free
<1>2. QED
  BY <1>1 DEF Formed, IsRow, Saved

\* Saves, whatever becomes of the requests that are not under way.
LEMMA StoreKeeps ==
  ASSUME IInv, NEW q \in Requests, request[q].at = "loaded", Store(q),
         request'[q].at \notin {"sent", "loaded"},
         request' = [r \in Requests |-> request'[r]],
         request'[q] = Free \/ Formed(request'[q]),
         \A r \in Requests \ {q} : Keeps(r) /\ (request'[r] = Free \/ Formed(request'[r]))
  PROVE  IInv'
<1>1. Shape'
  BY SavedIsRow DEF IInv, Shape, IsRow, Store, Formed, Free
<1>2. QED
  BY <1>1, StoreHolds DEF IInv

\* An answer is a request that has ended.
LEMMA AnswerFormed ==
  ASSUME NEW q
  PROVE  (Answer(q) = Free \/ Formed(Answer(q))) /\ Answer(q).at \notin {"sent", "loaded"}
  BY DEF Answer, Formed, Free, Parts

LEMMA SaveKeeps ==
  ASSUME IInv, NEW q \in Requests, Save(q) \/ SaveAndList(q) \/ SaveForm(q)
  PROVE  IInv'
<1>1. request[q].at = "loaded" /\ Store(q) /\ Formed(request[q])
  BY DEF Save, SaveAndList, SaveForm, IInv, Shape, Free
<1>2. CASE request' = [request EXCEPT ![q] = Free]
  BY <1>1, <1>2, StoreKeeps DEF IInv, Shape, Keeps, Free
<1>3. CASE SaveAndList(q)
  <2>1. request' = [request EXCEPT ![q] = Answer(q)]
    BY <1>3 DEF SaveAndList
  <2>2. request'[q] = Answer(q)
    BY <2>1 DEF IInv, Shape
  <2>3. QED
    BY <1>1, <2>1, <2>2, AnswerFormed, StoreKeeps DEF IInv, Shape, Keeps
<1>4. CASE SaveForm(q) /\ request[q].page # None
  <2>1. request' = [Orphaned(request[q].page) EXCEPT ![q] = Free]
    BY <1>4 DEF SaveForm
  <2>2. request' = [r \in Requests |-> IF r = q THEN Free ELSE Orphaned(request[q].page)[r]]
    BY <2>1 DEF Orphaned
  <2>3. \A r \in Requests \ {q} : Keeps(r) /\ (request'[r] = Free \/ Formed(request'[r]))
    BY <2>2, OrphanKeeps DEF IInv, Keeps
  <2>4. QED
    BY <1>1, <2>2, <2>3, StoreKeeps DEF Free
<1>5. QED
  BY <1>2, <1>3, <1>4 DEF Save, SaveAndList, SaveForm

LEMMA ShowKeeps ==
  ASSUME IInv, NEW q \in Requests, ShowList(q)
  PROVE  IInv'
<1>1. request' = [request EXCEPT ![q] = Free] /\ row' = row /\ wanted' = wanted
      /\ ~UnderWay(q)
  BY DEF ShowList, UnderWay
<1>2. \A r \in Requests : Keeps(r)
  BY <1>1 DEF IInv, Shape, Keeps, Free
<1>3. Shape'
  BY <1>1 DEF IInv, Shape, IsRow, Formed, Free
<1>4. QED
  BY <1>1, <1>2, <1>3, QuietHolds DEF IInv

-------------------------------------------------------------------------------
LEMMA PageStepKeeps ==
  ASSUME IInv, PageStep
  PROVE  IInv'
<1>1. PICK p \in Pages :
        \/ Open(p) \/ AskForList(p) \/ Swap(p) \/ Submit(p) \/ Leave(p)
        \/ \E c \in Columns : \E a \in Arrangements(Items(Fields[c])) : DragField(p, c, a)
        \/ \E a \in Arrangements(Items(Headings)) : DragHeading(p, a)
        \/ \E h \in Items(Headings) : ClickHeading(p, h)
        \/ \E w \in Works : ClickWork(p, w)
        \/ \E style \in Styles : ChooseStyle(p, style)
  BY DEF PageStep
<1>2. CASE Open(p) \/ Swap(p)
  BY <1>2, StutterKeeps DEF Open, Swap
<1>3. CASE AskForList(p)
  BY <1>3, PostKeeps DEF AskForList, Parts
<1>4. CASE Submit(p)
  BY <1>4, PostKeeps DEF Submit, Parts
<1>5. CASE Leave(p)
  BY <1>5, LeaveKeeps
<1>6. ASSUME NEW c \in Columns, NEW a, DragField(p, c, a)  PROVE  IInv'
  BY <1>6, ChangeKeeps DEF DragField, Parts
<1>7. ASSUME NEW a, DragHeading(p, a)  PROVE  IInv'
  BY <1>7, ChangeKeeps DEF DragHeading, Parts
<1>8. ASSUME NEW h, ClickHeading(p, h)  PROVE  IInv'
  <2>1. page[p].handlers > 0
    BY <1>8 DEF ClickHeading, Change, MayAct
  <2>2. page[p].handlers # 0
    BY <2>1
  <2>3. QED
    BY <1>8, <2>2, ChangeKeeps DEF ClickHeading, Parts
<1>9. ASSUME NEW w, ClickWork(p, w)  PROVE  IInv'
  <2>1. page[p].handlers > 0
    BY <1>9 DEF ClickWork, MayAct
  <2>2. page[p].handlers # 0
    BY <2>1
  <2>3. QED
    BY <1>9, <2>2, ChangeKeeps DEF ClickWork, Parts
<1>10. ASSUME NEW style, ChooseStyle(p, style)  PROVE  IInv'
  BY <1>10, PostKeeps DEF ChooseStyle, Parts
<1>11. QED
  BY <1>1, <1>2, <1>3, <1>4, <1>5, <1>6, <1>7, <1>8, <1>9, <1>10

LEMMA NextKeeps ==
  ASSUME IInv, [Next]_vars
  PROVE  IInv'
<1>1. CASE PageStep
  BY <1>1, PageStepKeeps
<1>2. CASE RequestStep
  BY <1>2, LoadKeeps, LoseKeeps, SaveKeeps, ShowKeeps DEF RequestStep
<1>3. CASE VisitorStep
  BY <1>3, StutterKeeps DEF VisitorStep, StartRender, Fill, RenderFails, Tick
<1>4. CASE UNCHANGED vars
  BY <1>4, StutterKeeps DEF vars
<1>5. QED
  BY <1>1, <1>2, <1>3, <1>4 DEF Next

\* A change to the arrangement of a profile that met no request that could undo it
\* (save_profile_order and the others, which save every column of the row they
\* loaded) is never undone, for any number of tabs, requests, fields and works.
THEOREM ChangesStay == Spec => []UncontestedChangesPersist
<1>1. IInv => UncontestedChangesPersist
  BY DEF IInv, Holds, Settled, UncontestedChangesPersist
<1>2. QED
  BY <1>1, InitInv, NextKeeps, PTL DEF Spec

-------------------------------------------------------------------------------
(* The visitors.                                                           *)

\* A listing that runs, and an entry, are out of date no longer than they exist.
Recent ==
  /\ \/ render = Free
     \/ /\ render = [at |-> "works", panel |-> render.panel, age |-> render.age,
                     past |-> render.past]
        /\ render.age \in 0..MaxRender /\ render.past \in 0..render.age
  /\ \/ cached = None
     \/ /\ cached = [panel |-> cached.panel, age |-> cached.age, past |-> cached.past]
        /\ cached.age \in 0..TTL /\ cached.past \in 0..(cached.age + MaxRender)

\* What a tick makes of an entry that is no older than limit.
LEMMA PassedEffect ==
  ASSUME NEW entry, NEW age \in Nat, NEW slack \in Nat,
         entry.past \in 0..(age + slack), age + slack < Long,
         NEW panel, NEW next,
         next = IF panel = Panel(row) THEN 0
                ELSE IF entry.past = Long THEN Long ELSE entry.past + 1
  PROVE  next \in 0..(age + 1 + slack)
  BY BoundsAssumption DEF Long

LEMMA TickRecent ==
  ASSUME Recent, Tick
  PROVE  Recent'
<1> USE BoundsAssumption
<1>1. \/ render' = Free
      \/ /\ render' = [at |-> "works", panel |-> render'.panel, age |-> render'.age,
                       past |-> render'.past]
         /\ render'.age \in 0..MaxRender /\ render'.past \in 0..render'.age
  <2>1. CASE render = Free
    BY <2>1 DEF Tick
  <2>2. CASE render # Free
    <3> DEFINE next == IF render.panel = Panel(row) THEN 0
                       ELSE IF render.past = Long THEN Long ELSE render.past + 1
    <3>1. render.age \in Nat /\ render.past \in 0..(render.age + 0) /\ render.age < MaxRender
      BY <2>2 DEF Recent, Tick
    <3>2. render.age + 0 < Long
      BY <3>1 DEF Long
    <3>3. next \in 0..(render.age + 1 + 0)
      BY <3>1, <3>2, PassedEffect
    <3>4. Passed(render) = [render EXCEPT !.past = next]
      BY DEF Passed
    <3> HIDE DEF next
    <3>5. render = [at |-> "works", panel |-> render.panel, age |-> render.age,
                    past |-> render.past]
      BY <2>2 DEF Recent
    <3>6. Passed(render) = [at |-> "works", panel |-> render.panel, age |-> render.age,
                            past |-> next]
      BY <3>4, <3>5
    <3>7. render' = [Passed(render) EXCEPT !.age = render.age + 1]
      BY <2>2, <3>6 DEF Tick
    <3>8. render' = [at |-> "works", panel |-> render.panel, age |-> render.age + 1,
                     past |-> next]
      BY <3>6, <3>7
    <3>9. QED
      BY <3>1, <3>3, <3>8
  <2>3. QED
    BY <2>1, <2>2
<1>2. \/ cached' = None
      \/ /\ cached' = [panel |-> cached'.panel, age |-> cached'.age, past |-> cached'.past]
         /\ cached'.age \in 0..TTL /\ cached'.past \in 0..(cached'.age + MaxRender)
  <2>1. CASE cached = None \/ cached.age = TTL
    BY <2>1 DEF Tick, Aged
  <2>2. CASE cached # None /\ cached.age # TTL
    <3> DEFINE next == IF cached.panel = Panel(row) THEN 0
                       ELSE IF cached.past = Long THEN Long ELSE cached.past + 1
    <3>1. cached.age \in Nat /\ cached.past \in 0..(cached.age + MaxRender) /\ cached.age < TTL
      BY <2>2 DEF Recent
    <3>2. cached.age + MaxRender < Long
      BY <3>1 DEF Long
    <3>3. next \in 0..(cached.age + 1 + MaxRender)
      BY <3>1, <3>2, PassedEffect
    <3>4. Passed(cached) = [cached EXCEPT !.past = next]
      BY DEF Passed
    <3> HIDE DEF next
    <3>5. cached' = [panel |-> cached.panel, age |-> cached.age + 1, past |-> next]
      BY <2>2, <3>4 DEF Recent, Tick, Aged
    <3>6. QED
      BY <3>1, <3>3, <3>5
  <2>3. QED
    BY <2>1, <2>2
<1>3. QED
  BY <1>1, <1>2 DEF Recent

\* Only the visitors' steps and time write the listing and the cache.
LEMMA RecentKept ==
  ASSUME Recent, [Next]_vars
  PROVE  Recent'
<1>1. CASE StartRender
  BY <1>1, BoundsAssumption DEF StartRender, Recent
<1>2. CASE Fill
  <2>1. /\ render.past \in 0..MaxRender /\ render' = Free
        /\ cached' = [panel |-> render.panel, age |-> 0, past |-> render.past]
    BY <1>2, BoundsAssumption DEF Fill, Recent
  <2>2. QED
    BY <2>1, BoundsAssumption DEF Recent
<1>3. CASE RenderFails
  BY <1>3 DEF RenderFails, Recent
<1>4. CASE Tick
  BY <1>4, TickRecent
<1>5. CASE PageStep \/ RequestStep \/ UNCHANGED vars
  <2>1. ASSUME NEW p, NEW part, NEW value, NEW k, Change(p, part, value, k)
        PROVE  UNCHANGED <<render, cached>>
    BY <2>1 DEF Change, Post
  <2>2. ASSUME NEW p, \/ Open(p) \/ AskForList(p) \/ Swap(p) \/ Submit(p) \/ Leave(p)
                     \/ \E style \in Styles : ChooseStyle(p, style)
        PROVE  UNCHANGED <<render, cached>>
    BY <2>2 DEF Open, AskForList, Swap, Submit, Leave, ChooseStyle, Post
  <2>3. ASSUME PageStep PROVE UNCHANGED <<render, cached>>
    BY <2>1, <2>2, <2>3 DEF PageStep, DragField, DragHeading, ClickHeading, ClickWork
  <2>4. ASSUME RequestStep PROVE UNCHANGED <<render, cached>>
    BY <2>4 DEF RequestStep, Other, Load, Lose, Save, SaveAndList, SaveForm, ShowList, Store
  <2>5. UNCHANGED <<render, cached>>
    BY <1>5, <2>3, <2>4 DEF vars
  <2>6. QED
    BY <2>5 DEF Recent
<1>6. QED
  BY <1>1, <1>2, <1>3, <1>4, <1>5 DEF Next, VisitorStep

\* The cache of the works (works_deposits) is out of date no longer than an entry
\* lives and a listing takes, for every life time and duration and whatever
\* becomes of the row meanwhile.
THEOREM VisitorsRecent == Spec => []VisitorsSeeRecent
<1>1. Init => Recent
  BY DEF Init, Recent
<1>2. Recent => VisitorsSeeRecent
  BY BoundsAssumption DEF Recent, VisitorsSeeRecent
<1>3. QED
  BY <1>1, <1>2, RecentKept, PTL DEF Spec

-------------------------------------------------------------------------------
(* Induction over the natural numbers, for sets instead of predicates.     *)

Below == {p \in Nat \X Nat : p[1] < p[2]}

\* A set of numbers has a least element.
LEMMA Least ==
  ASSUME NEW T, T \subseteq Nat, T # {}
  PROVE  \E x \in T : \A y \in T : x <= y
<1>1. IsWellFoundedOn(Below, Nat)
  <2>1. Below = OpToRel(<, Nat)
    BY Zenon DEF OpToRel, Below
  <2>2. QED
    BY <2>1, NatLessThanWellFounded, Zenon
<1>2. PICK x \in T : \A y \in T : <<y, x>> \notin Below
  BY <1>1, WFMin, Zenon
<1>3. ASSUME NEW y \in T  PROVE  x <= y
  <2>1. ~(y < x)
    BY <1>2, <1>3 DEF Below
  <2>2. QED
    BY <2>1
<1>4. QED
  BY <1>3

\* Induction: a set that has 0, and every successor, has every number.
LEMMA NatInductive ==
  ASSUME NEW T, 0 \in T, \A n \in Nat : n \in T => n + 1 \in T
  PROVE  Nat \subseteq T
<1>1. SUFFICES ASSUME Nat \ T # {}  PROVE  FALSE
  OBVIOUS
<1>2. PICK x \in Nat \ T : \A y \in Nat \ T : x <= y
  BY <1>1, Least
<1>3. x # 0 /\ x - 1 \in Nat /\ x - 1 \in T
  BY <1>2
<1>4. QED
  BY <1>2, <1>3

-------------------------------------------------------------------------------
(* Keeping some items of a sequence.                                       *)

\* The equations of the recursive function in Kept, on an interval.
Filters(f, n, seq, S) ==
  f = [k \in 0..n |-> IF k = 0 THEN <<>>
                      ELSE IF seq[k] \in S THEN Append(f[k - 1], seq[k])
                      ELSE f[k - 1]]

\* The equations have a solution.
LEMMA FilterExists ==
  ASSUME NEW seq, NEW S, NEW n \in Nat
  PROVE  \E f : Filters(f, n, seq, S)
<1> DEFINE T == {k \in Nat : \E f : Filters(f, k, seq, S)}
<1>1. 0 \in T
  <2>1. Filters([k \in 0..0 |-> <<>>], 0, seq, S)
    BY DEF Filters
  <2>2. QED
    BY <2>1
<1>2. ASSUME NEW m \in Nat, m \in T  PROVE  m + 1 \in T
  <2>1. PICK f : Filters(f, m, seq, S)
    BY <1>2
  <2> DEFINE g == [k \in 0..(m + 1) |->
                     IF k <= m THEN f[k]
                     ELSE IF seq[k] \in S THEN Append(f[m], seq[k]) ELSE f[m]]
  <2>2. ASSUME NEW k \in 0..(m + 1)
        PROVE  g[k] = IF k = 0 THEN <<>>
                      ELSE IF seq[k] \in S THEN Append(g[k - 1], seq[k])
                      ELSE g[k - 1]
    <3>1. CASE k = 0
      BY <2>1, <3>1 DEF Filters
    <3>2. CASE k \in 1..m
      <4>1. g[k] = f[k] /\ g[k - 1] = f[k - 1]
        BY <3>2
      <4>2. f[k] = IF seq[k] \in S THEN Append(f[k - 1], seq[k]) ELSE f[k - 1]
        <5>1. k \in 0..m /\ k # 0
          BY <3>2
        <5>2. QED
          BY <2>1, <5>1, Zenon DEF Filters
      <4>3. QED
        BY <3>2, <4>1, <4>2
    <3>3. CASE k = m + 1
      <4>1. g[k - 1] = f[m] /\ k # 0 /\ ~(k <= m)
        BY <3>3
      <4>2. QED
        BY <3>3, <4>1
    <3>4. QED
      BY <3>1, <3>2, <3>3
  <2>3. Filters(g, m + 1, seq, S)
    <3>1. g = [k \in 0..(m + 1) |-> g[k]]
      OBVIOUS
    <3> HIDE DEF g
    <3>2. QED
      BY <2>2, <3>1 DEF Filters
  <2> HIDE DEF g
  <2>4. QED
    BY <2>3
<1>3. QED
  BY <1>1, <1>2, NatInductive

\* Kept goes through the sequence from its beginning.
LEMMA KeptUnfolds ==
  ASSUME NEW seq, NEW S, Len(seq) \in Nat
  PROVE  \E f : /\ Kept(seq, S) = f[Len(seq)]
                /\ f[0] = <<>>
                /\ \A k \in 1..Len(seq) :
                     f[k] = IF seq[k] \in S THEN Append(f[k - 1], seq[k]) ELSE f[k - 1]
<1> DEFINE f == CHOOSE f : Filters(f, Len(seq), seq, S)
<1>1. Filters(f, Len(seq), seq, S)
  BY FilterExists
<1>2. Kept(seq, S) = f[Len(seq)]
  BY DEF Kept, Filters
<1> HIDE DEF f
<1>3. f[0] = <<>>
  BY <1>1 DEF Filters
<1>4. ASSUME NEW k \in 1..Len(seq)
      PROVE  f[k] = IF seq[k] \in S THEN Append(f[k - 1], seq[k]) ELSE f[k - 1]
  <2>1. k \in 0..Len(seq) /\ k # 0
    OBVIOUS
  <2>2. QED
    BY <1>1, <2>1, Zenon DEF Filters
<1>5. QED
  BY <1>2, <1>3, <1>4

Distinct(seq) == \A i, j \in DOMAIN seq : seq[i] = seq[j] => i = j

\* One more item at the end.
LEMMA AppendItem ==
  ASSUME NEW X, NEW seq \in Seq(X), NEW x \in X
  PROVE  /\ Append(seq, x) \in Seq(X)
         /\ Items(Append(seq, x)) = Items(seq) \cup {x}
         /\ Distinct(seq) /\ x \notin Items(seq) => Distinct(Append(seq, x))
<1>1. /\ Append(seq, x) \in Seq(X) /\ Len(Append(seq, x)) = Len(seq) + 1
      /\ \A i \in 1..Len(seq) : Append(seq, x)[i] = seq[i]
      /\ Append(seq, x)[Len(seq) + 1] = x
      /\ Len(seq) \in Nat /\ DOMAIN seq = 1..Len(seq)
      /\ DOMAIN Append(seq, x) = 1..(Len(seq) + 1)
  OBVIOUS
<1>2. \A i \in 1..(Len(seq) + 1) : i \in 1..Len(seq) \/ i = Len(seq) + 1
  BY <1>1
<1>3. 1..Len(seq) \subseteq 1..(Len(seq) + 1) /\ Len(seq) + 1 \in 1..(Len(seq) + 1)
  BY <1>1
<1>4. Items(Append(seq, x)) = Items(seq) \cup {x}
  <2> DEFINE longer == Append(seq, x)
  <2> HIDE DEF longer
  <2>1. \A i \in DOMAIN longer : longer[i] \in Items(seq) \cup {x}
    BY <1>1, <1>2 DEF Items, longer
  <2>2. \A y \in Items(seq) \cup {x} : \E i \in DOMAIN longer : y = longer[i]
    BY <1>1, <1>3 DEF Items, longer
  <2>3. Items(longer) = Items(seq) \cup {x}
    BY <2>1, <2>2 DEF Items
  <2>4. QED
    BY <2>3 DEF longer
<1>5. ASSUME Distinct(seq), x \notin Items(seq)  PROVE  Distinct(Append(seq, x))
  BY <1>1, <1>2, <1>5, Zenon DEF Distinct, Items
<1>6. QED
  BY <1>1, <1>4, <1>5

\* Kept keeps the items in S, each once, and changes nothing if all are.
LEMMA KeptProperties ==
  ASSUME NEW X, NEW seq \in Seq(X), Distinct(seq), NEW S
  PROVE  /\ Kept(seq, S) \in Seq(X) /\ Distinct(Kept(seq, S))
         /\ Items(Kept(seq, S)) = Items(seq) \cap S
         /\ Items(seq) \subseteq S => Kept(seq, S) = seq
         /\ Items(seq) \cap S = {} => Kept(seq, S) = <<>>
<1>1. Len(seq) \in Nat /\ DOMAIN seq = 1..Len(seq) /\ \A i \in 1..Len(seq) : seq[i] \in X
  OBVIOUS
<1>2. PICK f : /\ Kept(seq, S) = f[Len(seq)]
               /\ f[0] = <<>>
               /\ \A k \in 1..Len(seq) :
                    f[k] = IF seq[k] \in S THEN Append(f[k - 1], seq[k]) ELSE f[k - 1]
  BY <1>1, KeptUnfolds
<1> DEFINE Upto(n) == {seq[i] : i \in 1..n}
           Good(n) == /\ f[n] \in Seq(X) /\ Distinct(f[n]) /\ Items(f[n]) = Upto(n) \cap S
                      /\ Items(seq) \subseteq S => f[n] = SubSeq(seq, 1, n)
                      /\ Items(seq) \cap S = {} => f[n] = <<>>
           T == {n \in Nat : n <= Len(seq) => Good(n)}
<1>3. 0 \in T
  <2>1. <<>> \in Seq(X) /\ Distinct(<<>>) /\ Items(<<>>) = {} /\ SubSeq(seq, 1, 0) = <<>>
    BY SubSeqProperties DEF Distinct, Items
  <2>2. Upto(0) = {}
    OBVIOUS
  <2>3. QED
    BY <1>2, <2>1, <2>2
<1>4. ASSUME NEW n \in Nat, n \in T  PROVE  n + 1 \in T
  <2>1. SUFFICES ASSUME n + 1 <= Len(seq)  PROVE  Good(n + 1)
    OBVIOUS
  <2>2. n \in 0..Len(seq) /\ n + 1 \in 1..Len(seq)
    BY <1>1, <2>1
  <2>3. Good(n)
    BY <1>1, <1>4, <2>2
  <2>4. f[n + 1] = IF seq[n + 1] \in S THEN Append(f[n], seq[n + 1]) ELSE f[n]
    BY <1>2, <2>2
  <2>5. Upto(n + 1) = Upto(n) \cup {seq[n + 1]}
    OBVIOUS
  <2>6. seq[n + 1] \in X /\ seq[n + 1] \in Items(seq)
    BY <1>1, <2>2 DEF Items
  <2>7. seq[n + 1] \notin Upto(n)
    BY <1>1, <2>2 DEF Distinct
  <2>8. SubSeq(seq, 1, n + 1) = Append(SubSeq(seq, 1, n), seq[n + 1])
    BY <1>1, <2>2, SubSeqRecursiveSecond
  <2> HIDE DEF Upto
  <2>9. CASE seq[n + 1] \in S
    <3>1. seq[n + 1] \notin Items(f[n])
      BY <2>3, <2>7
    <3>2. QED
      BY <2>3, <2>4, <2>5, <2>6, <2>8, <2>9, <3>1, AppendItem
  <2>10. CASE seq[n + 1] \notin S
    BY <2>3, <2>4, <2>5, <2>6, <2>10
  <2>11. QED
    BY <2>9, <2>10
<1>5. Nat \subseteq T
  BY <1>3, <1>4, NatInductive
<1>6. Good(Len(seq))
  <2>1. Len(seq) \in T
    BY <1>1, <1>5
  <2> HIDE DEF Good
  <2>2. QED
    BY <1>1, <2>1
<1>7. Upto(Len(seq)) = Items(seq)
  BY <1>1 DEF Items
<1>8. SubSeq(seq, 1, Len(seq)) = seq
  BY SubSeqFull
<1>9. QED
  BY <1>2, <1>6, <1>7, <1>8

\* Sequences with no item twice, put one behind the other.
LEMMA ConcatDistinct ==
  ASSUME NEW X, NEW s \in Seq(X), NEW t \in Seq(X), Distinct(s), Distinct(t),
         Items(s) \cap Items(t) = {}
  PROVE  s \o t \in Seq(X) /\ Distinct(s \o t) /\ Items(s \o t) = Items(s) \cup Items(t)
<1>1. /\ s \o t \in Seq(X) /\ Len(s \o t) = Len(s) + Len(t)
      /\ Len(s) \in Nat /\ Len(t) \in Nat
      /\ DOMAIN s = 1..Len(s) /\ DOMAIN t = 1..Len(t) /\ DOMAIN (s \o t) = 1..(Len(s) + Len(t))
      /\ \A i \in 1..(Len(s) + Len(t)) :
           (s \o t)[i] = IF i <= Len(s) THEN s[i] ELSE t[i - Len(s)]
  BY ConcatProperties
<1> DEFINE both == s \o t
<1> HIDE DEF both
<1>2. ASSUME NEW i \in DOMAIN both
      PROVE  \/ i \in DOMAIN s /\ both[i] = s[i]
             \/ i - Len(s) \in DOMAIN t /\ both[i] = t[i - Len(s)] /\ i \in Int
  BY <1>1, <1>2 DEF both
<1>3. /\ \A i \in DOMAIN s : i \in DOMAIN both /\ both[i] = s[i]
      /\ \A i \in DOMAIN t : i + Len(s) \in DOMAIN both /\ both[i + Len(s)] = t[i]
  BY <1>1 DEF both
<1>4. Items(both) = Items(s) \cup Items(t)
  BY <1>2, <1>3 DEF Items
<1>5. ASSUME NEW i \in DOMAIN both, NEW j \in DOMAIN both, both[i] = both[j]  PROVE  i = j
  <2>1. CASE i \in DOMAIN s /\ both[i] = s[i]
    <3>1. j \in DOMAIN s /\ both[j] = s[j]
      BY <1>2, <1>5, <2>1 DEF Items
    <3>2. QED
      BY <1>5, <2>1, <3>1 DEF Distinct
  <2>2. CASE i - Len(s) \in DOMAIN t /\ both[i] = t[i - Len(s)] /\ i \in Int
    <3>1. j - Len(s) \in DOMAIN t /\ both[j] = t[j - Len(s)] /\ j \in Int
      <4>1. both[j] \in Items(t)
        BY <1>5, <2>2 DEF Items
      <4>2. ~(j \in DOMAIN s /\ both[j] = s[j])
        BY <4>1 DEF Items
      <4>3. QED
        BY <1>2, <4>2
    <3>2. i - Len(s) = j - Len(s)
      BY <1>5, <2>2, <3>1 DEF Distinct
    <3>3. QED
      BY <1>1, <2>2, <3>1, <3>2
  <2>3. QED
    BY <1>2, <2>1, <2>2
<1>6. QED
  BY <1>1, <1>4, <1>5 DEF both, Distinct

-------------------------------------------------------------------------------
(* Arrangements.                                                           *)

\* A sequence is one of the items it has, and they are finitely many.
LEMMA ItemsOfSeq ==
  ASSUME NEW X, NEW s \in Seq(X)
  PROVE  s \in Seq(Items(s)) /\ Items(s) \subseteq X /\ IsFiniteSet(Items(s))
<1>1. Len(s) \in Nat /\ DOMAIN s = 1..Len(s) /\ s \in [1..Len(s) -> X]
  OBVIOUS
<1>2. s \in [1..Len(s) -> Items(s)]
  BY <1>1 DEF Items
<1>3. s \in Seq(Items(s))
  BY <1>1, <1>2
<1>4. Items(s) \subseteq X
  BY <1>1 DEF Items
<1>5. s \in Surjection(1..Len(s), Items(s))
  BY <1>1, <1>2 DEF Surjection, Items
<1>6. IsFiniteSet(1..Len(s))
  BY <1>1, FS_Interval
<1>7. QED
  BY <1>3, <1>4, <1>5, <1>6, FS_Surjection

\* An arrangement names every item, and none twice.
LEMMA ArrangementsDistinct ==
  ASSUME NEW S, IsFiniteSet(S), NEW s
  PROVE  s \in Arrangements(S) <=> s \in Seq(S) /\ Distinct(s) /\ Items(s) = S
<1>1. Cardinality(S) \in Nat
  BY FS_CardinalityType
<1>2. ASSUME s \in Arrangements(S)
      PROVE  s \in Seq(S) /\ Distinct(s) /\ Items(s) = S
  <2>1. s \in [1..Cardinality(S) -> S] /\ Items(s) = S
    BY <1>2 DEF Arrangements
  <2>2. s \in Seq(S)
    BY <1>1, <2>1
  <2>3. s \in Surjection(1..Cardinality(S), S)
    BY <2>1 DEF Surjection, Items
  <2>4. IsFiniteSet(1..Cardinality(S)) /\ Cardinality(1..Cardinality(S)) = Cardinality(S)
    BY <1>1, FS_Interval
  <2>5. s \in Injection(1..Cardinality(S), S)
    BY <2>3, <2>4, FS_SurjSameCardinalityImpliesInj
  <2>6. Distinct(s)
    <3>1. \A a, b \in 1..Cardinality(S) : s[a] = s[b] => a = b
      BY <2>5, Fun_InjectionProperties
    <3>2. DOMAIN s = 1..Cardinality(S)
      BY <2>1
    <3>3. QED
      BY <3>1, <3>2 DEF Distinct
  <2>7. QED
    BY <2>1, <2>2, <2>6
<1>3. ASSUME s \in Seq(S), Distinct(s), Items(s) = S
      PROVE  s \in Arrangements(S)
  <2>1. Len(s) \in Nat /\ DOMAIN s = 1..Len(s) /\ s \in [1..Len(s) -> S]
    BY <1>3
  <2>2. s \in Bijection(1..Len(s), S)
    <3>1. \A a, b \in 1..Len(s) : s[a] = s[b] => a = b
      BY <1>3, <2>1 DEF Distinct
    <3>2. \A x \in S : \E a \in 1..Len(s) : s[a] = x
      BY <1>3, <2>1 DEF Items
    <3>3. QED
      BY <2>1, <3>1, <3>2, Fun_IsBij
  <2>3. ExistsBijection(1..Len(s), S)
    BY <2>2 DEF ExistsBijection
  <2>4. Cardinality(S) = Len(s)
    BY <2>1, <2>3, FS_CountingElements
  <2>5. QED
    BY <1>3, <2>1, <2>4 DEF Arrangements
<1>4. QED
  BY <1>2, <1>3

\* A partial arrangement names no item twice.
LEMMA PartialDistinct ==
  ASSUME NEW S, IsFiniteSet(S), NEW s
  PROVE  s \in Partial(S) <=> s \in Seq(S) /\ Distinct(s)
<1>1. ASSUME s \in Partial(S)  PROVE  s \in Seq(S) /\ Distinct(s)
  <2>1. PICK T \in SUBSET S : s \in Arrangements(T)
    BY <1>1 DEF Partial
  <2>2. IsFiniteSet(T)
    BY FS_Subset
  <2>3. s \in Seq(T) /\ Distinct(s)
    BY <2>1, <2>2, ArrangementsDistinct
  <2>4. QED
    BY <2>3, SeqMonotonic
<1>2. ASSUME s \in Seq(S), Distinct(s)  PROVE  s \in Partial(S)
  <2>1. Items(s) \in SUBSET S /\ s \in Seq(Items(s))
    BY <1>2, ItemsOfSeq
  <2>2. IsFiniteSet(Items(s))
    BY <2>1, FS_Subset
  <2>3. s \in Arrangements(Items(s))
    BY <1>2, <2>1, <2>2, ArrangementsDistinct
  <2>4. QED
    BY <2>1, <2>3 DEF Partial
<1>3. QED
  BY <1>1, <1>2

\* What is shown of an order.
LEMMA ArrangedComplete ==
  ASSUME NEW X, NEW default \in Seq(X), Distinct(default), NEW saved \in Seq(X), Distinct(saved)
  PROVE  Arranged(default, saved) \in Arrangements(Items(default))
<1> DEFINE first == Kept(saved, Items(default))
           rest == Kept(default, Items(default) \ Items(saved))
<1>1. /\ first \in Seq(X) /\ Distinct(first) /\ Items(first) = Items(saved) \cap Items(default)
      /\ rest \in Seq(X) /\ Distinct(rest)
      /\ Items(rest) = Items(default) \cap (Items(default) \ Items(saved))
  BY KeptProperties
<1> DEFINE both == first \o rest
<1> HIDE DEF first, rest
<1>2. both \in Seq(X) /\ Distinct(both) /\ Items(both) = Items(first) \cup Items(rest)
  <2>1. Items(first) \cap Items(rest) = {}
    BY <1>1
  <2>2. QED
    BY <1>1, <2>1, ConcatDistinct
<1> HIDE DEF both
<1>3. Items(both) = Items(default)
  BY <1>1, <1>2
<1>4. both \in Seq(Items(default))
  BY <1>2, <1>3, ItemsOfSeq
<1>5. IsFiniteSet(Items(default))
  BY ItemsOfSeq
<1>6. both \in Arrangements(Items(default))
  BY <1>2, <1>3, <1>4, <1>5, ArrangementsDistinct
<1>7. QED
  BY <1>6 DEF Arranged, both, first, rest

\* A complete order is shown as it is.
LEMMA ArrangedIdle ==
  ASSUME NEW X, NEW default \in Seq(X), Distinct(default),
         NEW saved \in Arrangements(Items(default))
  PROVE  Arranged(default, saved) = saved
<1>1. saved \in Seq(Items(default)) /\ Distinct(saved) /\ Items(saved) = Items(default)
  BY ItemsOfSeq, ArrangementsDistinct
<1>2. Kept(saved, Items(default)) = saved
  BY <1>1, KeptProperties
<1>3. Kept(default, Items(default) \ Items(saved)) = <<>>
  BY <1>1, KeptProperties
<1>4. QED
  BY <1>1, <1>2, <1>3, ConcatEmptySeq DEF Arranged

-------------------------------------------------------------------------------
(* The order that process_orders keeps.                                     *)

\* x comes before y.
Precedes(seq, x, y) == \E i, j \in DOMAIN seq : i < j /\ seq[i] = x /\ seq[j] = y

\* A new item comes after the others, whose order stays.
LEMMA AppendPrecedes ==
  ASSUME NEW X, NEW seq \in Seq(X), NEW x \in X, NEW y \in Items(seq)
  PROVE  /\ Precedes(Append(seq, x), y, x)
         /\ \A z : Precedes(seq, z, y) => Precedes(Append(seq, x), z, y)
<1>1. /\ Append(seq, x) \in Seq(X)
      /\ \A i \in DOMAIN seq : Append(seq, x)[i] = seq[i] /\ i \in DOMAIN Append(seq, x)
                               /\ i < Len(seq) + 1
      /\ Append(seq, x)[Len(seq) + 1] = x /\ Len(seq) + 1 \in DOMAIN Append(seq, x)
  OBVIOUS
<1>2. QED
  BY <1>1, Zenon DEF Precedes, Items

\* Keeping some items keeps their order.
LEMMA KeptPrecedes ==
  ASSUME NEW X, NEW seq \in Seq(X), Distinct(seq), NEW S, NEW x \in S, NEW y \in S,
         Precedes(seq, x, y)
  PROVE  Precedes(Kept(seq, S), x, y)
<1>1. Len(seq) \in Nat /\ DOMAIN seq = 1..Len(seq) /\ \A i \in 1..Len(seq) : seq[i] \in X
  OBVIOUS
<1>2. PICK f : /\ Kept(seq, S) = f[Len(seq)]
               /\ f[0] = <<>>
               /\ \A k \in 1..Len(seq) :
                    f[k] = IF seq[k] \in S THEN Append(f[k - 1], seq[k]) ELSE f[k - 1]
  BY <1>1, KeptUnfolds
<1> DEFINE Good(n) == /\ f[n] \in Seq(X)
                      /\ \A i \in 1..n : seq[i] \in S => seq[i] \in Items(f[n])
                      /\ \A i, j \in 1..n : i < j /\ seq[i] \in S /\ seq[j] \in S
                           => Precedes(f[n], seq[i], seq[j])
           T == {n \in Nat : n <= Len(seq) => Good(n)}
<1>3. 0 \in T
  <2>1. f[0] \in Seq(X) /\ 1..0 = {}
    BY <1>2
  <2>2. Good(0)
    BY <2>1
  <2> HIDE DEF Good
  <2>3. QED
    BY <2>2
<1>4. ASSUME NEW n \in Nat, n \in T  PROVE  n + 1 \in T
  <2>1. SUFFICES ASSUME n + 1 <= Len(seq)  PROVE  Good(n + 1)
    OBVIOUS
  <2>2. n + 1 \in 1..Len(seq) /\ seq[n + 1] \in X
    BY <1>1, <2>1
  <2>3. Good(n)
    BY <1>1, <1>4, <2>2
  <2>4. f[n + 1] = IF seq[n + 1] \in S THEN Append(f[n], seq[n + 1]) ELSE f[n]
    BY <1>2, <2>2
  <2>5. \A i \in 1..(n + 1) : i \in 1..n \/ i = n + 1
    OBVIOUS
  <2>6. CASE seq[n + 1] \in S
    <3>1. f[n + 1] = Append(f[n], seq[n + 1])
      BY <2>4, <2>6
    <3>2. /\ f[n + 1] \in Seq(X) /\ Items(f[n + 1]) = Items(f[n]) \cup {seq[n + 1]}
          /\ \A z \in Items(f[n]) : Precedes(f[n + 1], z, seq[n + 1])
          /\ \A z \in Items(f[n]) : \A w : Precedes(f[n], w, z) => Precedes(f[n + 1], w, z)
      BY <2>2, <2>3, <3>1, AppendItem, AppendPrecedes
    <3>3. ASSUME NEW i \in 1..(n + 1), NEW j \in 1..(n + 1), i < j, seq[i] \in S, seq[j] \in S
          PROVE  Precedes(f[n + 1], seq[i], seq[j])
      <4>1. i \in 1..n
        BY <3>3
      <4>2. CASE j \in 1..n
        BY <2>3, <3>2, <3>3, <4>1, <4>2
      <4>3. CASE j = n + 1
        BY <2>3, <3>2, <3>3, <4>1, <4>3
      <4>4. QED
        BY <2>5, <4>2, <4>3
    <3>4. \A i \in 1..(n + 1) : seq[i] \in S => seq[i] \in Items(f[n + 1])
      BY <2>3, <2>5, <3>2
    <3>5. QED
      BY <3>2, <3>3, <3>4
  <2>7. CASE seq[n + 1] \notin S
    <3>1. f[n + 1] = f[n]
      BY <2>4, <2>7
    <3>2. QED
      BY <2>3, <2>5, <2>7, <3>1
  <2>8. QED
    BY <2>6, <2>7
<1>5. Len(seq) \in T
  BY <1>1, <1>3, <1>4, NatInductive
<1>6. \A i, j \in DOMAIN seq : i < j /\ seq[i] \in S /\ seq[j] \in S
        => Precedes(Kept(seq, S), seq[i], seq[j])
  <2>1. Good(Len(seq))
    BY <1>1, <1>5
  <2>2. QED
    BY <1>1, <1>2, <2>1
<1>7. QED
  BY <1>6 DEF Precedes

\* Everything in s comes before everything in t.
LEMMA ConcatPrecedes ==
  ASSUME NEW X, NEW s \in Seq(X), NEW t \in Seq(X), NEW x, NEW y
  PROVE  /\ Precedes(s, x, y) => Precedes(s \o t, x, y)
         /\ Precedes(t, x, y) => Precedes(s \o t, x, y)
         /\ x \in Items(s) /\ y \in Items(t) => Precedes(s \o t, x, y)
<1>1. /\ Len(s) \in Nat /\ Len(t) \in Nat
      /\ DOMAIN s = 1..Len(s) /\ DOMAIN t = 1..Len(t) /\ DOMAIN (s \o t) = 1..(Len(s) + Len(t))
      /\ \A i \in 1..(Len(s) + Len(t)) :
           (s \o t)[i] = IF i <= Len(s) THEN s[i] ELSE t[i - Len(s)]
  BY ConcatProperties
<1> DEFINE both == s \o t
<1>2. \A i \in DOMAIN s : i \in DOMAIN both /\ both[i] = s[i]
  BY <1>1
<1>3. \A j \in DOMAIN t : Len(s) + j \in DOMAIN both /\ both[Len(s) + j] = t[j]
  BY <1>1
<1>4. /\ \A i \in DOMAIN s : \A j \in DOMAIN t : i < Len(s) + j
      /\ \A i, j \in DOMAIN t : i < j => Len(s) + i < Len(s) + j
  BY <1>1
<1> HIDE DEF both
<1>5. Precedes(s, x, y) => Precedes(both, x, y)
  BY <1>2, Zenon DEF Precedes
<1>6. Precedes(t, x, y) => Precedes(both, x, y)
  BY <1>3, <1>4, Zenon DEF Precedes
<1>7. x \in Items(s) /\ y \in Items(t) => Precedes(both, x, y)
  BY <1>2, <1>3, <1>4, Zenon DEF Precedes, Items
<1>8. QED
  BY <1>5, <1>6, <1>7 DEF both

\* process_orders, whatever was saved: every field that is configured is shown, and
\* none twice; those that the saved order names come first, as they are there; the others
\* come in the configured order; and what is shown can be saved without a change.
THEOREM ProcessOrders ==
  ASSUME NEW X, NEW default \in Seq(X), Distinct(default), NEW saved \in Seq(X), Distinct(saved)
  PROVE  /\ Arranged(default, saved) \in Arrangements(Items(default))
         /\ Arranged(default, Arranged(default, saved)) = Arranged(default, saved)
         /\ \A x, y \in Items(default) :
              \/ Precedes(saved, x, y)
              \/ x \in Items(saved) /\ y \notin Items(saved)
              \/ x \notin Items(saved) /\ y \notin Items(saved) /\ Precedes(default, x, y)
              => Precedes(Arranged(default, saved), x, y)
<1> DEFINE first == Kept(saved, Items(default))
           rest == Kept(default, Items(default) \ Items(saved))
<1>1. /\ first \in Seq(X) /\ Items(first) = Items(saved) \cap Items(default)
      /\ rest \in Seq(X) /\ Items(rest) = Items(default) \cap (Items(default) \ Items(saved))
  BY KeptProperties
<1>2. Arranged(default, saved) = first \o rest
  BY DEF Arranged
<1> HIDE DEF first, rest
<1>3. ASSUME NEW x \in Items(default), NEW y \in Items(default), Precedes(saved, x, y)
      PROVE  Precedes(Arranged(default, saved), x, y)
  <2>1. Precedes(first, x, y)
    BY <1>3, KeptPrecedes DEF first
  <2>2. QED
    BY <1>1, <1>2, <2>1, ConcatPrecedes
<1>4. ASSUME NEW x \in Items(default), NEW y \in Items(default),
             x \in Items(saved), y \notin Items(saved)
      PROVE  Precedes(Arranged(default, saved), x, y)
  BY <1>1, <1>2, <1>4, ConcatPrecedes
<1>5. ASSUME NEW x \in Items(default), NEW y \in Items(default),
             x \notin Items(saved), y \notin Items(saved), Precedes(default, x, y)
      PROVE  Precedes(Arranged(default, saved), x, y)
  <2>1. Precedes(rest, x, y)
    BY <1>5, KeptPrecedes DEF rest
  <2>2. QED
    BY <1>1, <1>2, <2>1, ConcatPrecedes
<1>6. QED
  BY <1>3, <1>4, <1>5, ArrangedComplete, ArrangedIdle

-------------------------------------------------------------------------------
(* The types.                                                              *)

\* What a row may hold of a part, and what an edit page shows of it.
Values ==
  [part \in Parts |-> CASE part \in Columns -> Partial(Items(Fields[part]) \cup Retired)
                        [] part = "order" -> Orders
                        [] part = "works" -> SUBSET Works
                        [] part = "style" -> Styles]

Displayed ==
  [part \in Parts |-> CASE part \in Columns -> Arrangements(Items(Fields[part]))
                        [] part = "order" -> [order : Arrangements(Items(Headings)),
                                              hidden : SUBSET Items(Headings)]
                        [] OTHER -> Values[part]]

Shown(part, value) ==
  CASE part \in Columns -> Arranged(Fields[part], value)
    [] part = "order" -> [value EXCEPT !.order = Arranged(Headings, @)]
    [] OTHER -> value

IsDisplay(shown) == IsRow(shown) /\ \A part \in Parts : shown[part] \in Displayed[part]

Shows(tab) ==
  /\ tab = [open |-> TRUE, shown |-> tab.shown, asked |-> tab.asked, handlers |-> tab.handlers]
  /\ tab.asked \in BOOLEAN /\ tab.handlers \in 0..MaxHandlers
  /\ IsDisplay(tab.shown)

\* A request that is under way, or answered.
Proper(r) ==
  /\ Formed(r)
  /\ r.kind \in {"save", "list", "form", "other"}
  /\ r.page \in Pages \cup {None}
  /\ IF r.at = "sent" THEN r.copy = None ELSE r.copy \in Row
  /\ r.part # None => r.value \in Displayed[r.part]
  /\ r.kind = "other" <=> r.part = None
  /\ r.kind = "list" => r.part = "style"
  /\ r.at = "answered" => r.kind = "list"

TInv ==
  /\ env \in Environments
  /\ row \in Row
  /\ page = [p \in Pages |-> page[p]]
  /\ \A p \in Pages : page[p] = Closed \/ Shows(page[p])
  /\ request = [q \in Requests |-> request[q]]
  /\ \A q \in Requests : request[q] = Free \/ Proper(request[q])
  /\ render # Free => render.panel \in Panels
  /\ cached # None => cached.panel \in Panels
  /\ wanted = [part \in Parts |-> wanted[part]]
  /\ \A part \in Parts : wanted[part] = None \/ wanted[part] \in Values[part]

\* A row is its parts.
LEMMA RowParts ==
  ASSUME NEW r
  PROVE  r \in Row <=> IsRow(r) /\ \A part \in Parts : r[part] \in Values[part]
<1>1. /\ Values["left"] = Partial(Items(Fields["left"]) \cup Retired)
      /\ Values["right"] = Partial(Items(Fields["right"]) \cup Retired)
      /\ Values["order"] = Orders /\ Values["works"] = SUBSET Works /\ Values["style"] = Styles
  BY DEF Values, Parts, Columns
<1> DEFINE Of(part) == r[part] \in Values[part]
<1>2. ASSUME r \in Row  PROVE  IsRow(r) /\ \A part \in Parts : r[part] \in Values[part]
  <2>1. IsRow(r)
    BY <1>2 DEF Row, IsRow, Parts, Columns
  <2>2. /\ r["left"] \in Values["left"] /\ r["right"] \in Values["right"]
        /\ r["order"] \in Values["order"] /\ r["works"] \in Values["works"]
        /\ r["style"] \in Values["style"]
    BY <1>1, <1>2 DEF Row
  <2>3. QED
    BY <2>1, <2>2 DEF Parts, Columns
<1>3. ASSUME IsRow(r), \A part \in Parts : r[part] \in Values[part]  PROVE  r \in Row
  <2>1. r = [left |-> r.left, right |-> r.right, order |-> r.order, works |-> r.works,
             style |-> r.style]
    BY <1>3 DEF IsRow, Parts, Columns
  <2>2. /\ r["left"] \in Values["left"] /\ r["right"] \in Values["right"]
        /\ r["order"] \in Values["order"] /\ r["works"] \in Values["works"]
        /\ r["style"] \in Values["style"]
    BY <1>3 DEF Parts, Columns
  <2>3. QED
    BY <1>1, <2>1, <2>2 DEF Row
<1>4. QED
  BY <1>2, <1>3

\* A row with another value of one part.
LEMMA RowWith ==
  ASSUME NEW r \in Row, NEW part \in Parts, NEW value
  PROVE  /\ [r EXCEPT ![part] = value] \in Row <=> value \in Values[part]
         /\ [r EXCEPT ![part] = value][part] = value
         /\ \A other \in Parts \ {part} : [r EXCEPT ![part] = value][other] = r[other]
<1>1. IsRow(r) /\ \A x \in Parts : r[x] \in Values[x]
  BY RowParts
<1> DEFINE s == [r EXCEPT ![part] = value]
<1>2. s[part] = value /\ (\A other \in Parts \ {part} : s[other] = r[other]) /\ IsRow(s)
  BY <1>1 DEF IsRow
<1>3. s \in Row <=> \A x \in Parts : s[x] \in Values[x]
  BY <1>2, RowParts
<1> HIDE DEF s
<1>4. s \in Row <=> value \in Values[part]
  BY <1>1, <1>2, <1>3
<1>5. QED
  BY <1>2, <1>4 DEF s

\* The configured orders are finite and distinct.
LEMMA Configured ==
  ASSUME NEW default \in {Fields["left"], Fields["right"], Headings}
  PROVE  /\ default \in Seq(Items(default)) /\ Distinct(default)
         /\ IsFiniteSet(Items(default)) /\ IsFiniteSet(Items(default) \cup Retired)
<1>1. default \in Seq(Items(default)) /\ default \in Arrangements(Items(default))
  BY ConfigurationAssumption
<1>2. IsFiniteSet(Items(default))
  BY <1>1, ItemsOfSeq
<1>3. Distinct(default)
  BY <1>1, <1>2, ArrangementsDistinct
<1>4. IsFiniteSet(Items(default) \cup Retired)
  BY <1>2, ConfigurationAssumption, FS_Union
<1>5. QED
  BY <1>1, <1>2, <1>3, <1>4

\* What is shown of an order that was saved, whatever else it names.
LEMMA ArrangedDisplayed ==
  ASSUME NEW default \in {Fields["left"], Fields["right"], Headings},
         NEW more, more \in {{}, Retired}, NEW saved \in Partial(Items(default) \cup more)
  PROVE  Arranged(default, saved) \in Arrangements(Items(default))
<1> DEFINE X == Items(default) \cup more
<1>1. IsFiniteSet(X)
  BY Configured
<1>2. saved \in Seq(X) /\ Distinct(saved)
  BY <1>1, PartialDistinct
<1>3. default \in Seq(X) /\ Distinct(default)
  BY Configured, SeqMonotonic
<1>4. QED
  BY <1>2, <1>3, ArrangedComplete

\* What is displayed can be saved.
LEMMA DisplayedAreValues ==
  ASSUME NEW part \in Parts
  PROVE  Displayed[part] \subseteq Values[part]
<1>1. CASE part \in Columns
  <2>1. Displayed[part] = Arrangements(Items(Fields[part]))
        /\ Values[part] = Partial(Items(Fields[part]) \cup Retired)
    BY <1>1 DEF Displayed, Values, Parts, Columns
  <2>2. QED
    BY <2>1 DEF Partial
<1>2. CASE part = "order"
  <2>1. /\ Displayed[part] = [order : Arrangements(Items(Headings)),
                              hidden : SUBSET Items(Headings)]
        /\ Values[part] = Orders
    BY <1>2 DEF Displayed, Values, Parts, Columns
  <2>2. Arrangements(Items(Headings)) \subseteq Partial(Items(Headings))
    BY DEF Partial
  <2>3. QED
    BY <2>1, <2>2 DEF Orders
<1>3. CASE part \in {"works", "style"}
  BY <1>3 DEF Displayed, Values, Parts, Columns
<1>4. QED
  BY <1>1, <1>2, <1>3 DEF Parts

\* What is saved of a part is displayed, and what is displayed stays as it is.
LEMMA ShownDisplayed ==
  ASSUME NEW part \in Parts, NEW value \in Values[part]
  PROVE  Shown(part, value) \in Displayed[part]
<1>1. CASE part \in Columns
  <2>1. /\ Displayed[part] = Arrangements(Items(Fields[part]))
        /\ Values[part] = Partial(Items(Fields[part]) \cup Retired)
        /\ Shown(part, value) = Arranged(Fields[part], value)
    BY <1>1 DEF Displayed, Values, Shown, Parts, Columns
  <2>2. Fields[part] \in {Fields["left"], Fields["right"], Headings}
    BY <1>1 DEF Columns
  <2>3. QED
    BY <2>1, <2>2, ArrangedDisplayed
<1>2. CASE part = "order"
  <2>1. /\ Displayed[part] = [order : Arrangements(Items(Headings)),
                              hidden : SUBSET Items(Headings)]
        /\ Values[part] = Orders
        /\ Shown(part, value) = [value EXCEPT !.order = Arranged(Headings, value.order)]
    BY <1>2 DEF Displayed, Values, Shown, Parts, Columns
  <2>2. value = [order |-> value.order, hidden |-> value.hidden]
        /\ value.order \in Partial(Items(Headings) \cup {}) /\ value.hidden \in SUBSET Items(Headings)
    BY <2>1 DEF Orders
  <2>3. Arranged(Headings, value.order) \in Arrangements(Items(Headings))
    BY <2>2, ArrangedDisplayed
  <2>4. Shown(part, value) = [order |-> Arranged(Headings, value.order), hidden |-> value.hidden]
    BY <2>1, <2>2
  <2>5. QED
    BY <2>1, <2>2, <2>3, <2>4
<1>3. CASE part \in {"works", "style"}
  BY <1>3 DEF Displayed, Shown, Parts, Columns
<1>4. QED
  BY <1>1, <1>2, <1>3 DEF Parts

\* What is displayed is shown as it is.
LEMMA DisplayedShown ==
  ASSUME NEW part \in Parts, NEW value \in Displayed[part]
  PROVE  Shown(part, value) = value
<1>1. CASE part \in Columns
  <2>1. /\ value \in Arrangements(Items(Fields[part]))
        /\ Shown(part, value) = Arranged(Fields[part], value)
    BY <1>1 DEF Displayed, Shown, Parts, Columns
  <2>2. Fields[part] \in {Fields["left"], Fields["right"], Headings}
    BY <1>1 DEF Columns
  <2>3. QED
    BY <2>1, <2>2, Configured, ArrangedIdle
<1>2. CASE part = "order"
  <2>1. /\ value \in [order : Arrangements(Items(Headings)), hidden : SUBSET Items(Headings)]
        /\ Shown(part, value) = [value EXCEPT !.order = Arranged(Headings, value.order)]
    BY <1>2 DEF Displayed, Shown, Parts, Columns
  <2>2. Arranged(Headings, value.order) = value.order
    BY <2>1, Configured, ArrangedIdle
  <2>3. QED
    BY <2>1, <2>2
<1>3. CASE part \in {"works", "style"}
  BY <1>3 DEF Shown, Parts, Columns
<1>4. QED
  BY <1>1, <1>2, <1>3 DEF Parts

\* A page shows each part of a row.
LEMMA ViewParts ==
  ASSUME NEW r \in Row
  PROVE  /\ IsDisplay(View(r))
         /\ \A part \in Parts : View(r)[part] = Shown(part, r[part])
<1>1. PICK l, m, o, w, s : r = [left |-> l, right |-> m, order |-> o, works |-> w, style |-> s]
  BY Zenon DEF Row
<1>2. View(r) = [left |-> Arranged(Fields["left"], l), right |-> Arranged(Fields["right"], m),
                 order |-> [o EXCEPT !.order = Arranged(Headings, o.order)],
                 works |-> w, style |-> s]
  <2>1. View(r) = [r EXCEPT !.left = Arranged(Fields["left"], l),
                            !.right = Arranged(Fields["right"], m),
                            !.order = [o EXCEPT !.order = Arranged(Headings, @)]]
    BY <1>1 DEF View
  <2>2. ASSUME NEW x, NEW y, NEW z, View(r) = [r EXCEPT !.left = x, !.right = y, !.order = z]
        PROVE  View(r) = [left |-> x, right |-> y, order |-> z, works |-> w, style |-> s]
    BY <1>1, <2>2
  <2>3. QED
    BY <2>1, <2>2
<1>3. \A part \in Parts : View(r)[part] = Shown(part, r[part])
  BY <1>1, <1>2 DEF Shown, Parts, Columns
<1>4. IsRow(View(r))
  BY <1>2 DEF IsRow, Parts, Columns
<1>5. \A part \in Parts : r[part] \in Values[part]
  BY RowParts
<1>6. QED
  BY <1>3, <1>4, <1>5, ShownDisplayed DEF IsDisplay

\* What a page shows could be a row.
LEMMA DisplayIsRow ==
  ASSUME NEW shown, IsDisplay(shown)
  PROVE  shown \in Row
  BY RowParts, DisplayedAreValues DEF IsDisplay

\* The list that visitors see of a row.
LEMMA PanelTyped ==
  ASSUME NEW r \in Row
  PROVE  Panel(r) \in Panels
<1>1. r.order \in Orders /\ r.style \in Styles
  BY DEF Row
<1>2. r.order.order \in Partial(Items(Headings) \cup {})
  BY <1>1 DEF Orders
<1>3. Arranged(Headings, r.order.order) \in Arrangements(Items(Headings))
  BY <1>2, ArrangedDisplayed
<1>4. {w \in Works : w \notin r.works /\ TypeOf[w] \notin r.order.hidden} \in SUBSET Works
  OBVIOUS
<1>5. QED
  BY <1>1, <1>3, <1>4 DEF Panel, Panels

-------------------------------------------------------------------------------
(* Types: the actions.                                                     *)

\* Every open tab shows something.
LEMMA OpenShows ==
  ASSUME TInv, NEW p \in Pages, page[p].open
  PROVE  Shows(page[p])
  BY DEF TInv, Closed

\* The tabs that show something.
LEMMA ShowsFields ==
  ASSUME NEW shown, NEW asked, NEW handlers
  PROVE  Shows([open |-> TRUE, shown |-> shown, asked |-> asked, handlers |-> handlers])
           <=> IsDisplay(shown) /\ asked \in BOOLEAN /\ handlers \in 0..MaxHandlers
  BY DEF Shows

LEMMA ShowsAlso ==
  ASSUME NEW tab, Shows(tab), NEW asked \in BOOLEAN, NEW handlers \in 0..MaxHandlers
  PROVE  /\ Shows([tab EXCEPT !.asked = asked]) /\ [tab EXCEPT !.asked = asked].shown = tab.shown
         /\ Shows([tab EXCEPT !.handlers = handlers])
         /\ [tab EXCEPT !.handlers = handlers].shown = tab.shown
         /\ [tab EXCEPT !.handlers = handlers].asked = tab.asked
<1>1. PICK o, s, a, h :
        tab = [open |-> o, shown |-> s, asked |-> a, handlers |-> h]
  BY DEF Shows
<1>2. o = TRUE /\ IsDisplay(s) /\ a \in BOOLEAN /\ h \in 0..MaxHandlers
  BY <1>1 DEF Shows
<1>3. [tab EXCEPT !.asked = asked] = [open |-> o, shown |-> s, asked |-> asked, handlers |-> h]
      /\ [tab EXCEPT !.handlers = handlers]
           = [open |-> o, shown |-> s, asked |-> a, handlers |-> handlers]
  BY <1>1
<1>4. QED
  BY <1>1, <1>2, <1>3, ShowsFields

\* Initially the types are right.
LEMMA InitTyped == Init => TInv
<1>1. SUFFICES ASSUME Init  PROVE  TInv
  OBVIOUS
<1>2. [order |-> <<>>, hidden |-> {}] \in Orders
  <2>1. IsFiniteSet(Items(Headings)) /\ <<>> \in Seq(Items(Headings)) /\ Distinct(<<>>)
    BY Configured DEF Distinct
  <2>2. QED
    BY <2>1, PartialDistinct DEF Orders
<1>3. row \in Row
  BY <1>1, <1>2 DEF Init, Row
<1>4. wanted = [part \in Parts |-> wanted[part]]
      /\ \A part \in Parts : wanted[part] \in Values[part]
  BY <1>1, <1>3, RowParts DEF Init, IsRow
<1>5. QED
  BY <1>1, <1>3, <1>4 DEF Init, TInv

\* Steps of a tab that send nothing.
LEMMA TabTyped ==
  ASSUME TInv, NEW p, NEW tab, tab = Closed \/ Shows(tab),
         page' = [page EXCEPT ![p] = tab], UNCHANGED <<env, row, request, render, cached, wanted>>
  PROVE  TInv'
<1>1. page' = [x \in Pages |-> page'[x]]
      /\ \A x \in Pages : page'[x] = Closed \/ Shows(page'[x])
  BY DEF TInv
<1>2. QED
  BY <1>1 DEF TInv

\* Steps that send requests.
LEMMA PostTyped ==
  ASSUME TInv, NEW p \in Pages, NEW kind \in {"save", "list", "form"}, NEW part \in Parts,
         kind = "list" => part = "style",
         NEW value \in Displayed[part], NEW k, Post(p, kind, part, value, k),
         page' = [x \in Pages |-> page'[x]],
         \A x \in Pages : page'[x] = Closed \/ Shows(page'[x])
  PROVE  TInv'
<1> DEFINE slots == FirstFree(k)
           new == [at |-> "sent", kind |-> kind, page |-> p, part |-> part,
                   value |-> value, copy |-> None]
<1>1. /\ request' = [q \in Requests |-> IF q \in slots THEN new ELSE request[q]]
      /\ wanted' = [wanted EXCEPT ![part] = IF Pending(part) THEN None ELSE value]
      /\ UNCHANGED <<env, row, render, cached>>
  BY DEF Post
<1>2. Proper(new)
  BY NoneAssumption DEF Proper, Formed
<1> HIDE DEF slots, new
<1>3. \A q \in Requests : request'[q] = Free \/ Proper(request'[q])
  BY <1>1, <1>2 DEF TInv
<1>4. value \in Values[part]
  BY DisplayedAreValues
<1>5. wanted' = [x \in Parts |-> wanted'[x]]
      /\ \A x \in Parts : wanted'[x] = None \/ wanted'[x] \in Values[x]
  BY <1>1, <1>4 DEF TInv
<1>6. request' = [q \in Requests |-> request'[q]]
  BY <1>1
<1>7. QED
  BY <1>1, <1>3, <1>5, <1>6 DEF TInv

\* A tab that shows another value of a part.
Changed(tab, part, value) == [tab EXCEPT !.shown[part] = value]

LEMMA ShowsChanged ==
  ASSUME NEW tab, Shows(tab), NEW part \in Parts, NEW value \in Displayed[part]
  PROVE  /\ Shows(Changed(tab, part, value))
         /\ Changed(tab, part, value).open = tab.open
         /\ Changed(tab, part, value).asked = tab.asked
         /\ Changed(tab, part, value).shown[part] = value
         /\ \A x \in Parts \ {part} : Changed(tab, part, value).shown[x] = tab.shown[x]
<1>1. PICK open, shown, asked, handlers :
        tab = [open |-> open, shown |-> shown, asked |-> asked, handlers |-> handlers]
  BY DEF Shows
<1> DEFINE new == [shown EXCEPT ![part] = value]
<1>2. Changed(tab, part, value)
        = [open |-> open, shown |-> new, asked |-> asked, handlers |-> handlers]
  <2>1. Changed(tab, part, value) = [tab EXCEPT !.shown = new]
    BY <1>1 DEF Changed
  <2> HIDE DEF new
  <2>2. QED
    BY <1>1, <2>1
<1>3. open = TRUE /\ IsDisplay(shown) /\ asked \in BOOLEAN /\ handlers \in 0..MaxHandlers
  BY <1>1 DEF Shows
<1>4. new[part] = value /\ (\A x \in Parts \ {part} : new[x] = shown[x]) /\ IsRow(new)
  BY <1>3 DEF IsDisplay, IsRow
<1> HIDE DEF new
<1>5. IsDisplay(new)
  BY <1>3, <1>4 DEF IsDisplay
<1>6. Shows(Changed(tab, part, value))
  BY <1>2, <1>3, <1>5, ShowsFields
<1>7. /\ Changed(tab, part, value).open = tab.open /\ Changed(tab, part, value).asked = tab.asked
      /\ Changed(tab, part, value).shown = new /\ tab.shown = shown
  BY <1>1, <1>2
<1>8. QED
  BY <1>4, <1>6, <1>7

LEMMA ChangeTyped ==
  ASSUME TInv, NEW p \in Pages, NEW part \in Parts, NEW value \in Displayed[part], NEW k,
         Change(p, part, value, k)
  PROVE  TInv'
<1>1. Shows(page[p])
  BY OpenShows DEF Change, MayAct
<1> DEFINE tab == Changed(page[p], part, value)
<1>2. Shows(tab)
  BY <1>1, ShowsChanged
<1>3. page' = [page EXCEPT ![p] = tab]
  BY DEF Change, Changed
<1> HIDE DEF tab
<1>4. page' = [x \in Pages |-> page'[x]]
      /\ \A x \in Pages : page'[x] = Closed \/ Shows(page'[x])
  BY <1>2, <1>3 DEF TInv
<1>5. QED
  BY <1>4, PostTyped DEF Change

\* What a drag or a click makes of what is shown can be shown.
LEMMA DragFieldDisplayed ==
  ASSUME NEW c \in Columns, NEW a \in Arrangements(Items(Fields[c]))
  PROVE  c \in Parts /\ a \in Displayed[c]
  BY DEF Displayed, Parts, Columns

LEMMA OrderDisplayed ==
  ASSUME NEW value
  PROVE  value \in Displayed["order"] <=>
           /\ value = [order |-> value.order, hidden |-> value.hidden]
           /\ value.order \in Arrangements(Items(Headings))
           /\ value.hidden \in SUBSET Items(Headings)
<1>1. Displayed["order"] = [order : Arrangements(Items(Headings)), hidden : SUBSET Items(Headings)]
  BY DEF Displayed, Parts, Columns
<1>2. QED
  BY <1>1

LEMMA OthersDisplayed ==
  Displayed["works"] = SUBSET Works /\ Displayed["style"] = Styles
  BY DEF Displayed, Values, Parts, Columns

\* A drag of a heading, and a click, are changes to what can be displayed.
LEMMA DragHeadingSends ==
  ASSUME TInv, NEW p \in Pages, NEW a \in Arrangements(Items(Headings)), DragHeading(p, a)
  PROVE  \E value \in Displayed["order"] : \E k :
           k # 0 /\ "order" \in Parts /\ Change(p, "order", value, k)
<1> DEFINE old == page[p].shown.order
           value == [old EXCEPT !.order = a]
<1>1. Shows(page[p])
  BY OpenShows DEF DragHeading, Change, MayAct
<1>2. old \in Displayed["order"]
  BY <1>1 DEF Shows, IsDisplay, Parts
<1>3. Change(p, "order", value, 1)
  BY DEF DragHeading
<1> HIDE DEF old
<1>4. value \in Displayed["order"]
  BY <1>2, OrderDisplayed
<1> HIDE DEF value
<1>5. 1 # 0 /\ "order" \in Parts
  BY DEF Parts
<1>6. QED
  BY <1>3, <1>4, <1>5

LEMMA ClickHeadingSends ==
  ASSUME TInv, NEW p \in Pages, NEW h \in Items(Headings), ClickHeading(p, h)
  PROVE  \E value \in Displayed["order"] : \E k :
           k # 0 /\ "order" \in Parts /\ Change(p, "order", value, k)
<1> DEFINE old == page[p].shown.order
           hides == IF h \in old.hidden THEN old.hidden \ {h} ELSE old.hidden \cup {h}
           value == [old EXCEPT !.hidden = hides]
<1>1. Shows(page[p]) /\ page[p].handlers > 0
  BY OpenShows DEF ClickHeading, Change, MayAct
<1>2. old \in Displayed["order"]
  BY <1>1 DEF Shows, IsDisplay, Parts
<1>3. Change(p, "order", value, page[p].handlers)
  BY DEF ClickHeading
<1> HIDE DEF old
<1>4. hides \in SUBSET Items(Headings)
  BY <1>2, OrderDisplayed
<1> HIDE DEF hides
<1>5. value \in Displayed["order"]
  BY <1>2, <1>4, OrderDisplayed
<1> HIDE DEF value
<1>6. page[p].handlers # 0 /\ "order" \in Parts
  BY <1>1 DEF Parts
<1>7. QED
  BY <1>3, <1>5, <1>6

LEMMA ClickWorkSends ==
  ASSUME TInv, NEW p \in Pages, NEW w \in Works, ClickWork(p, w)
  PROVE  \E value \in Displayed["works"] : \E k :
           k # 0 /\ "works" \in Parts /\ Change(p, "works", value, k)
<1> DEFINE old == page[p].shown.works
           value == IF w \in old THEN old \ {w} ELSE old \cup {w}
<1>1. Shows(page[p]) /\ page[p].handlers > 0
  BY OpenShows DEF ClickWork, MayAct
<1>2. old \in SUBSET Works
  BY <1>1, OthersDisplayed DEF Shows, IsDisplay, Parts
<1>3. Change(p, "works", value, page[p].handlers)
  BY DEF ClickWork
<1> HIDE DEF old
<1>4. value \in Displayed["works"]
  BY <1>2, OthersDisplayed
<1> HIDE DEF value
<1>5. page[p].handlers # 0 /\ "works" \in Parts
  BY <1>1 DEF Parts
<1>6. QED
  BY <1>3, <1>4, <1>5

LEMMA ChooseStyleTyped ==
  ASSUME TInv, NEW p \in Pages, NEW style \in Styles, ChooseStyle(p, style)
  PROVE  TInv'
<1>1. Shows(page[p])
  BY OpenShows DEF ChooseStyle, MayAct
<1> DEFINE tab == Changed(page[p], "style", style)
<1>2. style \in Displayed["style"]
  BY OthersDisplayed
<1>3. Shows(tab)
  BY <1>1, <1>2, ShowsChanged DEF Parts
<1>4. page' = [page EXCEPT ![p] = tab]
  BY DEF ChooseStyle, Changed
<1> HIDE DEF tab
<1>5. page' = [x \in Pages |-> page'[x]]
      /\ \A x \in Pages : page'[x] = Closed \/ Shows(page'[x])
  BY <1>3, <1>4 DEF TInv
<1>6. QED
  BY <1>2, <1>5, PostTyped DEF ChooseStyle, Parts

LEMMA SubmitTyped ==
  ASSUME TInv, NEW p \in Pages, Submit(p)
  PROVE  TInv'
<1>1. Shows(page[p])
  BY OpenShows DEF Submit, MayAct
<1>2. page[p].shown.style \in Displayed["style"]
  BY <1>1 DEF Shows, IsDisplay, Parts
<1>3. page' = [x \in Pages |-> page'[x]]
      /\ \A x \in Pages : page'[x] = Closed \/ Shows(page'[x])
  BY DEF Submit, TInv
<1>4. QED
  BY <1>2, <1>3, PostTyped DEF Submit, Parts

LEMMA AskTyped ==
  ASSUME TInv, NEW p \in Pages, AskForList(p)
  PROVE  TInv'
<1>1. Shows(page[p])
  BY OpenShows DEF AskForList
<1>2. page[p].shown.style \in Displayed["style"]
  BY <1>1 DEF Shows, IsDisplay, Parts
<1> DEFINE tab == [page[p] EXCEPT !.asked = TRUE]
<1>3. Shows(tab)
  <2>1. page[p].handlers \in 0..MaxHandlers
    BY <1>1 DEF Shows
  <2>2. QED
    BY <1>1, <2>1, ShowsAlso
<1>4. page' = [page EXCEPT ![p] = tab]
  BY DEF AskForList
<1> HIDE DEF tab
<1>5. page' = [x \in Pages |-> page'[x]]
      /\ \A x \in Pages : page'[x] = Closed \/ Shows(page'[x])
  BY <1>3, <1>4 DEF TInv
<1>6. QED
  BY <1>2, <1>5, PostTyped DEF AskForList, Parts

LEMMA OpenTyped ==
  ASSUME TInv, NEW p \in Pages, Open(p)
  PROVE  TInv'
<1> DEFINE tab == [open |-> TRUE, asked |-> FALSE, handlers |-> 0, shown |-> View(row)]
<1>1. IsDisplay(View(row))
  BY ViewParts DEF TInv
<1>2. Shows(tab)
  BY <1>1, BoundsAssumption DEF Shows
<1>3. page' = [page EXCEPT ![p] = tab]
  BY DEF Open
<1> HIDE DEF tab
<1>4. QED
  BY <1>2, <1>3, TabTyped DEF Open

LEMMA SwapTyped ==
  ASSUME TInv, NEW p \in Pages, Swap(p)
  PROVE  TInv'
<1> DEFINE tab == [page[p] EXCEPT !.handlers = page[p].handlers + 1]
<1>1. Shows(page[p])
  BY OpenShows DEF Swap
<1>2. page[p].handlers \in 1..(MaxHandlers - 1) /\ page' = [page EXCEPT ![p] = tab]
  BY DEF Swap
<1>3. Shows(tab)
  <2>1. page[p].handlers + 1 \in 0..MaxHandlers
    BY <1>2, BoundsAssumption
  <2>2. QED
    BY <1>1, <2>1, ShowsAlso
<1> HIDE DEF tab
<1>4. QED
  BY <1>2, <1>3, TabTyped DEF Swap

LEMMA OrphanTyped ==
  ASSUME TInv, NEW p, NEW q \in Requests
  PROVE  Orphaned(p)[q] = Free \/ Proper(Orphaned(p)[q])
<1>1. CASE request[q] = Free \/ request[q].page # p
  BY <1>1 DEF Orphaned, TInv
<1>2. CASE request[q] # Free /\ request[q].page = p /\ UnderWay(q)
  <2>1. Orphaned(p)[q] = [request[q] EXCEPT !.page = None]
    BY <1>2 DEF Orphaned
  <2>2. Proper(request[q])
    BY <1>2 DEF TInv
  <2>3. QED
    BY <1>2, <2>1, <2>2 DEF Proper, Formed
<1>3. CASE request[q] # Free /\ request[q].page = p /\ ~UnderWay(q)
  BY <1>3 DEF Orphaned
<1>4. QED
  BY <1>1, <1>2, <1>3

LEMMA LeaveTyped ==
  ASSUME TInv, NEW p \in Pages, Leave(p)
  PROVE  TInv'
<1>1. request' = Orphaned(p) /\ page' = [page EXCEPT ![p] = Closed]
  BY DEF Leave
<1>2. request' = [q \in Requests |-> request'[q]]
  BY <1>1 DEF Orphaned
<1>3. \A q \in Requests : request'[q] = Free \/ Proper(request'[q])
  BY <1>1, OrphanTyped
<1>4. QED
  BY <1>1, <1>2, <1>3 DEF TInv, Leave

\* Steps of a request, whatever else they write.
LEMMA RequestTyped ==
  ASSUME TInv, NEW new, new = Free \/ Proper(new), NEW q, request' = [request EXCEPT ![q] = new]
  PROVE  /\ request' = [r \in Requests |-> request'[r]]
         /\ \A r \in Requests : request'[r] = Free \/ Proper(request'[r])
  BY DEF TInv

LEMMA LoadTyped ==
  ASSUME TInv, NEW q \in Requests, Load(q) \/ Other(q)
  PROVE  TInv'
<1>1. CASE Load(q)
  <2> DEFINE new == [at |-> "loaded", kind |-> request[q].kind, page |-> request[q].page,
                     part |-> request[q].part, value |-> request[q].value, copy |-> row]
  <2>1. Proper(request[q]) /\ request[q].at = "sent"
    BY <1>1 DEF Load, TInv, Free
  <2>2. request'[q] = new
    BY <1>1, <2>1 DEF Load, TInv, Proper, Formed
  <2>3. request' = [request EXCEPT ![q] = new]
    <3>1. request' = [request EXCEPT ![q] = request'[q]]
      BY <1>1 DEF Load, TInv
    <3>2. QED
      BY <2>2, <3>1
  <2>4. row \in Row /\ IsRow(row)
    BY RowParts DEF TInv
  <2>5. Proper(new)
    BY <2>1, <2>4 DEF Proper, Formed
  <2> HIDE DEF new
  <2>6. QED
    BY <1>1, <2>3, <2>5, RequestTyped DEF Load, TInv
<1>2. CASE Other(q)
  <2> DEFINE new == [at |-> "loaded", kind |-> "other", page |-> None, part |-> None,
                     value |-> None, copy |-> row]
  <2>1. request' = [request EXCEPT ![q] = new]
    BY <1>2 DEF Other
  <2>2. Proper(new)
    BY RowParts DEF TInv, Proper, Formed
  <2> HIDE DEF new
  <2>3. QED
    BY <1>2, <2>1, <2>2, RequestTyped DEF Other, TInv
<1>3. QED
  BY <1>1, <1>2

LEMMA LoseTyped ==
  ASSUME TInv, NEW q \in Requests, Lose(q)
  PROVE  TInv'
<1>1. request' = [request EXCEPT ![q] = Free]
      /\ wanted' = [part \in Parts |-> IF part = request[q].part THEN None ELSE wanted[part]]
  BY DEF Lose
<1>2. wanted' = [x \in Parts |-> wanted'[x]]
      /\ \A x \in Parts : wanted'[x] = None \/ wanted'[x] \in Values[x]
  BY <1>1 DEF TInv
<1>3. QED
  BY <1>1, <1>2, RequestTyped DEF Lose, TInv

\* What is saved is a row.
LEMMA SavedTyped ==
  ASSUME TInv, NEW q \in Requests, request[q].at = "loaded"
  PROVE  Saved(q) \in Row
<1>1. Proper(request[q])
  BY DEF TInv, Free
<1>2. request[q].copy \in Row
  BY <1>1 DEF Proper
<1>3. CASE request[q].part = None
  BY <1>2, <1>3 DEF Saved
<1>4. CASE request[q].part # None
  <2>1. request[q].part \in Parts /\ request[q].value \in Values[request[q].part]
    BY <1>1, <1>4, DisplayedAreValues DEF Proper, Formed
  <2>2. QED
    BY <1>2, <1>4, <2>1, RowWith DEF Saved
<1>5. QED
  BY <1>3, <1>4

LEMMA StoreTyped ==
  ASSUME TInv, NEW q \in Requests, request[q].at = "loaded", Store(q),
         request' = [r \in Requests |-> request'[r]],
         \A r \in Requests : request'[r] = Free \/ Proper(request'[r]),
         page' = [x \in Pages |-> page'[x]],
         \A x \in Pages : page'[x] = Closed \/ Shows(page'[x])
  PROVE  TInv'
<1>1. row' \in Row
  BY SavedTyped DEF Store
<1>2. wanted' = [x \in Parts |-> wanted'[x]]
      /\ \A x \in Parts : wanted'[x] = None \/ wanted'[x] \in Values[x]
  BY DEF Store, TInv
<1>3. QED
  BY <1>1, <1>2 DEF Store, TInv

LEMMA SaveTyped ==
  ASSUME TInv, NEW q \in Requests, Save(q) \/ SaveAndList(q) \/ SaveForm(q)
  PROVE  TInv'
<1>1. request[q].at = "loaded" /\ Store(q)
  BY DEF Save, SaveAndList, SaveForm
<1>2. Proper(request[q])
  BY <1>1 DEF TInv, Free
<1>3. CASE Save(q) \/ (SaveForm(q) /\ request[q].page = None)
  <2>1. request' = [request EXCEPT ![q] = Free] /\ page' = page
    BY <1>3 DEF Save, SaveForm
  <2>2. /\ request' = [r \in Requests |-> request'[r]]
        /\ \A r \in Requests : request'[r] = Free \/ Proper(request'[r])
    BY <2>1, RequestTyped
  <2>3. QED
    BY <1>1, <2>1, <2>2, StoreTyped DEF TInv
<1>4. CASE SaveAndList(q)
  <2>1. request' = [request EXCEPT ![q] = Answer(q)] /\ page' = page
    BY <1>4 DEF SaveAndList
  <2>2. Answer(q) = Free \/ Proper(Answer(q))
    <3>1. CASE request[q].page = None
      BY <3>1 DEF Answer
    <3>2. CASE request[q].page # None
      <4>1. /\ Saved(q) \in Row /\ request[q].page \in Pages
            /\ request[q].value \in Displayed["style"]
        BY <1>1, <1>2, <1>4, <3>2, SavedTyped, NoneAssumption DEF Proper, SaveAndList, Parts
      <4>2. QED
        BY <1>2, <3>2, <4>1, NoneAssumption DEF Answer, Proper, Formed, Parts
    <3>3. QED
      BY <3>1, <3>2
  <2>3. /\ request' = [r \in Requests |-> request'[r]]
        /\ \A r \in Requests : request'[r] = Free \/ Proper(request'[r])
    BY <2>1, <2>2, RequestTyped
  <2>4. QED
    BY <1>1, <2>1, <2>3, StoreTyped DEF TInv
<1>5. CASE SaveForm(q) /\ request[q].page # None
  <2> DEFINE p == request[q].page
  <2>1. request' = [Orphaned(p) EXCEPT ![q] = Free] /\ page' = [page EXCEPT ![p] = Closed]
    BY <1>5 DEF SaveForm
  <2>2. request' = [r \in Requests |-> IF r = q THEN Free ELSE Orphaned(p)[r]]
    BY <2>1 DEF Orphaned
  <2>3. \A r \in Requests : request'[r] = Free \/ Proper(request'[r])
    BY <2>2, OrphanTyped
  <2>4. page' = [x \in Pages |-> page'[x]]
        /\ \A x \in Pages : page'[x] = Closed \/ Shows(page'[x])
    BY <2>1 DEF TInv
  <2>5. QED
    BY <1>1, <2>2, <2>3, <2>4, StoreTyped
<1>6. QED
  BY <1>3, <1>4, <1>5

\* What a list shows of the row that was saved.
Listed(tab, k, copy) ==
  [tab EXCEPT !.handlers = k, !.shown.order = View(copy).order, !.shown.works = copy.works]

LEMMA ListedShows ==
  ASSUME NEW tab, NEW k \in 1..MaxHandlers, NEW copy \in Row
  PROVE  /\ tab = Closed => Listed(tab, k, copy) = Closed
         /\ Shows(tab) =>
              /\ Shows(Listed(tab, k, copy))
              /\ Listed(tab, k, copy).asked = tab.asked
              /\ Listed(tab, k, copy).shown["order"] = Shown("order", copy["order"])
              /\ Listed(tab, k, copy).shown["works"] = Shown("works", copy["works"])
              /\ \A part \in Parts \ {"order", "works"} :
                   Listed(tab, k, copy).shown[part] = tab.shown[part]
<1>1. CASE tab = Closed
  BY <1>1 DEF Listed, Closed, Shows
<1>2. ASSUME Shows(tab)
      PROVE  /\ Shows(Listed(tab, k, copy))
             /\ Listed(tab, k, copy).asked = tab.asked
             /\ Listed(tab, k, copy).shown["order"] = Shown("order", copy["order"])
             /\ Listed(tab, k, copy).shown["works"] = Shown("works", copy["works"])
             /\ \A part \in Parts \ {"order", "works"} :
                  Listed(tab, k, copy).shown[part] = tab.shown[part]
  <2>1. PICK open, shown, asked, handlers :
          tab = [open |-> open, shown |-> shown, asked |-> asked, handlers |-> handlers]
    BY <1>2 DEF Shows
  <2>2. open = TRUE /\ IsDisplay(shown) /\ asked \in BOOLEAN
    BY <1>2, <2>1 DEF Shows
  <2>3. View(copy)["order"] = Shown("order", copy["order"])
        /\ copy["works"] = Shown("works", copy["works"])
        /\ View(copy)["order"] \in Displayed["order"] /\ copy["works"] \in Displayed["works"]
    <3>1. \A part \in Parts : copy[part] \in Values[part]
      BY RowParts
    <3>2. View(copy)["order"] = Shown("order", copy["order"])
      BY ViewParts DEF Parts
    <3>3. copy["works"] = Shown("works", copy["works"])
      BY DEF Shown, Columns
    <3>4. QED
      BY <3>1, <3>2, <3>3, ShownDisplayed DEF Parts
  <2> DEFINE new == [shown EXCEPT !.order = View(copy).order, !.works = copy.works]
  <2>4. Listed(tab, k, copy)
          = [open |-> open, shown |-> new, asked |-> asked, handlers |-> k]
    <3>1. Listed(tab, k, copy) = [tab EXCEPT !.shown = new, !.handlers = k]
      BY <2>1 DEF Listed
    <3> HIDE DEF new
    <3>2. QED
      BY <2>1, <3>1
  <2>5. /\ IsRow(new) /\ new["order"] = View(copy)["order"] /\ new["works"] = copy["works"]
        /\ \A part \in Parts \ {"order", "works"} : new[part] = shown[part]
    BY <2>2 DEF IsDisplay, IsRow, Parts
  <2> HIDE DEF new
  <2>6. IsDisplay(new)
    BY <2>2, <2>3, <2>5 DEF IsDisplay
  <2>7. k \in 0..MaxHandlers
    BY BoundsAssumption
  <2>8. Shows(Listed(tab, k, copy))
    BY <2>1, <2>2, <2>4, <2>6, <2>7, ShowsFields
  <2>9. QED
    BY <2>1, <2>3, <2>4, <2>5, <2>8
<1>3. QED
  BY <1>1, <1>2

LEMMA ShowTyped ==
  ASSUME TInv, NEW q \in Requests, ShowList(q)
  PROVE  TInv'
<1>1. Proper(request[q]) /\ request[q].at = "answered"
  BY DEF ShowList, TInv, Free
<1>2. request[q].copy \in Row
  BY <1>1 DEF Proper
<1>3. PICK k \in 1..MaxHandlers :
        page' = [page EXCEPT ![request[q].page]
                   = Listed(page[request[q].page], k, request[q].copy)]
  BY DEF ShowList, Listed
<1>4. page' = [x \in Pages |-> page'[x]]
      /\ \A x \in Pages : page'[x] = Closed \/ Shows(page'[x])
  BY <1>2, <1>3, ListedShows DEF TInv
<1>5. request' = [request EXCEPT ![q] = Free]
  BY DEF ShowList
<1>6. QED
  BY <1>4, <1>5, RequestTyped DEF ShowList, TInv

LEMMA PageStepTyped ==
  ASSUME TInv, PageStep
  PROVE  TInv'
<1>1. PICK p \in Pages :
        \/ Open(p) \/ AskForList(p) \/ Swap(p) \/ Submit(p) \/ Leave(p)
        \/ \E c \in Columns : \E a \in Arrangements(Items(Fields[c])) : DragField(p, c, a)
        \/ \E a \in Arrangements(Items(Headings)) : DragHeading(p, a)
        \/ \E h \in Items(Headings) : ClickHeading(p, h)
        \/ \E w \in Works : ClickWork(p, w)
        \/ \E style \in Styles : ChooseStyle(p, style)
  BY DEF PageStep
<1>2. ASSUME NEW c \in Columns, NEW a \in Arrangements(Items(Fields[c])), DragField(p, c, a)
      PROVE  TInv'
  BY <1>2, DragFieldDisplayed, ChangeTyped DEF DragField
<1>3. ASSUME NEW a \in Arrangements(Items(Headings)), DragHeading(p, a)  PROVE  TInv'
  BY <1>3, DragHeadingSends, ChangeTyped
<1>4. ASSUME NEW h \in Items(Headings), ClickHeading(p, h)  PROVE  TInv'
  BY <1>4, ClickHeadingSends, ChangeTyped
<1>5. ASSUME NEW w \in Works, ClickWork(p, w)  PROVE  TInv'
  BY <1>5, ClickWorkSends, ChangeTyped
<1>6. QED
  BY <1>1, <1>2, <1>3, <1>4, <1>5, OpenTyped, AskTyped, SwapTyped, SubmitTyped, LeaveTyped,
     ChooseStyleTyped

LEMMA VisitorStepTyped ==
  ASSUME TInv, Recent, VisitorStep
  PROVE  TInv'
<1>1. CASE StartRender
  BY <1>1, PanelTyped DEF StartRender, TInv
<1>2. CASE Fill
  BY <1>2 DEF Fill, TInv
<1>3. CASE RenderFails
  BY <1>3 DEF RenderFails, TInv
<1>4. CASE Tick
  <2>1. render' # Free => render # Free /\ render'.panel = render.panel
    <3>1. CASE render = Free
      BY <1>4, <3>1 DEF Tick
    <3>2. CASE render # Free
      <4>1. render' = [Passed(render) EXCEPT !.age = @ + 1]
        BY <1>4, <3>2 DEF Tick
      <4>2. render = [at |-> "works", panel |-> render.panel, age |-> render.age,
                      past |-> render.past]
        BY <3>2 DEF Recent
      <4>3. render'.panel = render.panel
        BY <4>1, <4>2 DEF Passed
      <4>4. QED
        BY <3>2, <4>3
    <3>3. QED
      BY <3>1, <3>2
  <2>2. cached' # None => cached # None /\ cached'.panel = cached.panel
    <3>1. CASE cached = None \/ cached.age = TTL
      BY <1>4, <3>1 DEF Tick, Aged
    <3>2. CASE cached # None /\ cached.age # TTL
      <4>1. cached' = [Passed(cached) EXCEPT !.age = @ + 1]
        BY <1>4, <3>2 DEF Tick, Aged
      <4>2. cached = [panel |-> cached.panel, age |-> cached.age, past |-> cached.past]
        BY <3>2 DEF Recent
      <4>3. cached'.panel = cached.panel
        BY <4>1, <4>2 DEF Passed
      <4>4. QED
        BY <3>2, <4>3
    <3>3. QED
      BY <3>1, <3>2
  <2>3. QED
    BY <1>4, <2>1, <2>2 DEF Tick, TInv
<1>5. QED
  BY <1>1, <1>2, <1>3, <1>4 DEF VisitorStep

\* Every step keeps the types.
LEMMA NextTyped ==
  ASSUME TInv, Recent, [Next]_vars
  PROVE  TInv'
<1>1. CASE RequestStep
  BY <1>1, LoadTyped, LoseTyped, SaveTyped, ShowTyped DEF RequestStep
<1>2. CASE UNCHANGED vars
  BY <1>2 DEF vars, TInv
<1>3. QED
  BY <1>1, <1>2, PageStepTyped, VisitorStepTyped DEF Next

\* What the invariant says is what TypeOK says, and more.
LEMMA TypedOK ==
  ASSUME TInv, Recent
  PROVE  TypeOK
<1>1. row \in Row /\ \A part \in Parts : row[part] \in Values[part]
  BY RowParts DEF TInv
<1>2. ASSUME NEW p \in Pages  PROVE  page[p] = Closed \/ page[p] \in Page
  <2>1. CASE Shows(page[p])
    <3>1. page[p].shown \in Row
      BY <2>1, DisplayIsRow DEF Shows
    <3>2. PICK o, s, a, h :
            page[p] = [open |-> o, shown |-> s, asked |-> a, handlers |-> h]
      BY <2>1 DEF Shows
    <3>3. o \in {TRUE} /\ s \in Row /\ a \in BOOLEAN /\ h \in 0..MaxHandlers
      <4>1. o = page[p].open /\ s = page[p].shown /\ a = page[p].asked /\ h = page[p].handlers
        BY <3>2
      <4>2. page[p].open = TRUE
        BY <2>1 DEF Shows
      <4>3. page[p].asked \in BOOLEAN /\ page[p].handlers \in 0..MaxHandlers
        BY <2>1, Zenon DEF Shows
      <4>4. QED
        BY <3>1, <4>1, <4>2, <4>3, Zenon
    <3>4. [open |-> o, shown |-> s, asked |-> a, handlers |-> h] \in Page
      BY <3>3 DEF Page
    <3>5. QED
      BY <3>2, <3>4
  <2>2. QED
    BY <2>1 DEF TInv
<1>3. page \in [Pages -> {Closed} \cup Page]
  BY <1>2 DEF TInv
<1>4. ASSUME NEW p \in Pages, page[p].open
      PROVE  /\ \A c \in Columns : page[p].shown[c] \in Arrangements(Items(Fields[c]))
             /\ page[p].shown.order.order \in Arrangements(Items(Headings))
  <2>1. IsDisplay(page[p].shown)
    BY <1>4, OpenShows DEF Shows
  <2>2. \A c \in Columns : Displayed[c] = Arrangements(Items(Fields[c]))
    BY DEF Displayed, Parts, Columns
  <2>3. page[p].shown["order"] \in Displayed["order"]
    BY <2>1 DEF IsDisplay, Parts
  <2>4. QED
    BY <2>1, <2>2, <2>3, OrderDisplayed DEF IsDisplay, Parts
<1>5. ASSUME NEW q \in Requests  PROVE  request[q] = Free \/ IsRequest(request[q])
  <2>1. ASSUME Proper(request[q]), request[q].part # None
        PROVE  [row EXCEPT ![request[q].part] = request[q].value] \in Row
    <3>1. request[q].part \in Parts /\ request[q].value \in Values[request[q].part]
      BY <2>1, DisplayedAreValues DEF Proper, Formed
    <3>2. QED
      BY <1>1, <3>1, RowWith
  <2>2. Proper(request[q]) => IsRequest(request[q])
    BY <2>1 DEF Proper, Formed, IsRequest
  <2>3. QED
    BY <2>2 DEF TInv
<1>6. render \in {Free} \cup [at : {"works"}, panel : Panels, age : 0..MaxRender, past : 0..Long]
  <2>1. CASE render # Free
    <3>1. /\ render = [at |-> "works", panel |-> render.panel, age |-> render.age,
                       past |-> render.past]
          /\ render.age \in 0..MaxRender /\ render.past \in 0..render.age /\ render.panel \in Panels
      BY <2>1 DEF TInv, Recent
    <3>2. render.past \in 0..Long
      BY <3>1, BoundsAssumption DEF Long
    <3>3. QED
      BY <3>1, <3>2
  <2>2. QED
    BY <2>1
<1>7. cached \in {None} \cup [panel : Panels, age : 0..TTL, past : 0..Long]
  <2>1. CASE cached # None
    <3>1. /\ cached = [panel |-> cached.panel, age |-> cached.age, past |-> cached.past]
          /\ cached.age \in 0..TTL /\ cached.past \in 0..(cached.age + MaxRender)
          /\ cached.panel \in Panels
      BY <2>1 DEF TInv, Recent
    <3>2. cached.past \in 0..Long
      BY <3>1, BoundsAssumption DEF Long
    <3>3. QED
      BY <3>1, <3>2
  <2>2. QED
    BY <2>1
<1>8. ASSUME NEW part \in Parts
      PROVE  wanted[part] = None \/ [row EXCEPT ![part] = wanted[part]] \in Row
  BY <1>1, RowWith DEF TInv
<1>9. env \in Environments /\ DOMAIN wanted = Parts
  BY DEF TInv
<1>10. QED
  BY <1>1, <1>3, <1>4, <1>5, <1>6, <1>7, <1>8, <1>9 DEF TypeOK

\* Whatever the page sends and the views save (save_profile_order, save_works_order,
\* works_deposits_edit and the form), the row holds orders of known fields and headings,
\* every request names a part and a value that can be saved, and every open page shows
\* each configured field and heading exactly once.
THEOREM TypeCorrect == Spec => []TypeOK
<1>1. Init => TInv /\ Recent
  BY InitTyped DEF Init, Recent
<1>2. TInv /\ Recent /\ [Next]_vars => (TInv /\ Recent)'
  BY NextTyped, RecentKept
<1>3. TInv /\ Recent => TypeOK
  BY TypedOK
<1>4. QED
  BY <1>1, <1>2, <1>3, PTL DEF Spec

-------------------------------------------------------------------------------
(* The patient member.                                                     *)

\* What the only tab shows of a part, unless a request for it is under way.
Agrees(p, part) == Pending(part) \/ page[p].shown[part] = Shown(part, row[part])

\* The requests are those of one change, and what they have loaded is the row but for that.
Attended(p, q) ==
  /\ request[q].page = p /\ page[p].open /\ page[p].asked
  /\ request[q].part \in Parts /\ request[q].value = page[p].shown[request[q].part]
  /\ \A r \in Requests : request[r] # Free =>
       request[r].part = request[q].part /\ (request[q].kind = "save" \/ r = q)
  /\ request[q].at = "loaded" =>
       \A part \in Parts \ {request[q].part} : request[q].copy[part] = row[part]
  /\ request[q].at = "answered" => request[q].copy = row

Watches(p) ==
  /\ \A other \in Pages : page[other].open => other = p
  /\ page[p].open => \A part \in Parts : Agrees(p, part)
  /\ \A q \in Requests : request[q] # Free => Attended(p, q)

Patient(p) == env.pages = {p} /\ ~env.flaky /\ ~env.others /\ ~env.hasty

PInv == \A p \in Pages : Patient(p) => Watches(p)

\* Requests that are not free have a part, and are all of one change.
LEMMA OneChange ==
  ASSUME NEW p, Watches(p), NEW q \in Requests, request[q] # Free, NEW part \in Parts,
         part # request[q].part
  PROVE  ~Pending(part)
<1>1. \A r \in Requests : request[r] # Free => request[r].part = request[q].part
  BY DEF Watches, Attended
<1>2. QED
  BY <1>1, FreeIsIdle DEF Pending

\* The first of the free requests is one.
LEMMA FirstIsOne ==
  ASSUME NEW q \in FirstFree(1), NEW r \in FirstFree(1)
  PROVE  q = r
<1> DEFINE free == {x \in Requests : request[x] = Free}
<1>1. ASSUME NEW y \in FirstFree(1), NEW x \in free  PROVE  ~(x < y)
  <2> DEFINE before == {other \in free : other < y}
  <2>1. y \in free /\ Cardinality(before) < 1
    BY DEF FirstFree
  <2>2. before \subseteq Nat /\ y \in Nat /\ \A b \in before : b <= y
    <3>1. free \subseteq Nat
      BY BoundsAssumption
    <3>2. before \subseteq free /\ \A b \in before : b < y
      OBVIOUS
    <3> HIDE DEF free, before
    <3>3. QED
      BY <2>1, <3>1, <3>2
  <2> HIDE DEF before
  <2>3. IsFiniteSet(before)
    BY <2>2, FS_BoundedSetOfNaturals
  <2>4. Cardinality(before) = 0
    BY <2>1, <2>3, FS_CardinalityType
  <2>5. before = {}
    BY <2>3, <2>4, FS_EmptySet
  <2>6. QED
    BY <1>1, <2>5 DEF before
<1>2. q \in free /\ r \in free
  BY DEF FirstFree
<1>3. q \in Nat /\ r \in Nat
  BY <1>2, BoundsAssumption
<1>4. ~(q < r) /\ ~(r < q)
  BY <1>1, <1>2
<1>5. QED
  BY <1>3, <1>4

\* The patient member sends what a change shows when nothing is under way.
LEMMA PatientPost ==
  ASSUME NEW p \in Pages, Watches(p), page[p].open, \A q \in Requests : request[q] = Free,
         NEW kind, NEW part \in Parts, NEW value, NEW k, k # 0,
         kind = "save" \/ k = 1, Post(p, kind, part, value, k),
         \A other \in Pages \ {p} : page'[other] = page[other],
         page'[p].open, page'[p].asked, page'[p].shown[part] = value,
         \A x \in Parts \ {part} : page'[p].shown[x] = page[p].shown[x]
  PROVE  Watches(p)'
<1> DEFINE slots == FirstFree(k)
           new == [at |-> "sent", kind |-> kind, page |-> p, part |-> part,
                   value |-> value, copy |-> None]
<1>1. request' = [q \in Requests |-> IF q \in slots THEN new ELSE request[q]]
      /\ row' = row /\ Cardinality(slots) = k
  BY DEF Post
<1>2. slots \subseteq Requests
  BY DEF FirstFree
<1>3. slots # {}
  BY <1>1, FS_EmptySet
<1>4. kind = "save" \/ \A q, r \in slots : q = r
  BY FirstIsOne
<1>5. /\ new.at = "sent" /\ new.kind = kind /\ new.page = p /\ new.part = part
      /\ new.value = value /\ new # Free
  BY DEF Free
<1> HIDE DEF slots, new
<1>6. \A q \in Requests : request'[q] # Free => q \in slots /\ request'[q] = new
  BY <1>1
<1>7. Pending(part)'
  BY <1>1, <1>2, <1>3, <1>5 DEF Pending, UnderWay
<1>8. \A x \in Parts \ {part} : page[p].shown[x] = Shown(x, row[x])
  BY FreeIsIdle DEF Watches, Agrees, Pending
<1>9. \A x \in Parts : Agrees(p, x)'
  BY <1>1, <1>7, <1>8 DEF Agrees
<1>10. ASSUME NEW q \in Requests, request'[q] # Free  PROVE  Attended(p, q)'
  <2>1. /\ request'[q].at = "sent" /\ request'[q].page = p /\ request'[q].part = part
        /\ request'[q].value = value /\ request'[q].kind = kind
    BY <1>5, <1>6, <1>10
  <2>2. \A r \in Requests : request'[r] # Free =>
          request'[r].part = part /\ (kind = "save" \/ r = q)
    BY <1>4, <1>5, <1>6, <1>10
  <2>3. QED
    BY <2>1, <2>2 DEF Attended
<1>11. \A other \in Pages : page'[other].open => other = p
  BY DEF Watches
<1>12. QED
  BY <1>9, <1>10, <1>11 DEF Watches

\* The patient member goes on when nothing is under way.
LEMMA PatientIdle ==
  ASSUME NEW p, Patient(p), Watches(p), MayGoOn(p) \/ ~page[p].open \/ ~page[p].asked
  PROVE  \A q \in Requests : request[q] = Free
  BY DEF Patient, Watches, Attended, MayGoOn

\* The only tab that the member uses.
LEMMA OnlyTab ==
  ASSUME NEW p, Patient(p), Watches(p), NEW x \in Pages, page[x].open \/ Open(x)
  PROVE  x = p
  BY DEF Patient, Watches, Open

LEMMA PatientChange ==
  ASSUME TInv, NEW p \in Pages, Patient(p), Watches(p),
         NEW x \in Pages, NEW part \in Parts, NEW value \in Displayed[part], NEW k, k # 0,
         Change(x, part, value, k)
  PROVE  Watches(p)'
<1>1. page[x].open /\ MayGoOn(x) /\ page[x].asked
  BY DEF Change, MayAct, MayGoOn, Patient
<1>2. x = p
  BY <1>1, OnlyTab
<1>3. \A q \in Requests : request[q] = Free
  BY <1>1, <1>2, PatientIdle
<1> DEFINE tab == Changed(page[p], part, value)
<1>4. Shows(page[p])
  BY <1>1, <1>2, OpenShows
<1>5. /\ tab.open = page[p].open /\ tab.asked = page[p].asked /\ tab.shown[part] = value
      /\ \A y \in Parts \ {part} : tab.shown[y] = page[p].shown[y]
  BY <1>4, ShowsChanged
<1>6. page' = [page EXCEPT ![p] = tab] /\ Post(p, "save", part, value, k)
  BY <1>2 DEF Change, Changed
<1> HIDE DEF tab
<1>7. page'[p] = tab /\ \A other \in Pages \ {p} : page'[other] = page[other]
  BY <1>6 DEF TInv
<1>8. /\ page[p].open /\ page'[p].open /\ page'[p].asked /\ page'[p].shown[part] = value
      /\ \A y \in Parts \ {part} : page'[p].shown[y] = page[p].shown[y]
  BY <1>1, <1>2, <1>5, <1>7, Zenon
<1>9. QED
  BY <1>3, <1>6, <1>7, <1>8, PatientPost, Zenon

LEMMA PatientStyle ==
  ASSUME TInv, NEW p \in Pages, Patient(p), Watches(p),
         NEW x \in Pages, NEW style \in Styles, ChooseStyle(x, style)
  PROVE  Watches(p)'
<1>1. page[x].open /\ MayGoOn(x) /\ page[x].asked
  BY DEF ChooseStyle, MayAct, MayGoOn, Patient
<1>2. x = p
  BY <1>1, OnlyTab
<1>3. \A q \in Requests : request[q] = Free
  BY <1>1, <1>2, PatientIdle
<1> DEFINE tab == Changed(page[p], "style", style)
<1>4. Shows(page[p])
  BY <1>1, <1>2, OpenShows
<1>5. /\ tab.open = page[p].open /\ tab.asked = page[p].asked /\ tab.shown["style"] = style
      /\ \A y \in Parts \ {"style"} : tab.shown[y] = page[p].shown[y]
  <2>1. "style" \in Parts /\ style \in Displayed["style"]
    BY OthersDisplayed DEF Parts
  <2>2. QED
    BY <1>4, <2>1, ShowsChanged
<1>6. page' = [page EXCEPT ![p] = tab] /\ Post(p, "list", "style", style, 1)
  BY <1>2 DEF ChooseStyle, Changed
<1> HIDE DEF tab
<1>7. page'[p] = tab /\ \A other \in Pages \ {p} : page'[other] = page[other]
  BY <1>6 DEF TInv
<1>8. /\ page[p].open /\ page'[p].open /\ page'[p].asked /\ page'[p].shown["style"] = style
      /\ \A y \in Parts \ {"style"} : page'[p].shown[y] = page[p].shown[y]
  BY <1>1, <1>2, <1>5, <1>7, Zenon
<1>9. "style" \in Parts /\ 1 # 0
  BY DEF Parts
<1>10. QED
  BY <1>3, <1>6, <1>7, <1>8, <1>9, PatientPost, Zenon

LEMMA PatientSubmit ==
  ASSUME TInv, NEW p \in Pages, Patient(p), Watches(p), NEW x \in Pages, Submit(x)
  PROVE  Watches(p)'
<1>1. page[x].open /\ MayGoOn(x) /\ page[x].asked
  BY DEF Submit, MayAct, MayGoOn, Patient
<1>2. x = p
  BY <1>1, OnlyTab
<1>3. \A q \in Requests : request[q] = Free
  BY <1>1, <1>2, PatientIdle
<1>4. page' = page /\ Post(p, "form", "style", page[p].shown["style"], 1)
  BY <1>2 DEF Submit
<1>5. QED
  BY <1>1, <1>2, <1>3, <1>4, PatientPost DEF Parts

LEMMA PatientAsk ==
  ASSUME TInv, NEW p \in Pages, Patient(p), Watches(p), NEW x \in Pages, AskForList(x)
  PROVE  Watches(p)'
<1>1. page[x].open /\ ~page[x].asked
  BY DEF AskForList
<1>2. x = p
  BY <1>1, OnlyTab
<1>3. \A q \in Requests : request[q] = Free
  BY <1>1, <1>2, PatientIdle
<1> DEFINE tab == [page[p] EXCEPT !.asked = TRUE]
<1>4. Shows(page[p])
  BY <1>1, <1>2, OpenShows
<1>5. tab.open = page[p].open /\ tab.asked /\ tab.shown = page[p].shown
  BY <1>4 DEF Shows
<1>6. page' = [page EXCEPT ![p] = tab] /\ Post(p, "list", "style", page[p].shown["style"], 1)
  BY <1>2 DEF AskForList
<1> HIDE DEF tab
<1>7. page'[p] = tab /\ \A other \in Pages \ {p} : page'[other] = page[other]
  BY <1>6 DEF TInv
<1>8. /\ page[p].open /\ page'[p].open /\ page'[p].asked /\ page'[p].shown = page[p].shown
  BY <1>1, <1>2, <1>5, <1>7, Zenon
<1>9. "style" \in Parts /\ 1 # 0
  BY DEF Parts
<1>10. page'[p].shown["style"] = page[p].shown["style"]
       /\ \A y \in Parts \ {"style"} : page'[p].shown[y] = page[p].shown[y]
  BY <1>8
<1>11. QED
  BY <1>3, <1>6, <1>7, <1>8, <1>9, <1>10, PatientPost, Zenon

\* Nothing is under way, and the tab shows the row or is closed.
LEMMA Idle ==
  ASSUME NEW p, \A other \in Pages : page'[other].open => other = p,
         \A q \in Requests : request'[q] = Free,
         page'[p].open => \A part \in Parts : page'[p].shown[part] = Shown(part, row'[part])
  PROVE  Watches(p)'
  BY DEF Watches, Agrees

LEMMA PatientOpen ==
  ASSUME TInv, NEW p \in Pages, Patient(p), Watches(p), NEW x \in Pages, Open(x)
  PROVE  Watches(p)'
<1>1. x = p /\ ~page[p].open
  BY OnlyTab DEF Open
<1>2. \A q \in Requests : request'[q] = Free
  BY <1>1, PatientIdle DEF Open
<1>3. page' = [page EXCEPT ![p] = [open |-> TRUE, asked |-> FALSE, handlers |-> 0,
                                   shown |-> View(row)]] /\ row' = row
  BY <1>1 DEF Open
<1>4. page'[p].shown = View(row) /\ \A other \in Pages \ {p} : page'[other] = page[other]
  BY <1>3 DEF TInv
<1>5. \A part \in Parts : View(row)[part] = Shown(part, row[part])
  BY ViewParts DEF TInv
<1>6. QED
  BY <1>2, <1>3, <1>4, <1>5, Idle DEF Watches

LEMMA PatientLeave ==
  ASSUME TInv, NEW p \in Pages, Patient(p), Watches(p), NEW x \in Pages, Leave(x)
  PROVE  Watches(p)'
<1>1. page[x].open /\ MayGoOn(x)
  BY DEF Leave
<1>2. x = p
  BY <1>1, OnlyTab
<1>3. \A q \in Requests : request[q] = Free
  BY <1>1, <1>2, PatientIdle
<1>4. page' = [page EXCEPT ![p] = Closed] /\ request' = Orphaned(p)
  BY <1>2 DEF Leave
<1>5. \A q \in Requests : request'[q] = Free
  BY <1>3, <1>4 DEF Orphaned
<1>6. ~page'[p].open /\ \A other \in Pages \ {p} : page'[other] = page[other]
  BY <1>4 DEF TInv, Closed
<1>7. QED
  BY <1>5, <1>6, Idle DEF Watches

LEMMA PatientSwap ==
  ASSUME TInv, NEW p \in Pages, Patient(p), Watches(p), NEW x \in Pages, Swap(x)
  PROVE  Watches(p)'
<1>1. page[x].open /\ row' = row /\ request' = request
  BY DEF Swap
<1>2. x = p
  BY <1>1, OnlyTab
<1> DEFINE tab == [page[p] EXCEPT !.handlers = page[p].handlers + 1]
<1>3. Shows(page[p])
  BY <1>1, <1>2, OpenShows
<1>4. tab.open = page[p].open /\ tab.asked = page[p].asked /\ tab.shown = page[p].shown
  BY <1>3 DEF Shows
<1>5. page' = [page EXCEPT ![p] = tab]
  BY <1>2 DEF Swap
<1> HIDE DEF tab
<1>6. page'[p] = tab /\ \A other \in Pages \ {p} : page'[other] = page[other]
  BY <1>5 DEF TInv
<1>7. QED
  BY <1>1, <1>2, <1>4, <1>6 DEF Watches, Agrees, Attended, Pending, UnderWay

\* Other handlers and failures do not disturb the patient member.
LEMMA PatientLoad ==
  ASSUME TInv, NEW p \in Pages, Patient(p), Watches(p), NEW q \in Requests, Load(q)
  PROVE  Watches(p)'
<1>1. request[q].at = "sent" /\ request[q] # Free /\ Proper(request[q])
  BY DEF Load, TInv, Free
<1>2. /\ request'[q].at = "loaded" /\ request'[q].copy = row /\ request'[q] # Free
      /\ request'[q].page = request[q].page /\ request'[q].part = request[q].part
      /\ request'[q].value = request[q].value /\ request'[q].kind = request[q].kind
      /\ \A r \in Requests \ {q} : request'[r] = request[r]
      /\ page' = page /\ row' = row
  BY <1>1 DEF Load, TInv, Proper, Formed, Free
<1>3. \A x \in Parts : Agrees(p, x) => Agrees(p, x)'
  <2>1. ASSUME NEW x  PROVE  Pending(x) => Pending(x)'
    BY <1>2 DEF Pending, UnderWay
  <2>2. QED
    BY <1>2, <2>1 DEF Agrees
<1>4. ASSUME NEW r \in Requests, request'[r] # Free  PROVE  Attended(p, r)'
  <2>1. request[r] # Free /\ Attended(p, r)
    BY <1>1, <1>2, <1>4 DEF Watches
  <2>2. \A s \in Requests : request'[s] # Free =>
          request'[s].part = request'[r].part /\ (request'[r].kind = "save" \/ s = r)
    BY <1>1, <1>2, <2>1 DEF Attended
  <2>3. /\ request'[r].page = request[r].page /\ request'[r].part = request[r].part
        /\ request'[r].value = request[r].value
    BY <1>2
  <2>4. /\ request'[r].at = "loaded" =>
             \A part \in Parts \ {request'[r].part} : request'[r].copy[part] = row'[part]
        /\ request'[r].at = "answered" => request'[r].copy = row'
    BY <1>2, <2>1 DEF Attended
  <2>5. QED
    BY <1>2, <2>1, <2>2, <2>3, <2>4 DEF Attended
<1>5. QED
  BY <1>2, <1>3, <1>4 DEF Watches

\* A save sets the part in the row, and nothing else.
LEMMA PatientStore ==
  ASSUME TInv, NEW p \in Pages, Patient(p), Watches(p),
         NEW q \in Requests, request[q].at = "loaded", Store(q)
  PROVE  /\ request[q] # Free /\ request[q].part \in Parts
         /\ row' = Saved(q) /\ env' = env
         /\ \A x \in Parts \ {request[q].part} :
              row'[x] = row[x] /\ (page[p].open => page[p].shown[x] = Shown(x, row'[x]))
         /\ page[p].shown[request[q].part] = Shown(request[q].part, row'[request[q].part])
<1> DEFINE part == request[q].part
           value == request[q].value
<1>1. request[q] # Free /\ Proper(request[q])
  BY DEF TInv, Free
<1>2. /\ Attended(p, q) /\ part \in Parts /\ value = page[p].shown[part] /\ page[p].open
      /\ \A x \in Parts \ {part} : request[q].copy[x] = row[x]
  BY <1>1 DEF Watches, Attended
<1>3. request[q].copy \in Row /\ value \in Displayed[part] /\ part # None
  BY <1>1, <1>2, NoneAssumption DEF Proper
<1>4. row' = [request[q].copy EXCEPT ![part] = value] /\ row' = Saved(q) /\ env' = env
  BY <1>3 DEF Store, Saved
<1> HIDE DEF part, value
<1>5. row'[part] = value /\ \A x \in Parts \ {part} : row'[x] = row[x]
  <2>1. part \in Parts
    BY <1>2
  <2>2. row'[part] = value /\ \A x \in Parts \ {part} : row'[x] = request[q].copy[x]
    BY <1>3, <1>4, <2>1, RowWith
  <2>3. QED
    BY <1>2, <2>2
<1>6. Shown(part, value) = value
  BY <1>2, <1>3, DisplayedShown
<1>7. ASSUME NEW x \in Parts \ {part}  PROVE  page[p].shown[x] = Shown(x, row[x])
  <2>1. ~Pending(x)
    BY <1>1, OneChange DEF part
  <2>2. QED
    BY <1>2, <2>1 DEF Watches, Agrees
<1>8. QED
  BY <1>1, <1>2, <1>4, <1>5, <1>6, <1>7 DEF part

LEMMA PatientSave ==
  ASSUME TInv, NEW p \in Pages, Patient(p), Watches(p), NEW q \in Requests, Save(q)
  PROVE  Watches(p)'
<1>1. request[q].at = "loaded" /\ Store(q)
  BY DEF Save
<1>2. /\ request'[q] = Free /\ \A r \in Requests \ {q} : request'[r] = request[r]
      /\ page' = page
  BY DEF Save, TInv
<1>3. request[q] # Free /\ Attended(p, q)
  BY <1>1, PatientStore DEF Watches
<1>4. \A x \in Parts : Agrees(p, x)'
  BY <1>1, <1>2, <1>3, PatientStore DEF Agrees, Attended
<1>5. ASSUME NEW r \in Requests, request'[r] # Free  PROVE  Attended(p, r)'
  <2>1. r # q /\ request'[r] = request[r] /\ Attended(p, r)
    BY <1>2, <1>5 DEF Watches
  <2>2. request[r].part = request[q].part /\ request[r].kind = "save"
    BY <1>2, <1>3, <1>5, <2>1 DEF Attended
  <2>3. request[r].at # "answered"
    BY <1>2, <1>5, <2>1, <2>2 DEF TInv, Proper
  <2>4. \A x \in Parts \ {request[r].part} : row'[x] = row[x]
    BY <1>1, <2>2, PatientStore
  <2>5. QED
    BY <1>2, <2>1, <2>2, <2>3, <2>4 DEF Attended
<1>6. QED
  BY <1>2, <1>4, <1>5 DEF Watches

LEMMA PatientList ==
  ASSUME TInv, NEW p \in Pages, Patient(p), Watches(p), NEW q \in Requests, SaveAndList(q)
  PROVE  Watches(p)'
<1>1. request[q].at = "loaded" /\ request[q].kind = "list" /\ Store(q) /\ page' = page
      /\ request' = [request EXCEPT ![q] = Answer(q)]
  BY DEF SaveAndList
<1>2. request[q] # Free /\ Attended(p, q) /\ Proper(request[q])
  BY <1>1, PatientStore DEF Watches, TInv
<1>3. \A r \in Requests \ {q} : request'[r] = Free
  BY <1>1, <1>2 DEF Attended, TInv
<1>4. request[q].page = p /\ p # None /\ request[q].part = "style"
  BY <1>1, <1>2, NoneAssumption DEF Attended, Proper
<1>5. request'[q] = [at |-> "answered", kind |-> "list", page |-> p, part |-> "style",
                     value |-> request[q].value, copy |-> row']
  BY <1>1, <1>4, PatientStore DEF Answer, TInv
<1>6. request'[q] # Free
  BY <1>5 DEF Free
<1>7. Attended(p, q)'
  BY <1>1, <1>2, <1>3, <1>4, <1>5 DEF Attended
<1>8. \A x \in Parts : Agrees(p, x)'
  BY <1>1, <1>2, PatientStore DEF Agrees, Attended
<1>9. QED
  BY <1>1, <1>3, <1>7, <1>8 DEF Watches

LEMMA PatientForm ==
  ASSUME TInv, NEW p \in Pages, Patient(p), Watches(p), NEW q \in Requests, SaveForm(q)
  PROVE  Watches(p)'
<1>1. request[q].at = "loaded" /\ request[q].kind = "form" /\ request[q] # Free
  BY DEF SaveForm, Free
<1>2. Attended(p, q)
  BY <1>1 DEF Watches
<1>3. request[q].page = p /\ p # None
  BY <1>2, NoneAssumption DEF Attended
<1>4. request' = [Orphaned(p) EXCEPT ![q] = Free] /\ page' = [page EXCEPT ![p] = Closed]
  BY <1>3 DEF SaveForm
<1>5. \A r \in Requests \ {q} : request[r] = Free
  BY <1>1, <1>2 DEF Attended
<1>6. \A r \in Requests : request'[r] = Free
  BY <1>4, <1>5 DEF Orphaned
<1>7. ~page'[p].open /\ \A other \in Pages \ {p} : page'[other] = page[other]
  BY <1>4 DEF TInv, Closed
<1>8. QED
  BY <1>6, <1>7, Idle DEF Watches

LEMMA PatientShow ==
  ASSUME TInv, NEW p \in Pages, Patient(p), Watches(p), NEW q \in Requests, ShowList(q)
  PROVE  Watches(p)'
<1>1. request[q].at = "answered" /\ request[q] # Free /\ Proper(request[q])
  BY DEF ShowList, TInv, Free
<1>2. Attended(p, q) /\ request[q].kind = "list" /\ request[q].part = "style"
      /\ request[q].page = p /\ page[p].open /\ request[q].copy = row /\ row \in Row
  BY <1>1 DEF Watches, Attended, Proper, TInv
<1>3. \A r \in Requests : request'[r] = Free
  BY <1>1, <1>2 DEF ShowList, Attended, TInv
<1>4. PICK k \in 1..MaxHandlers : page' = [page EXCEPT ![p] = Listed(page[p], k, row)]
  BY <1>2 DEF ShowList, Listed
<1>5. page'[p] = Listed(page[p], k, row) /\ \A other \in Pages \ {p} : page'[other] = page[other]
  BY <1>4 DEF TInv
<1>6. Shows(page[p])
  BY <1>2, OpenShows
<1>7. \A x \in Parts : page[p].shown[x] = Shown(x, row[x])
  <2>1. \A x \in Parts : ~Pending(x)
    BY <1>1, <1>2 DEF Pending, UnderWay, Attended, Free
  <2>2. QED
    BY <1>2, <2>1 DEF Watches, Agrees
<1>8. /\ page'[p].shown["order"] = Shown("order", row["order"])
      /\ page'[p].shown["works"] = Shown("works", row["works"])
      /\ \A x \in Parts \ {"order", "works"} : page'[p].shown[x] = page[p].shown[x]
  BY <1>2, <1>5, <1>6, ListedShows
<1>9. \A x \in Parts : page'[p].shown[x] = Shown(x, row'[x])
  BY <1>7, <1>8 DEF ShowList
<1>10. QED
  BY <1>2, <1>3, <1>5, <1>9, Idle DEF Watches

\* The surroundings do not change.
LEMMA EnvStays ==
  ASSUME [Next]_vars
  PROVE  env' = env
<1>1. ASSUME NEW p, NEW part, NEW value, NEW k, Change(p, part, value, k)
      PROVE  env' = env
  BY <1>1 DEF Change, Post
<1>2. ASSUME NEW p, \/ Open(p) \/ AskForList(p) \/ Swap(p) \/ Submit(p) \/ Leave(p)
                   \/ \E style \in Styles : ChooseStyle(p, style)
      PROVE  env' = env
  BY <1>2 DEF Open, AskForList, Swap, Submit, Leave, ChooseStyle, Post
<1>3. ASSUME PageStep PROVE env' = env
  BY <1>1, <1>2, <1>3 DEF PageStep, DragField, DragHeading, ClickHeading, ClickWork
<1>4. ASSUME RequestStep PROVE env' = env
  BY <1>4 DEF RequestStep, Other, Load, Lose, Save, SaveAndList, SaveForm, ShowList, Store
<1>5. ASSUME VisitorStep PROVE env' = env
  BY <1>5 DEF VisitorStep, StartRender, Fill, RenderFails, Tick
<1>6. QED
  BY <1>3, <1>4, <1>5 DEF Next, vars

LEMMA PatientPageStep ==
  ASSUME TInv, NEW p \in Pages, Patient(p), Watches(p), PageStep
  PROVE  Watches(p)'
<1>1. PICK x \in Pages :
        \/ Open(x) \/ AskForList(x) \/ Swap(x) \/ Submit(x) \/ Leave(x)
        \/ \E c \in Columns : \E a \in Arrangements(Items(Fields[c])) : DragField(x, c, a)
        \/ \E a \in Arrangements(Items(Headings)) : DragHeading(x, a)
        \/ \E h \in Items(Headings) : ClickHeading(x, h)
        \/ \E w \in Works : ClickWork(x, w)
        \/ \E style \in Styles : ChooseStyle(x, style)
  BY DEF PageStep
<1>2. ASSUME NEW c \in Columns, NEW a \in Arrangements(Items(Fields[c])), DragField(x, c, a)
      PROVE  Watches(p)'
  BY <1>2, DragFieldDisplayed, PatientChange DEF DragField
<1>3. ASSUME NEW a \in Arrangements(Items(Headings)), DragHeading(x, a)
      PROVE  Watches(p)'
  BY <1>3, DragHeadingSends, PatientChange
<1>4. ASSUME NEW h \in Items(Headings), ClickHeading(x, h)  PROVE  Watches(p)'
  BY <1>4, ClickHeadingSends, PatientChange
<1>5. ASSUME NEW w \in Works, ClickWork(x, w)  PROVE  Watches(p)'
  BY <1>5, ClickWorkSends, PatientChange
<1>6. QED
  BY <1>1, <1>2, <1>3, <1>4, <1>5, PatientOpen, PatientAsk, PatientSwap, PatientSubmit,
     PatientLeave, PatientStyle

\* Every step keeps what is said of the patient member.
LEMMA PatientNext ==
  ASSUME TInv, PInv, [Next]_vars
  PROVE  PInv'
<1>1. SUFFICES ASSUME NEW p \in Pages, Patient(p)'
               PROVE  Watches(p)'
  BY DEF PInv
<1>2. Patient(p) /\ Watches(p)
  BY <1>1, EnvStays DEF Patient, PInv
<1>3. CASE PageStep
  BY <1>2, <1>3, PatientPageStep
<1>4. CASE RequestStep
  <2>1. PICK q \in Requests :
          Other(q) \/ Load(q) \/ Lose(q) \/ Save(q) \/ SaveAndList(q) \/ SaveForm(q) \/ ShowList(q)
    BY <1>4 DEF RequestStep
  <2>2. ~Other(q) /\ ~Lose(q)
    BY <1>2 DEF Patient, Other, Lose
  <2>3. QED
    BY <1>2, <2>1, <2>2, PatientLoad, PatientSave, PatientList, PatientForm, PatientShow
<1>5. CASE VisitorStep \/ UNCHANGED vars
  <2>1. UNCHANGED <<row, page, request>>
    BY <1>5 DEF VisitorStep, StartRender, Fill, RenderFails, Tick, vars
  <2>2. QED
    BY <1>2, <2>1 DEF Watches, Agrees, Attended, Pending, UnderWay
<1>6. QED
  BY <1>3, <1>4, <1>5 DEF Next

\* What is said of the patient member is what PageAgreesWithRow says, and more.
LEMMA PatientAgrees ==
  ASSUME TInv, PInv
  PROVE  PageAgreesWithRow
<1>1. SUFFICES ASSUME NEW p \in Pages, Alone, ~env.hasty, page[p].open,
                      \A q \in Requests : request[q] = Free
               PROVE  page[p].shown = View(row)
  BY DEF PageAgreesWithRow
<1>2. PICK x \in Pages : Patient(x)
  BY <1>1 DEF Alone, Patient
<1>3. Watches(x) /\ x = p
  BY <1>1, <1>2 DEF PInv, Watches
<1>4. \A part \in Parts : page[p].shown[part] = Shown(part, row[part])
  BY <1>1, <1>3, FreeIsIdle DEF Watches, Agrees, Pending
<1>5. IsRow(page[p].shown)
  BY <1>1, OpenShows DEF Shows, IsDisplay
<1>6. IsRow(View(row)) /\ \A part \in Parts : View(row)[part] = Shown(part, row[part])
  BY ViewParts DEF TInv, IsDisplay
<1>7. page[p].shown = [part \in Parts |-> Shown(part, row[part])]
      /\ View(row) = [part \in Parts |-> Shown(part, row[part])]
  BY <1>4, <1>5, <1>6 DEF IsRow
<1>8. QED
  BY <1>7

\* A member with one tab who waits for each answer, while no request fails and nobody else
\* saves the row, has a page that shows what the row holds whenever nothing is under way:
\* saveOrder and the views that save what it sends lose and reorder nothing, although
\* every save writes every column.
THEOREM PageAgrees == Spec => []PageAgreesWithRow
<1>1. Init => TInv /\ Recent /\ PInv
  <2>1. Init => PInv
    BY DEF Init, PInv, Watches, Closed
  <2>2. QED
    BY <2>1, InitTyped DEF Init, Recent
<1>2. TInv /\ Recent /\ PInv /\ [Next]_vars => (TInv /\ Recent /\ PInv)'
  BY NextTyped, RecentKept, PatientNext
<1>3. TInv /\ PInv => PageAgreesWithRow
  BY PatientAgrees
<1>4. QED
  BY <1>1, <1>2, <1>3, PTL DEF Spec
===============================================================================
