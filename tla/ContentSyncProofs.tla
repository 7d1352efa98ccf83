------------------------- MODULE ContentSyncProofs -------------------------
(***************************************************************************)
(* Safety of ContentSync, for every choice of its constants:               *)
(*   - the types, and what a goroutine holds at each point;                *)
(*   - ids and documents stay their content's (Ownership);                 *)
(*   - what the rows of content_sync_state can be relied on for: a synced  *)
(*     one names its document, retries are bounded, a recorded hash is     *)
(*     that of an uploaded text, the row the syncer reads back is there;   *)
(*   - the index follows the rows while one goroutine runs at a time and   *)
(*     nothing fails (Tidy), and is then a Mirror of the contents: what a  *)
(*     goroutine read is still true when it uploads it (Aligned).          *)
(***************************************************************************)
EXTENDS ContentSyncInductive, TLAPS

(* What a goroutine may hold, and that all of them do. *)
Good(j) == j \in Job /\ Shape(j)
AllGood == job \in [Actors -> Job] /\ \A a \in Actors : Shape(job[a])

USE DEF LastStage, OfAttachments, Resting, Resolved, TextRead, RowRead, Uploaded, Looping

-----------------------------------------------------------------------------
(* Steps of a goroutine *)

(* What a goroutine can rely on when it takes a step. *)
LEMMA Here ==
  ASSUME TypeInv, NEW a \in Actors
  PROVE  /\ job[a] \in Job /\ Shape(job[a])
         /\ job[a].pc \notin Resting =>
              /\ job[a].item \in Ticket /\ job[a].item # None
              /\ Cur(a) \in Contents /\ row[Cur(a)] \in Row \cup {None}
              /\ content[Cur(a)] \in Content
BY DEF TypeInv, TypeOK, Shape, Job, Ticket, Cur

LEMMA BecomeGood ==
  ASSUME TypeInv, NEW a \in Actors, NEW j, Become(a, j), Good(j)
  PROVE  AllGood'
BY DEF TypeInv, TypeOK, AllGood, Good, Become

LEMMA IdleGood == Good(Idle)
BY ConstantsOK DEF Good, Idle, Job, PC, Phases, Shape

LEMMA RestGood ==
  ASSUME TypeInv, NEW a \in Actors, job[a].phase # 0
  PROVE  Good(Rest(a, "next"))
<1>1. job[a] \in Job
  BY DEF TypeInv, TypeOK
<1>2. Rest(a, "next") \in Job
  BY <1>1, ConstantsOK, ZenonT(60) DEF Rest, Idle, Job, PC, Phases
<1>3. Shape(Rest(a, "next"))
  BY <1>1, ConstantsOK DEF Rest, Idle, Shape
<1> QED BY <1>2, <1>3 DEF Good

LEMMA DoneGood ==
  ASSUME TypeInv, NEW a \in Actors, Done(a)
  PROVE  AllGood'
BY BecomeGood, IdleGood, RestGood DEF Done

LEMMA FailGood ==
  ASSUME TypeInv, NEW a \in Actors, Fail(a), job[a].item # None
  PROVE  AllGood'
<1>1. job[a] \in Job
  BY DEF TypeInv, TypeOK
<1>2. CASE job[a].phase = 0
  BY <1>2, BecomeGood, IdleGood DEF Fail
<1>3. CASE job[a].phase # 0
  <2> DEFINE j == [Rest(a, "markFailed") EXCEPT !.item = job[a].item]
  <2>1. j \in Job
    BY <1>1, ConstantsOK, ZenonT(60) DEF Rest, Idle, Job, PC, Phases
  <2>2. Shape(j)
    BY <1>1, <1>3, ConstantsOK DEF Rest, Idle, Shape
  <2> QED BY <1>3, <2>1, <2>2, BecomeGood DEF Fail, Good
<1> QED BY <1>2, <1>3

(* The steps that change nothing but the goroutine. *)
LEMMA OnlyJobType ==
  ASSUME TypeInv, AllGood', OthersUnchanged, NEW k, Fault(k) \/ NoFault
  PROVE  TypeInv'
BY DEF TypeInv, TypeOK, AllGood, OthersUnchanged, Fault, NoFault

LEMMA ResolveType ==
  ASSUME TypeInv, NEW a \in Actors, Resolve(a)
  PROVE  TypeInv'
<1> DEFINE j == [job[a] EXCEPT !.pc = "read", !.ds = Home(Cur(a))]
<1>h. job[a].pc = "resolve"
  BY DEF Resolve, At
<1>0. job[a] \in Job /\ Shape(job[a]) /\ Cur(a) \in Contents
  BY <1>h, Here
<1>1. Host(Cur(a)) \in Contents
  BY <1>0, ConstantsOK DEF Host
<1>2. Home(Cur(a)) \in Datasets /\ Home(Cur(a)) # None
  BY <1>1, ConstantsOK DEF Home, Content, TypeInv, TypeOK
<1>3. j \in Job
  BY <1>0, <1>2 DEF Job, PC
<1>4. Shape(j)
  BY <1>0, <1>h, <1>2 DEF Job, Shape
<1> HIDE DEF j
<1>5. Become(a, j) \/ Done(a)
  BY DEF Resolve, j
<1> QED BY <1>3, <1>4, <1>5, DoneGood, BecomeGood, OnlyJobType DEF Resolve, Good

LEMMA ReadContentType ==
  ASSUME TypeInv, NEW a \in Actors, ReadContent(a)
  PROVE  TypeInv'
<1> DEFINE j == [job[a] EXCEPT !.pc = "state", !.text = content[Cur(a)].text,
             !.vis = IF Cur(a) \in Files THEN None ELSE content[Cur(a)].vis]
<1>h. job[a].pc = "read"
  BY DEF ReadContent, At
<1>0. job[a] \in Job /\ Shape(job[a]) /\ job[a].item # None /\ content[Cur(a)] \in Content
  BY <1>h, Here
<1>1. content[Cur(a)].text \in Texts /\ content[Cur(a)].vis \in Visibilities
  BY <1>0 DEF Content
<1>2. content[Cur(a)].text # None
  BY <1>1, ConstantsOK
<1>3. j \in Job
  BY <1>0, <1>1 DEF Job, PC
<1>4. Shape(j)
  BY <1>0, <1>h, <1>2 DEF Job, Shape
<1> HIDE DEF j
<1>5. Become(a, j) \/ Fail(a)
  BY DEF ReadContent, j
<1> QED BY <1>0, <1>3, <1>4, <1>5, FailGood, BecomeGood, OnlyJobType DEF ReadContent, Good
LEMMA GotoGood ==
  ASSUME TypeInv, NEW a \in Actors, NEW p \in PC, Goto(a, p),
         Shape([job[a] EXCEPT !.pc = p])
  PROVE  AllGood'
<1>1. job[a] \in Job
  BY DEF TypeInv, TypeOK
<1>2. [job[a] EXCEPT !.pc = p] \in Job
  BY <1>1 DEF Job
<1> QED BY <1>2, BecomeGood DEF Goto, Good

LEMMA EnsuredGood ==
  ASSUME TypeInv, NEW a \in Actors, job[a].pc \in {"ensure", "insert"}, Ensured(a)
  PROVE  AllGood'
<1>0. job[a] \in Job /\ Shape(job[a])
  BY Here
<1>1. Shape([job[a] EXCEPT !.pc = "gate"])
  BY <1>0 DEF Job, Shape
<1> QED BY <1>1, GotoGood, DoneGood DEF Ensured, PC

LEMMA EnsureReadType ==
  ASSUME TypeInv, NEW a \in Actors, EnsureRead(a)
  PROVE  TypeInv'
<1>h. job[a].pc = "ensure"
  BY DEF EnsureRead, At
<1>0. job[a] \in Job /\ Shape(job[a])
  BY Here
<1>1. Shape([job[a] EXCEPT !.pc = "insert"])
  BY <1>0, <1>h DEF Job, Shape
<1>2. Goto(a, "insert") \/ Ensured(a)
  BY DEF EnsureRead
<1>3. AllGood'
  BY <1>h, <1>1, <1>2, GotoGood, EnsuredGood DEF PC
<1> QED BY <1>3, OnlyJobType DEF EnsureRead

LEMMA GateType ==
  ASSUME TypeInv, NEW a \in Actors, Gate(a)
  PROVE  TypeInv'
<1>0. job[a] \in Job /\ Shape(job[a])
  BY Here
<1>h. job[a].pc \in {"gate", "dgate", "vgate", "bgate"}
  BY DEF Gate
<1>1. ASSUME NEW p \in {"resolve", "dread", "vread", "list"},
             Goto(a, p), p = "list" => job[a].pc = "bgate",
             job[a].pc = "bgate" => p = "list"
      PROVE  AllGood'
  <2>1. Shape([job[a] EXCEPT !.pc = p])
    BY <1>0, <1>h, <1>1 DEF Job, Shape
  <2> QED BY <1>1, <2>1, GotoGood DEF PC
<1>2. AllGood'
  BY <1>h, <1>1, IdleGood, BecomeGood DEF Gate
<1> QED BY <1>2, OnlyJobType DEF Gate

LEMMA ReadStateType ==
  ASSUME TypeInv, NEW a \in Actors, ReadState(a)
  PROVE  TypeInv'
<1> DEFINE r == row[Cur(a)]
           up == [job[a] EXCEPT !.snap = r, !.pc = IF r # None /\ r.doc # 0 THEN "unindex" ELSE "upload"]
           skip == [job[a] EXCEPT !.snap = r, !.pc = "skip"]
<1>h. job[a].pc = "state"
  BY DEF ReadState, At
<1>0. job[a] \in Job /\ Shape(job[a]) /\ job[a].item # None /\ r \in Row \cup {None}
  BY <1>h, Here
<1> HIDE DEF r
<1>1. Good(up)
  <2>1. up \in Job
    BY <1>0, ZenonT(60) DEF Job, PC
  <2>2. Shape(up)
    BY <1>0, <1>h DEF Job, Shape
  <2> QED BY <2>1, <2>2 DEF Good
<1>2. ASSUME r # None PROVE Good(skip)
  <2>1. skip \in Job
    BY <1>0 DEF Job, PC
  <2>2. Shape(skip)
    BY <1>0, <1>2, <1>h DEF Job, Shape
  <2> QED BY <2>1, <2>2 DEF Good
<1> HIDE DEF up, skip
<1>3. Become(a, up) \/ (r # None /\ Become(a, skip)) \/ Fail(a) \/ Done(a)
  BY DEF ReadState, r, up, skip
<1> QED BY <1>0, <1>1, <1>2, <1>3, FailGood, DoneGood, BecomeGood, OnlyJobType DEF ReadState
LEMMA DeleteReadType ==
  ASSUME TypeInv, NEW a \in Actors, DeleteRead(a)
  PROVE  TypeInv'
<1> DEFINE r == row[Cur(a)]
           j(pc) == [job[a] EXCEPT !.snap = r, !.pc = pc]
<1>h. job[a].pc = "dread"
  BY DEF DeleteRead, At
<1>0. job[a] \in Job /\ Shape(job[a]) /\ r \in Row \cup {None}
  BY <1>h, Here
<1> HIDE DEF r
<1>1. ASSUME r # None, NEW pc \in {"ddoc", "drow"} PROVE Good(j(pc))
  <2>1. j(pc) \in Job
    BY <1>0 DEF Job, PC
  <2>2. Shape(j(pc))
    BY <1>0, <1>1, <1>h DEF Job, Shape
  <2> QED BY <2>1, <2>2 DEF Good
<1> HIDE DEF j
<1>2. (r # None /\ \E pc \in {"ddoc", "drow"} : Become(a, j(pc))) \/ Done(a)
  BY DEF DeleteRead, r, j
<1> QED BY <1>1, <1>2, DoneGood, BecomeGood, OnlyJobType DEF DeleteRead

LEMMA VisibilityReadType ==
  ASSUME TypeInv, NEW a \in Actors, VisibilityRead(a)
  PROVE  TypeInv'
<1> DEFINE r == row[Cur(a)]
           j == [job[a] EXCEPT !.snap = r, !.pc = "vupd"]
<1>h. job[a].pc = "vread"
  BY DEF VisibilityRead, At
<1>0. job[a] \in Job /\ Shape(job[a]) /\ r \in Row \cup {None}
  BY <1>h, Here
<1> HIDE DEF r
<1>1. ASSUME r # None PROVE Good(j)
  <2>1. j \in Job
    BY <1>0 DEF Job, PC
  <2>2. Shape(j)
    BY <1>0, <1>1, <1>h DEF Job, Shape
  <2> QED BY <2>1, <2>2 DEF Good
<1>2. Shape([job[a] EXCEPT !.pc = "vlist"])
  BY <1>0, <1>h DEF Job, Shape
<1> HIDE DEF j
<1>3. (r # None /\ Become(a, j)) \/ Done(a) \/ Goto(a, "vlist")
  BY DEF VisibilityRead, r, j, Relabelable
<1> QED BY <1>1, <1>2, <1>3, DoneGood, GotoGood, BecomeGood, OnlyJobType DEF VisibilityRead, PC

LEMMA TicketedType ==
  ASSUME NEW c \in Contents
  PROVE  Ticketed(c) \in Ticket
BY DEF Ticketed, Ticket

(* ListAttachments returns nothing that is not there. *)
LEMMA ListedAre ==
  ASSUME NEW S, NEW T \in ListedAttachments(S)
  PROVE  T \subseteq S
BY DEF ListedAttachments

LEMMA ListAttachmentsType ==
  ASSUME TypeInv, NEW a \in Actors, ListAttachments(a)
  PROVE  TypeInv'
<1> DEFINE j(S) == [Idle EXCEPT !.pc = "next", !.phase = OfAttachments, !.vis = job[a].vis,
                                !.todo = {Ticketed(f) : f \in S}]
<1>0. job[a] \in Job
  BY Here
<1>1. ASSUME NEW S \in ListedAttachments(Attachments(Cur(a)))
      PROVE  Good(j(S))
  <2> DEFINE todo == {Ticketed(f) : f \in S}
  <2>1. todo \in SUBSET Ticket
    BY <1>1, ListedAre, TicketedType, ConstantsOK DEF Attachments
  <2> HIDE DEF todo
  <2>2. Idle \in Job /\ OfAttachments \in 0..Len(Phases)
    BY IdleGood DEF Good, Phases
  <2>3. [Idle EXCEPT !.pc = "next", !.phase = OfAttachments, !.vis = job[a].vis, !.todo = todo] \in Job
    BY <1>0, <2>1, <2>2 DEF Job, PC
  <2>4. Shape([Idle EXCEPT !.pc = "next", !.phase = OfAttachments, !.vis = job[a].vis, !.todo = todo])
    BY DEF Shape, Idle
  <2> QED BY <2>3, <2>4 DEF Good, todo
<1> HIDE DEF j
<1>2. (\E S \in ListedAttachments(Attachments(Cur(a))) : Become(a, j(S))) \/ Done(a)
  BY DEF ListAttachments, j
<1> QED BY <1>1, <1>2, DoneGood, BecomeGood, OnlyJobType DEF ListAttachments, Good

LEMMA TicketOfType ==
  ASSUME NEW r \in Row
  PROVE  TicketOf(r) \in Ticket
BY DEF TicketOf, Ticket, Row

LEMMA RowsType ==
  ASSUME TypeInv
  PROVE  Rows \subseteq Row
BY DEF TypeInv, TypeOK, Rows

LEMMA ListingsType ==
  ASSUME TypeInv, NEW p \in 1..LastStage, NEW todo \in Listings(p)
  PROVE  todo \subseteq Ticket
<1>1. ASSUME NEW S \in SUBSET Contents PROVE Exists(S) \subseteq Ticket
  BY TicketedType DEF Exists, Existing
<1>6. \A S \in ListedAttachments(Existing(Files)) : S \in SUBSET Contents
  BY ListedAre, ConstantsOK DEF Existing
<1>2. ASSUME NEW S PROVE Pending(S) \subseteq Ticket
  BY RowsType, TicketOfType DEF Pending, Newest, WithStatus
<1>3. {TicketOf(r) : r \in Resettable} \subseteq Ticket
  BY RowsType, TicketOfType DEF Resettable, WithStatus
<1>4. ASSUME NEW S \in SUBSET Retryable PROVE {TicketOf(r) : r \in S} \subseteq Ticket
  BY RowsType, TicketOfType DEF Retryable, Newest, WithStatus
<1>5. Contents \ Files \in SUBSET Contents /\ Files \in SUBSET Contents
  BY ConstantsOK
<1> QED BY <1>1, <1>2, <1>3, <1>4, <1>5, <1>6 DEF Listings

LEMMA ListType ==
  ASSUME TypeInv, NEW a \in Actors, List(a)
  PROVE  TypeInv'
<1>h. job[a].pc = "list"
  BY DEF List, At
<1>0. job[a] \in Job /\ Shape(job[a])
  BY Here
<1>1. job[a].phase \in 1..LastStage
  BY <1>0, <1>h DEF Shape
<1>2. ASSUME NEW todo \in Listings(job[a].phase)
      PROVE  Good([job[a] EXCEPT !.todo = todo, !.pc = "next"])
  <2>1. todo \subseteq Ticket
    BY <1>1, ListingsType
  <2>2. [job[a] EXCEPT !.todo = todo, !.pc = "next"] \in Job
    BY <1>0, <2>1 DEF Job, PC
  <2>3. Shape([job[a] EXCEPT !.todo = todo, !.pc = "next"])
    BY <1>0, <1>1 DEF Job, Shape
  <2> QED BY <2>2, <2>3 DEF Good
<1>3. Shape([job[a] EXCEPT !.pc = "next"])
  BY <1>0, <1>1 DEF Job, Shape
<1>4. AllGood'
  BY <1>2, <1>3, BecomeGood, GotoGood DEF List, PC
<1> QED BY <1>4, OnlyJobType DEF List

LEMMA NextItemType ==
  ASSUME TypeInv, NEW a \in Actors, NextItem(a)
  PROVE  TypeInv'
<1>h. job[a].pc = "next"
  BY DEF NextItem, At
<1>0. job[a] \in Job /\ Shape(job[a])
  BY Here
<1>1. job[a].phase \in 1..7
  BY <1>0, <1>h DEF Shape, Job, Phases
<1>2. ASSUME NEW t \in job[a].todo
      PROVE  Good([job[a] EXCEPT !.pc = First(job[a].phase), !.item = t, !.todo = @ \ {t}])
  <2>1. First(job[a].phase) \in {"ensure", "reset", "resolve", "vread"}
    BY <1>1 DEF First
  <2>2. t \in Ticket /\ job[a].todo \ {t} \subseteq Ticket
    BY <1>0 DEF Job
  <2>3. t # None
    BY <2>2, ConstantsOK
  <2> HIDE DEF First
  <2>4. [job[a] EXCEPT !.pc = First(job[a].phase), !.item = t, !.todo = @ \ {t}] \in Job
    BY <1>0, <2>1, <2>2 DEF Job, PC
  <2>5. Shape([job[a] EXCEPT !.pc = First(job[a].phase), !.item = t, !.todo = @ \ {t}])
    BY <1>0, <1>1, <2>1, <2>3 DEF Job, Shape
  <2> QED BY <2>4, <2>5 DEF Good
<1>3. ASSUME job[a].phase < LastStage
      PROVE  Good([job[a] EXCEPT !.pc = "list", !.phase = @ + 1])
  <2>0. job[a].phase + 1 \in 0..Len(Phases)
    BY <1>1, <1>3 DEF Phases
  <2>1. [job[a] EXCEPT !.pc = "list", !.phase = @ + 1] \in Job
    BY <1>0, <2>0 DEF Job, PC
  <2>2. Shape([job[a] EXCEPT !.pc = "list", !.phase = @ + 1])
    BY <1>0, <1>1, <1>3 DEF Job, Shape
  <2> QED BY <2>1, <2>2 DEF Good
<1>4. AllGood'
  BY <1>2, <1>3, IdleGood, BecomeGood DEF NextItem
<1> QED BY <1>4 DEF NextItem, TypeInv, TypeOK, AllGood

LEMMA StartBatchType ==
  ASSUME TypeInv, NEW a \in Actors, StartBatch(a)
  PROVE  TypeInv'
<1> DEFINE j == [Idle EXCEPT !.pc = "bgate", !.phase = 1]
<1>1. Idle \in Job /\ 1 \in 0..Len(Phases)
  BY IdleGood DEF Good, Phases
<1>2. j \in Job
  BY <1>1 DEF Job, PC
<1>3. Shape(j)
  BY <1>1 DEF Idle, Shape
<1> HIDE DEF j
<1>4. AllGood'
  BY <1>2, <1>3, BecomeGood DEF StartBatch, j, Good
<1> QED BY <1>4 DEF StartBatch, TypeInv, TypeOK, AllGood
-----------------------------------------------------------------------------
(* Steps over content_sync_state *)

(* What a step over the rows leaves alone, and what it must still show. *)
RowStep == UNCHANGED <<content, uploads, index, proc, edits>> /\ \E k : Fault(k) \/ NoFault
RowsTyped == row \in [Contents -> Row \cup {None}] /\ owners \in Seq(Contents)

LEMMA RowStepType ==
  ASSUME TypeInv, AllGood', RowStep, RowsTyped'
  PROVE  TypeInv'
BY DEF TypeInv, TypeOK, AllGood, RowStep, RowsTyped, Fault, NoFault

LEMMA SameRows ==
  ASSUME TypeInv, UNCHANGED <<row, owners>>
  PROVE  RowsTyped'
BY DEF TypeInv, TypeOK, RowsTyped

LEMMA InsertRowType ==
  ASSUME TypeInv, NEW c \in Contents, NEW h \in Texts \cup {None}, InsertRow(c, h)
  PROVE  RowsTyped'
<1> DEFINE r == [id |-> NextId, of |-> c, status |-> "pending", ds |-> None, doc |-> 0,
                 hash |-> h, retry |-> 0, due |-> FALSE]
<1>1. NextId \in Nat \ {0}
  BY DEF NextId, TypeInv, TypeOK
<1>2. r \in Row
  BY <1>1 DEF Row
<1> HIDE DEF r
<1>3. row' = [row EXCEPT ![c] = r] /\ owners' = Append(owners, c)
  BY DEF InsertRow, r
<1> QED BY <1>2, <1>3 DEF TypeInv, TypeOK, RowsTyped

LEMMA EnsureInsertType ==
  ASSUME TypeInv, NEW a \in Actors, EnsureInsert(a)
  PROVE  TypeInv'
<1>h. job[a].pc = "insert"
  BY DEF EnsureInsert, At
<1>0. Cur(a) \in Contents
  BY <1>h, Here
<1>1. RowsTyped'
  BY <1>0, InsertRowType, SameRows DEF EnsureInsert
<1>2. AllGood'
  BY <1>h, EnsuredGood DEF EnsureInsert
<1>3. RowStep
  BY DEF EnsureInsert, RowStep
<1> QED BY <1>1, <1>2, <1>3, RowStepType

LEMMA MarkSkippedType ==
  ASSUME TypeInv, NEW a \in Actors, MarkSkipped(a)
  PROVE  TypeInv'
<1>1. ASSUME NEW r \in Row PROVE [r EXCEPT !.status = "skipped"] \in Row
  BY DEF Row
<1>2. ASSUME NEW id, UpdateRow(id, LAMBDA r : [r EXCEPT !.status = "skipped"])
      PROVE  RowsTyped'
  BY <1>1, <1>2 DEF UpdateRow, TypeInv, TypeOK, RowsTyped
<1>3. RowsTyped'
  BY <1>2, SameRows DEF MarkSkipped
<1>4. RowStep /\ AllGood'
  BY DoneGood DEF MarkSkipped, RowStep
<1> QED BY <1>3, <1>4, RowStepType

LEMMA CreateRowType ==
  ASSUME TypeInv, NEW a \in Actors, CreateRow(a)
  PROVE  TypeInv'
<1>h. job[a].pc = "create"
  BY DEF CreateRow, At
<1>0. job[a] \in Job /\ Shape(job[a]) /\ job[a].item # None /\ Cur(a) \in Contents
  BY <1>h, Here
<1>1. job[a].text \in Texts \cup {None}
  BY <1>0 DEF Job
<1>2. ASSUME NEW r \in Row, NEW h \in Texts \cup {None} PROVE Overwritten(r, h) \in Row
  BY DEF Row, Overwritten
<1>3. ASSUME NEW id, NEW h \in Texts \cup {None}, UpdateRow(id, LAMBDA r : Overwritten(r, h))
      PROVE  RowsTyped'
  BY <1>2, <1>3 DEF UpdateRow, TypeInv, TypeOK, RowsTyped
<1>4. RowsTyped'
  BY <1>0, <1>1, <1>3, InsertRowType, SameRows DEF CreateRow, UpsertPending
<1>5. Shape([job[a] EXCEPT !.pc = "reread"])
  BY <1>0, <1>h DEF Job, Shape
<1>6. RowStep /\ AllGood'
  BY <1>0, <1>5, GotoGood, FailGood DEF CreateRow, RowStep, PC
<1> QED BY <1>4, <1>6, RowStepType

LEMMA MarkSyncedType ==
  ASSUME TypeInv, NEW a \in Actors, MarkSynced(a)
  PROVE  TypeInv'
<1>h. job[a].pc = "mark"
  BY DEF MarkSynced, At
<1>0. job[a] \in Job /\ Shape(job[a]) /\ job[a].item # None
  BY <1>h, Here
<1>1. job[a].ds \in Datasets \cup {None} /\ job[a].doc \in Nat
  BY <1>0 DEF Job
<1>2. ASSUME NEW r \in Row PROVE Synced(r, job[a].ds, job[a].doc) \in Row
  BY <1>1 DEF Row, Synced
<1>3. ASSUME NEW id, UpdateRow(id, LAMBDA r : Synced(r, job[a].ds, job[a].doc))
      PROVE  RowsTyped'
  BY <1>2, <1>3 DEF UpdateRow, TypeInv, TypeOK, RowsTyped
<1>4. RowsTyped'
  BY <1>3, SameRows DEF MarkSynced
<1>5. Shape([job[a] EXCEPT !.pc = "hash"])
  BY <1>0, <1>h DEF Job, Shape
<1>6. RowStep /\ AllGood'
  BY <1>0, <1>5, GotoGood, FailGood DEF MarkSynced, RowStep, PC
<1> QED BY <1>4, <1>6, RowStepType

LEMMA UpdateHashType ==
  ASSUME TypeInv, NEW a \in Actors, UpdateHash(a)
  PROVE  TypeInv'
<1>1. job[a].text \in Texts \cup {None}
  BY DEF Job, TypeInv, TypeOK
<1>2. ASSUME NEW r \in Row PROVE [r EXCEPT !.hash = job[a].text] \in Row
  BY <1>1 DEF Row
<1>3. ASSUME NEW id, UpdateRow(id, LAMBDA r : [r EXCEPT !.hash = job[a].text])
      PROVE  RowsTyped'
  BY <1>2, <1>3 DEF UpdateRow, TypeInv, TypeOK, RowsTyped
<1>4. RowsTyped'
  BY <1>3, SameRows DEF UpdateHash
<1>5. RowStep /\ AllGood'
  BY DoneGood DEF UpdateHash, RowStep
<1> QED BY <1>4, <1>5, RowStepType

LEMMA DeleteRowType ==
  ASSUME TypeInv, NEW a \in Actors, DeleteRow(a)
  PROVE  TypeInv'
<1>1. RowsTyped'
  BY DEF DeleteRow, TypeInv, TypeOK, RowsTyped
<1>2. RowStep /\ AllGood'
  BY DoneGood DEF DeleteRow, RowStep
<1> QED BY <1>1, <1>2, RowStepType

LEMMA ResetRowType ==
  ASSUME TypeInv, NEW a \in Actors, ResetRow(a)
  PROVE  TypeInv'
<1>h. job[a].pc = "reset"
  BY DEF ResetRow, At
<1>1. job[a].item.hash \in Texts \cup {None}
  BY <1>h, Here DEF Ticket
<1>2. ASSUME NEW r \in Row PROVE Reset(r, job[a].item.hash) \in Row
  BY <1>1 DEF Row, Reset
<1>3. ASSUME NEW id, UpdateRow(id, LAMBDA r : Reset(r, job[a].item.hash))
      PROVE  RowsTyped'
  BY <1>2, <1>3 DEF UpdateRow, TypeInv, TypeOK, RowsTyped
<1>4. RowsTyped'
  BY <1>3, SameRows DEF ResetRow
<1>5. RowStep /\ AllGood'
  BY DoneGood DEF ResetRow, RowStep
<1> QED BY <1>4, <1>5, RowStepType

LEMMA MarkFailedType ==
  ASSUME TypeInv, NEW a \in Actors, MarkFailed(a)
  PROVE  TypeInv'
<1>h. job[a].pc = "markFailed"
  BY DEF MarkFailed, At
<1>1. job[a].item.retry \in Nat
  BY <1>h, Here DEF Ticket
<1>2. ASSUME NEW r \in Row PROVE Failed(r, job[a].item.retry) \in Row
  <2> DEFINE n == job[a].item.retry + 1
             b == r.due \/ n < MaxRetries
  <2>1. n \in Nat /\ b \in BOOLEAN
    BY <1>1
  <2>2. Failed(r, job[a].item.retry) = [r EXCEPT !.status = "failed", !.retry = n, !.due = b]
    BY DEF Failed
  <2> HIDE DEF n, b
  <2> QED BY <2>1, <2>2 DEF Row
<1>3. ASSUME NEW id, UpdateRow(id, LAMBDA r : Failed(r, job[a].item.retry))
      PROVE  RowsTyped'
  BY <1>2, <1>3 DEF UpdateRow, TypeInv, TypeOK, RowsTyped
<1>4. RowsTyped'
  BY <1>3, SameRows DEF MarkFailed
<1>5. RowStep /\ AllGood'
  BY DoneGood DEF MarkFailed, RowStep
<1> QED BY <1>4, <1>5, RowStepType
-----------------------------------------------------------------------------
(* Steps over the index *)

IndexStep == UNCHANGED <<content, row, owners, proc, edits>> /\ \E k : Fault(k) \/ NoFault
IndexTyped == uploads \in Seq(Document) /\ index \subseteq DOMAIN uploads

LEMMA IndexStepType ==
  ASSUME TypeInv, AllGood', IndexStep, IndexTyped'
  PROVE  TypeInv'
BY DEF TypeInv, TypeOK, AllGood, IndexStep, IndexTyped, Fault, NoFault

LEMMA UnindexType ==
  ASSUME TypeInv, UNCHANGED uploads, NEW d, NEW ds, Unindex(d, ds) \/ UNCHANGED index
  PROVE  IndexTyped'
BY DEF TypeInv, TypeOK, IndexTyped, Unindex

LEMMA DeleteOldType ==
  ASSUME TypeInv, NEW a \in Actors, DeleteOld(a)
  PROVE  TypeInv'
<1>h. job[a].pc = "unindex"
  BY DEF DeleteOld, At
<1>0. job[a] \in Job /\ Shape(job[a])
  BY Here
<1>1. Shape([job[a] EXCEPT !.pc = "upload"])
  BY <1>0, <1>h DEF Job, Shape
<1>2. IndexStep /\ AllGood'
  BY <1>1, GotoGood DEF DeleteOld, IndexStep, PC
<1>3. IndexTyped'
  BY UnindexType DEF DeleteOld
<1> QED BY <1>2, <1>3, IndexStepType

LEMMA DeleteDocType ==
  ASSUME TypeInv, NEW a \in Actors, DeleteDoc(a)
  PROVE  TypeInv'
<1>h. job[a].pc = "ddoc"
  BY DEF DeleteDoc, At
<1>0. job[a] \in Job /\ Shape(job[a])
  BY Here
<1>1. Shape([job[a] EXCEPT !.pc = "drow"])
  BY <1>0, <1>h DEF Job, Shape
<1>2. IndexStep /\ AllGood'
  BY <1>1, GotoGood DEF DeleteDoc, IndexStep, PC
<1>3. IndexTyped'
  BY UnindexType DEF DeleteDoc
<1> QED BY <1>2, <1>3, IndexStepType

LEMMA AcceptedDocument ==
  ASSUME TypeInv, NEW a \in Actors, job[a].pc = "upload", AcceptUpload(a)
  PROVE  \E d \in Document : /\ d.of = Cur(a) /\ d.text = job[a].text
                             /\ uploads' = Append(uploads, d)
                             /\ index' = index \cup {Len(uploads) + 1}
<1> DEFINE d == [of |-> Cur(a), text |-> job[a].text, vis |-> job[a].vis, ds |-> job[a].ds,
                 parsed |-> FALSE]
<1>0. job[a] \in Job /\ Shape(job[a]) /\ Cur(a) \in Contents
  BY Here
<1>1. job[a].text \in Texts /\ job[a].ds \in Datasets /\ job[a].vis \in Visibilities \cup {None}
  BY <1>0 DEF Job, Shape
<1>2. d \in Document /\ d.of = Cur(a) /\ d.text = job[a].text
  BY <1>0, <1>1 DEF Document
<1> HIDE DEF d
<1> QED BY <1>2 DEF AcceptUpload, d

LEMMA AcceptUploadType ==
  ASSUME TypeInv, NEW a \in Actors, job[a].pc = "upload", AcceptUpload(a)
  PROVE  IndexTyped'
<1>1. PICK d \in Document : /\ uploads' = Append(uploads, d)
                            /\ index' = index \cup {Len(uploads) + 1}
  BY AcceptedDocument
<1> QED BY <1>1 DEF TypeInv, TypeOK, IndexTyped

LEMMA UploadType ==
  ASSUME TypeInv, NEW a \in Actors, Upload(a)
  PROVE  TypeInv'
<1> DEFINE j == [job[a] EXCEPT !.doc = Len(uploads) + 1, !.pc = "parse"]
<1>h. job[a].pc = "upload"
  BY DEF Upload, At
<1>0. job[a] \in Job /\ Shape(job[a]) /\ job[a].item # None
  BY <1>h, Here
<1>1. Len(uploads) + 1 \in Nat \ {0}
  BY DEF TypeInv, TypeOK
<1>2. Good(j)
  <2>1. j \in Job
    BY <1>0, <1>1 DEF Job, PC
  <2>2. Shape(j)
    BY <1>0, <1>h, <1>1 DEF Job, Shape
  <2> QED BY <2>1, <2>2 DEF Good
<1> HIDE DEF j
<1>3. Become(a, j) \/ Fail(a)
  BY DEF Upload, j
<1>4. AllGood'
  BY <1>0, <1>2, <1>3, BecomeGood, FailGood
<1>5. IndexTyped'
  <2>1. CASE AcceptUpload(a)
    BY <1>h, <2>1, AcceptUploadType
  <2>2. CASE UNCHANGED <<uploads, index>>
    BY <2>2 DEF TypeInv, TypeOK, IndexTyped
  <2> QED BY <2>1, <2>2 DEF Upload
<1>6. IndexStep
  BY DEF Upload, IndexStep
<1> QED BY <1>4, <1>5, <1>6, IndexStepType

LEMMA ParseType ==
  ASSUME TypeInv, NEW a \in Actors, Parse(a)
  PROVE  TypeInv'
<1> DEFINE d == job[a].doc
<1>h. job[a].pc = "parse"
  BY DEF Parse, At
<1>0. job[a] \in Job /\ Shape(job[a])
  BY Here
<1>1. ASSUME NEW p \in {"create", "mark"}, p = "mark" => job[a].snap # None
      PROVE  Shape([job[a] EXCEPT !.pc = p])
  BY <1>0, <1>h, <1>1 DEF Job, Shape
<1>2. \/ job[a].snap = None /\ Goto(a, "create")
      \/ job[a].snap # None /\ Goto(a, "mark")
  BY DEF Parse
<1>3. AllGood'
  BY <1>1, <1>2, GotoGood DEF PC
<1>4. IndexStep
  BY DEF Parse, IndexStep
<1>5. ASSUME d \in index, uploads' = [uploads EXCEPT ![d].parsed = TRUE], index' = index
      PROVE  IndexTyped'
  <2>1. d \in DOMAIN uploads /\ uploads \in Seq(Document) /\ uploads[d] \in Document
    BY <1>5 DEF TypeInv, TypeOK
  <2>2. [uploads[d] EXCEPT !.parsed = TRUE] \in Document
    BY <2>1 DEF Document
  <2> QED BY <1>5, <2>1, <2>2 DEF TypeInv, TypeOK, IndexTyped
<1>6. ASSUME UNCHANGED <<uploads, index>> PROVE IndexTyped'
  BY <1>6 DEF TypeInv, TypeOK, IndexTyped
<1> QED BY <1>3, <1>4, <1>5, <1>6, IndexStepType DEF Parse

LEMMA VisibilityUpdateType ==
  ASSUME TypeInv, NEW a \in Actors, VisibilityUpdate(a)
  PROVE  TypeInv'
<1> DEFINE d == job[a].snap.doc
<1>h. job[a].pc = "vupd"
  BY DEF VisibilityUpdate, At
<1>0. job[a] \in Job /\ Shape(job[a])
  BY Here
<1>1. Shape([job[a] EXCEPT !.pc = "vlist"])
  BY <1>0, <1>h DEF Job, Shape
<1>2. IndexStep /\ AllGood'
  BY <1>1, GotoGood, DoneGood DEF VisibilityUpdate, IndexStep, PC
<1>3. ASSUME d \in index, uploads' = [uploads EXCEPT ![d].vis = job[a].vis], index' = index
      PROVE  IndexTyped'
  <2>1. d \in DOMAIN uploads /\ uploads \in Seq(Document) /\ uploads[d] \in Document
    BY <1>3 DEF TypeInv, TypeOK
  <2>2. [uploads[d] EXCEPT !.vis = job[a].vis] \in Document
    BY <1>0, <2>1 DEF Job, Document
  <2> QED BY <1>3, <2>1, <2>2 DEF TypeInv, TypeOK, IndexTyped
<1>4. ASSUME UNCHANGED <<uploads, index>> PROVE IndexTyped'
  BY <1>4 DEF TypeInv, TypeOK, IndexTyped
<1> QED BY <1>2, <1>3, <1>4, IndexStepType DEF VisibilityUpdate

LEMMA RereadType ==
  ASSUME TypeInv, NEW a \in Actors, Reread(a)
  PROVE  TypeInv'
<1> DEFINE r == row[Cur(a)]
           j == [job[a] EXCEPT !.snap = r, !.pc = "mark"]
<1>h. job[a].pc = "reread"
  BY DEF Reread, At
<1>0. job[a] \in Job /\ Shape(job[a]) /\ r \in Row \cup {None}
  BY <1>h, Here
<1> HIDE DEF r
<1>1. ASSUME r # None PROVE Good(j)
  <2>1. j \in Job
    BY <1>0 DEF Job, PC
  <2>2. Shape(j)
    BY <1>0, <1>1, <1>h DEF Job, Shape
  <2> QED BY <2>1, <2>2 DEF Good
<1> HIDE DEF j
<1>2. (r # None /\ Become(a, j)) \/ job' = [b \in Actors |-> Idle]
  BY DEF Reread, r, j
<1>3. AllGood'
  BY <1>1, <1>2, IdleGood, BecomeGood DEF AllGood, Good
<1>4. UNCHANGED <<content, row, owners, uploads, index, edits>> /\ faults' \in Nat
      /\ proc' \in {"up", "crashed", "panicked"}
  BY DEF Reread, TypeInv, TypeOK, Fault, NoFault
<1> QED BY <1>3, <1>4 DEF TypeInv, TypeOK, AllGood

-----------------------------------------------------------------------------
(* Steps of the users and of the process *)

LEMMA LaunchGood ==
  ASSUME TypeInv, NEW a \in Actors, NEW pc \in {"ensure", "vgate", "dgate"},
         NEW c \in Contents, NEW vis \in Visibilities \cup {None}, Launch(a, pc, c, vis)
  PROVE  AllGood'
<1> DEFINE j == [Idle EXCEPT !.pc = pc, !.item = Ticketed(c), !.vis = vis]
<1>1. Idle \in Job /\ Ticketed(c) \in Ticket /\ Ticketed(c) # None
  BY IdleGood, TicketedType, ConstantsOK DEF Good
<1>2. j \in Job
  BY <1>1 DEF Job, PC
<1>3. Shape(j)
  BY <1>1 DEF Idle, Shape
<1> HIDE DEF j
<1> QED BY <1>2, <1>3, BecomeGood DEF Launch, Good, j

LEMMA SpawnGood ==
  ASSUME TypeInv, NEW a \in Actors, NEW pc \in {"ensure", "vgate", "dgate"},
         NEW c \in Contents, NEW vis \in Visibilities \cup {None}, Spawn(a, pc, c, vis)
  PROVE  AllGood' /\ faults' \in Nat
BY LaunchGood DEF Spawn, Fault, NoFault, TypeInv, TypeOK, AllGood

(* What a user's step leaves alone. *)
UserStep == UNCHANGED <<row, owners, uploads, index, proc>> /\ faults' \in Nat /\ edits' \in Nat

LEMMA UserStepType ==
  ASSUME TypeInv, AllGood', UserStep, content' \in [Contents -> Content]
  PROVE  TypeInv'
BY DEF TypeInv, TypeOK, AllGood, UserStep

LEMMA SameJobs ==
  ASSUME TypeInv, UNCHANGED job
  PROVE  AllGood'
BY DEF TypeInv, TypeOK, AllGood

LEMMA LifeType ==
  ASSUME TypeInv, NEW c \in Contents, NEW l \in {"new", "loose", "live", "gone"}
  PROVE  [content EXCEPT ![c].life = l] \in [Contents -> Content]
BY DEF TypeInv, TypeOK, Content

LEMMA CreateType ==
  ASSUME TypeInv, NEW a \in Actors, NEW c \in Contents, Create(a, c)
  PROVE  TypeInv'
BY SpawnGood, LifeType, UserStepType DEF Create, UserStep, TypeInv, TypeOK

LEMMA UploadLooseType ==
  ASSUME TypeInv, NEW c \in Contents, UploadLoose(c)
  PROVE  TypeInv'
BY SameJobs, LifeType, UserStepType DEF UploadLoose, UserStep, TypeInv, TypeOK

LEMMA AttachType ==
  ASSUME TypeInv, NEW a \in Actors, NEW c \in Contents, Attach(a, c)
  PROVE  TypeInv'
BY SpawnGood, SameJobs, LifeType, UserStepType DEF Attach, UserStep, NoFault, TypeInv, TypeOK

LEMMA DetachType ==
  ASSUME TypeInv, NEW c \in Contents, Detach(c)
  PROVE  TypeInv'
BY SameJobs, LifeType, UserStepType DEF Detach, UserStep, TypeInv, TypeOK

LEMMA UpdateType ==
  ASSUME TypeInv, NEW a \in Actors, NEW c \in Contents, Update(a, c)
  PROVE  TypeInv'
<1>1. PICK t \in Texts, v \in Visibilities :
        /\ content' = [content EXCEPT ![c].text = t, ![c].vis = v]
        /\ Spawn(a, "ensure", c, None) \/ Spawn(a, "vgate", c, v)
  BY DEF Update
<1>2. content' \in [Contents -> Content]
  BY <1>1, ZenonT(60) DEF TypeInv, TypeOK, Content
<1>3. AllGood' /\ UserStep
  BY <1>1, SpawnGood DEF Update, UserStep, TypeInv, TypeOK
<1> QED BY <1>2, <1>3, UserStepType

LEMMA MoveType ==
  ASSUME TypeInv, NEW c \in Contents, Move(c)
  PROVE  TypeInv'
<1>1. content' \in [Contents -> Content]
  BY ZenonT(60) DEF Move, TypeInv, TypeOK, Content
<1>2. AllGood' /\ UserStep
  BY SameJobs DEF Move, UserStep, TypeInv, TypeOK
<1> QED BY <1>1, <1>2, UserStepType

LEMMA RemoveType ==
  ASSUME TypeInv, NEW S, Remove(S)
  PROVE  content' \in [Contents -> Content]
<1> SUFFICES ASSUME NEW x \in Contents PROVE [content[x] EXCEPT !.life = "gone"] \in Content
  BY DEF Remove, TypeInv, TypeOK
<1> QED BY DEF TypeInv, TypeOK, Content

LEMMA DeleteType ==
  ASSUME TypeInv, NEW a \in Actors, NEW c \in Contents, Delete(a, c)
  PROVE  TypeInv'
<1>1. content' \in [Contents -> Content]
  BY RemoveType DEF Delete
<1>2. AllGood' /\ UserStep
  BY LaunchGood DEF Delete, UserStep, TypeInv, TypeOK
<1> QED BY <1>1, <1>2, UserStepType

LEMMA DeleteAgainType ==
  ASSUME TypeInv, NEW a \in Actors, NEW c \in Contents, DeleteAgain(a, c)
  PROVE  TypeInv'
<1>1. content' \in [Contents -> Content]
  <2>1. [content[c] EXCEPT !.twice = TRUE] \in Content
    BY DEF TypeInv, TypeOK, Content
  <2> QED BY <2>1 DEF DeleteAgain, TypeInv, TypeOK
<1>2. AllGood' /\ UserStep
  BY LaunchGood DEF DeleteAgain, UserStep, TypeInv, TypeOK
<1> QED BY <1>1, <1>2, UserStepType

(* The steps of the MCP tools. *)
Silently(c) == CreateSilently(c) \/ UpdateSilently(c) \/ DeleteSilently(c)

LEMMA SilentlyType ==
  ASSUME TypeInv, NEW c \in Contents, Silently(c)
  PROVE  TypeInv'
<1>1. CASE CreateSilently(c)
  BY <1>1, SameJobs, LifeType, UserStepType DEF CreateSilently, Silent, UserStep, TypeInv, TypeOK
<1>2. CASE UpdateSilently(c)
  <2>1. PICK t \in Texts, v \in Visibilities :
          content' = [content EXCEPT ![c].text = t, ![c].vis = v]
    BY <1>2 DEF UpdateSilently
  <2>2. content' \in [Contents -> Content]
    BY <2>1, ZenonT(60) DEF TypeInv, TypeOK, Content
  <2>3. AllGood' /\ UserStep
    BY <1>2, SameJobs DEF UpdateSilently, Silent, UserStep, TypeInv, TypeOK
  <2> QED BY <2>2, <2>3, UserStepType
<1>3. CASE DeleteSilently(c)
  <2>1. content' \in [Contents -> Content]
    BY <1>3, RemoveType DEF DeleteSilently
  <2>2. AllGood' /\ UserStep
    BY <1>3, SameJobs DEF DeleteSilently, Silent, UserStep, TypeInv, TypeOK
  <2> QED BY <2>1, <2>2, UserStepType
<1> QED BY <1>1, <1>2, <1>3 DEF Silently

LEMMA ProcessType ==
  ASSUME TypeInv, Crash \/ Restart
  PROVE  TypeInv'
<1>1. AllGood'
  BY IdleGood, SameJobs DEF Crash, Restart, AllGood, Good
<1>2. UNCHANGED <<content, row, owners, uploads, index, edits>> /\ faults' \in Nat
      /\ proc' \in {"up", "crashed", "panicked"}
  BY DEF Crash, Restart, Fault, TypeInv, TypeOK
<1> QED BY <1>1, <1>2 DEF TypeInv, TypeOK, AllGood
-----------------------------------------------------------------------------
(* The theorem *)

LEMMA InitType == Init => TypeInv
<1> SUFFICES ASSUME Init PROVE TypeInv
  OBVIOUS
<1>1. Good(Idle)
  BY IdleGood
<1>2. content \in [Contents -> Content] /\ row \in [Contents -> Row \cup {None}]
  BY DEF Init, Content
<1>3. owners \in Seq(Contents) /\ uploads \in Seq(Document) /\ index \subseteq DOMAIN uploads
  BY DEF Init
<1> QED BY <1>1, <1>2, <1>3 DEF Init, TypeInv, TypeOK, Good

LEMMA NextType == TypeInv /\ [Next]_vars => TypeInv'
<1> SUFFICES ASSUME TypeInv, [Next]_vars PROVE TypeInv'
  OBVIOUS
<1>1. CASE User
  <2>1. ASSUME NEW a \in Actors, NEW c \in Contents,
               Create(a, c) \/ Attach(a, c) \/ Update(a, c) \/ Delete(a, c) \/ DeleteAgain(a, c)
        PROVE  TypeInv'
    BY <2>1, CreateType, AttachType, UpdateType, DeleteType, DeleteAgainType
  <2>2. ASSUME NEW c \in Contents, UploadLoose(c) \/ Detach(c) \/ Move(c) \/ Silently(c)
        PROVE  TypeInv'
    BY <2>2, UploadLooseType, DetachType, MoveType, SilentlyType
  <2> QED BY <1>1, <2>1, <2>2 DEF User, Silently
<1>2. CASE Crash \/ Restart
  BY <1>2, ProcessType
<1>3. ASSUME NEW a \in Actors, Step(a) PROVE TypeInv'
  BY <1>3, EnsureReadType, EnsureInsertType, GateType, ResolveType, ReadContentType,
     ReadStateType, MarkSkippedType, DeleteOldType, UploadType, ParseType, CreateRowType, RereadType,
     MarkSyncedType, UpdateHashType, DeleteReadType, DeleteDocType, DeleteRowType,
     VisibilityReadType, VisibilityUpdateType, ListAttachmentsType, ListType, NextItemType,
     ResetRowType, MarkFailedType DEF Step
<1>4. ASSUME NEW a \in Actors, StartBatch(a) PROVE TypeInv'
  BY <1>4, StartBatchType
<1>5. CASE UNCHANGED vars
  BY <1>5 DEF vars, TypeInv, TypeOK
<1> QED BY <1>1, <1>2, <1>3, <1>4, <1>5 DEF Next

(* A goroutine that reaches a query has in hand what the query is made from:  *)
(* the content, the dataset, the row or the document read before.            *)
THEOREM TypesHold == Spec => []TypeInv
BY InitType, NextType, PTL DEF Spec

(* Every variable holds what the code can store in it. *)
THEOREM TypeCorrect == Spec => []TypeOK
<1>1. TypeInv => TypeOK
  BY DEF TypeInv
<1> QED BY <1>1, TypesHold, PTL

-----------------------------------------------------------------------------
(* Ids and documents stay their content's *)

HIDE DEF LastStage, OfAttachments, Resting, Resolved, TextRead, RowRead, Uploaded, Looping

(* What was given out stays given out. *)
Kept ==
  /\ \A i \in DOMAIN owners : i \in DOMAIN owners' /\ owners'[i] = owners[i]
  /\ \A i \in DOMAIN uploads : i \in DOMAIN uploads' /\ uploads'[i].of = uploads[i].of

LEMMA OwnersKept ==
  ASSUME TypeInv, UNCHANGED owners \/ \E c \in Contents : owners' = Append(owners, c)
  PROVE  \A i \in DOMAIN owners : i \in DOMAIN owners' /\ owners'[i] = owners[i]
<1>1. owners \in Seq(Contents)
  BY DEF TypeInv, TypeOK
<1>2. ASSUME NEW c \in Contents, owners' = Append(owners, c), NEW i \in DOMAIN owners
      PROVE  i \in DOMAIN owners' /\ owners'[i] = owners[i]
  BY <1>1, <1>2
<1> QED BY <1>2

LEMMA AppendKept ==
  ASSUME TypeInv, NEW d \in Document, uploads' = Append(uploads, d)
  PROVE  \A i \in DOMAIN uploads : i \in DOMAIN uploads' /\ uploads'[i].of = uploads[i].of
BY DEF TypeInv, TypeOK

LEMMA RelabelKept ==
  ASSUME TypeInv, NEW d \in DOMAIN uploads, NEW v, uploads' = [uploads EXCEPT ![d].vis = v]
  PROVE  \A i \in DOMAIN uploads : i \in DOMAIN uploads' /\ uploads'[i].of = uploads[i].of
BY DEF TypeInv, TypeOK, Document

-----------------------------------------------------------------------------
(* The parts of the invariant over steps that keep what was given out *)

LEMMA OthersOwned ==
  ASSUME TypeInv, Ownership, Kept
  PROVE  \A j : JobOwned(j) => JobOwned(j)'
BY DEF JobOwned, IdOf, DocOf, Kept

LEMMA RowsStayOwned ==
  ASSUME TypeInv, Ownership, Kept, UNCHANGED row
  PROVE  RowsOwned'
BY DEF Ownership, RowsOwned, IdOf, DocOf, Kept
LEMMA SameKept ==
  ASSUME TypeInv, UNCHANGED <<owners, uploads>>
  PROVE  Kept
BY DEF Kept

USE DEF Resting

AllOwned == \A b \in Actors : JobOwned(job[b])

LEMMA BecomeNewOwned ==
  ASSUME TypeInv, Ownership, Kept, NEW a \in Actors, NEW j, Become(a, j), JobOwned(j)'
  PROVE  AllOwned'
<1>1. ASSUME NEW b \in Actors PROVE job'[b] = j \/ (job'[b] = job[b] /\ JobOwned(job[b]))
  BY DEF Become, TypeInv, TypeOK, Ownership
<1>2. ASSUME NEW b \in Actors PROVE JobOwned(job[b])'
  <2>1. PICK k : k = job'[b]
    OBVIOUS
  <2>2. JobOwned(k)'
    BY <1>1, <2>1, OthersOwned
  <2> QED BY <2>1, <2>2 DEF JobOwned
<1> QED BY <1>2 DEF AllOwned

LEMMA BecomeOwned ==
  ASSUME TypeInv, Ownership, Kept, NEW a \in Actors, NEW j, Become(a, j), JobOwned(j)
  PROVE  AllOwned'
BY OthersOwned, BecomeNewOwned

LEMMA IdleOwned == JobOwned(Idle)
BY DEF Idle, JobOwned

LEMMA DoneOwned ==
  ASSUME TypeInv, Ownership, Kept, NEW a \in Actors, Done(a)
  PROVE  AllOwned'
<1>1. JobOwned(job[a])
  BY DEF Ownership
<1>2. JobOwned(Rest(a, "next"))
  BY <1>1 DEF Rest, Idle, JobOwned
<1> QED BY <1>2, IdleOwned, BecomeOwned DEF Done

LEMMA FailOwned ==
  ASSUME TypeInv, Ownership, Kept, NEW a \in Actors, Fail(a)
  PROVE  AllOwned'
<1> DEFINE j == [Rest(a, "markFailed") EXCEPT !.item = job[a].item]
<1>1. JobOwned(job[a])
  BY DEF Ownership
<1>2. JobOwned(j)
  BY <1>1 DEF Rest, Idle, JobOwned, DocOf
<1> HIDE DEF j
<1>3. Become(a, Idle) \/ Become(a, j)
  BY DEF Fail, j
<1> QED BY <1>2, <1>3, IdleOwned, BecomeOwned

LEMMA GotoOwned ==
  ASSUME TypeInv, Ownership, Kept, NEW a \in Actors, NEW p \in PC, Goto(a, p),
         p \in Resting => job[a].pc \in Resting
  PROVE  AllOwned'
<1>1. JobOwned(job[a]) /\ job[a] \in Job
  BY DEF Ownership, TypeInv, TypeOK
<1>2. JobOwned([job[a] EXCEPT !.pc = p])
  BY <1>1 DEF JobOwned, Job
<1> QED BY <1>2, BecomeOwned DEF Goto

(* A goroutine takes up the row of the content it works on. *)
LEMMA SnapOwned ==
  ASSUME TypeInv, Ownership, NEW a \in Actors, job[a].item # None, row[Cur(a)] # None,
         Cur(a) \in Contents, NEW p \in PC \ Resting
  PROVE  JobOwned([job[a] EXCEPT !.snap = row[Cur(a)], !.pc = p])
<1> DEFINE r == row[Cur(a)]
<1>1. JobOwned(job[a]) /\ job[a] \in Job
  BY DEF Ownership, TypeInv, TypeOK
<1>2. r.of = Cur(a) /\ IdOf(r.id, r.of) /\ DocOf(r.doc, r.of)
  BY DEF Ownership, RowsOwned
<1> HIDE DEF r
<1>3. JobOwned([job[a] EXCEPT !.snap = r, !.pc = p])
  BY <1>1, <1>2 DEF JobOwned, Job, Cur
<1> QED BY <1>3 DEF r

-----------------------------------------------------------------------------
(* Steps that change nothing but the goroutine *)

LEMMA OnlyJobOwned ==
  ASSUME TypeInv, Ownership, OthersUnchanged, AllOwned'
  PROVE  Ownership'
<1>1. Kept
  BY SameKept DEF OthersUnchanged
<1>2. RowsOwned'
  BY <1>1, RowsStayOwned DEF OthersUnchanged
<1> QED BY <1>2 DEF AllOwned, Ownership

LEMMA EnsuredOwned ==
  ASSUME TypeInv, Ownership, Kept, NEW a \in Actors, Ensured(a)
  PROVE  AllOwned'
BY GotoOwned, DoneOwned DEF Ensured, PC

LEMMA EventOwned ==
  ASSUME TypeInv, Ownership, NEW a \in Actors,
         EnsureRead(a) \/ Gate(a) \/ Resolve(a) \/ ReadContent(a)
  PROVE  Ownership'
<1>0. OthersUnchanged /\ Kept
  BY SameKept DEF EnsureRead, Gate, Resolve, ReadContent, OthersUnchanged
<1>1. CASE EnsureRead(a)
  BY <1>0, <1>1, EnsuredOwned, GotoOwned, OnlyJobOwned DEF EnsureRead, PC
<1>2. CASE Gate(a)
  <2>1. job[a].pc \in {"gate", "dgate", "vgate", "bgate"}
    BY <1>2 DEF Gate
  <2>2. \/ \E p \in {"resolve", "dread", "vread"} : Goto(a, p)
        \/ job[a].pc = "bgate" /\ Goto(a, "list")
        \/ Become(a, Idle)
    BY <1>2, <2>1 DEF Gate
  <2> QED BY <1>0, <2>2, IdleOwned, GotoOwned, BecomeOwned, OnlyJobOwned DEF PC
<1>3. CASE Resolve(a)
  <2> DEFINE j == [job[a] EXCEPT !.pc = "read", !.ds = Home(Cur(a))]
  <2>1. JobOwned(job[a]) /\ job[a] \in Job
    BY DEF Ownership, TypeInv, TypeOK
  <2>2. JobOwned(j)
    BY <2>1 DEF JobOwned, Job
  <2> HIDE DEF j
  <2>3. Become(a, j) \/ Done(a)
    BY <1>3 DEF Resolve, j
  <2> QED BY <1>0, <2>2, <2>3, DoneOwned, BecomeOwned, OnlyJobOwned
<1>4. CASE ReadContent(a)
  <2> DEFINE j == [job[a] EXCEPT !.pc = "state", !.text = content[Cur(a)].text,
             !.vis = IF Cur(a) \in Files THEN None ELSE content[Cur(a)].vis]
  <2>1. JobOwned(job[a]) /\ job[a] \in Job
    BY DEF Ownership, TypeInv, TypeOK
  <2>2. JobOwned(j)
    BY <2>1 DEF JobOwned, Job
  <2> HIDE DEF j
  <2>3. Become(a, j) \/ Fail(a)
    BY <1>4 DEF ReadContent, j
  <2> QED BY <1>0, <2>2, <2>3, FailOwned, BecomeOwned, OnlyJobOwned
<1> QED BY <1>1, <1>2, <1>3, <1>4
LEMMA ReadsOwned ==
  ASSUME TypeInv, Ownership, NEW a \in Actors,
         ReadState(a) \/ DeleteRead(a) \/ VisibilityRead(a)
  PROVE  Ownership'
<1> DEFINE r == row[Cur(a)]
           j(p) == [job[a] EXCEPT !.snap = r, !.pc = p]
<1>h. job[a].pc \in {"state", "dread", "vread"}
  BY DEF ReadState, DeleteRead, VisibilityRead, At
<1>0. OthersUnchanged /\ Kept
  BY SameKept DEF ReadState, DeleteRead, VisibilityRead, OthersUnchanged
<1>1. job[a].item # None /\ Cur(a) \in Contents
  BY <1>h, Here
<1>2. ASSUME r # None, NEW p \in PC \ Resting PROVE JobOwned(j(p))
  BY <1>1, <1>2, SnapOwned
<1>3. ASSUME r = None, NEW p \in PC \ Resting PROVE JobOwned(j(p))
  <2>1. JobOwned(job[a]) /\ job[a] \in Job
    BY DEF Ownership, TypeInv, TypeOK
  <2> QED BY <1>3, <2>1 DEF JobOwned, Job
<1>4. \/ \E p \in {"unindex", "upload", "skip", "ddoc", "drow", "vupd"} : Become(a, j(p))
      \/ Fail(a) \/ Done(a) \/ Goto(a, "vlist")
  <2> HIDE DEF r
  <2>1. CASE ReadState(a)
    BY <2>1 DEF ReadState, r
  <2>2. CASE DeleteRead(a)
    BY <2>2 DEF DeleteRead, r
  <2>3. CASE VisibilityRead(a)
    BY <2>3 DEF VisibilityRead, r
  <2> QED BY <2>1, <2>2, <2>3
<1> HIDE DEF j, r
<1>5. \A p \in {"unindex", "upload", "skip", "ddoc", "drow", "vupd"} : JobOwned(j(p))
  BY <1>2, <1>3 DEF PC
<1>6. AllOwned'
  BY <1>0, <1>4, <1>5, BecomeOwned, FailOwned, DoneOwned, GotoOwned DEF PC
<1> QED BY <1>0, <1>6, OnlyJobOwned

LEMMA ListAttachmentsOwned ==
  ASSUME TypeInv, Ownership, NEW a \in Actors, ListAttachments(a)
  PROVE  Ownership'
<1> DEFINE j(S) == [Idle EXCEPT !.pc = "next", !.phase = OfAttachments, !.vis = job[a].vis,
                                !.todo = {Ticketed(f) : f \in S}]
<1>0. OthersUnchanged /\ Kept
  BY SameKept DEF ListAttachments, OthersUnchanged
<1>2. ASSUME NEW S PROVE JobOwned(j(S))
  <2>1. \A t \in {Ticketed(f) : f \in S} : IdOf(t.id, t.of)
    BY DEF Ticketed, IdOf
  <2> QED BY <2>1 DEF JobOwned, Idle
<1> HIDE DEF j
<1>3. (\E S : Become(a, j(S))) \/ Done(a)
  BY DEF ListAttachments, j
<1> QED BY <1>0, <1>2, <1>3, DoneOwned, BecomeOwned, OnlyJobOwned

LEMMA ListingsOwned ==
  ASSUME TypeInv, Ownership, NEW p \in 1..LastStage, NEW todo \in Listings(p)
  PROVE  \A t \in todo : IdOf(t.id, t.of)
<1>1. \A S : \A t \in Exists(S) : IdOf(t.id, t.of)
  BY DEF Exists, Ticketed, IdOf
<1>2. \A r \in Rows : IdOf(TicketOf(r).id, TicketOf(r).of)
  BY DEF Rows, Ownership, RowsOwned, TicketOf
<1>3. \A S : \A t \in Pending(S) : IdOf(t.id, t.of)
  BY <1>2 DEF Pending, Newest, WithStatus
<1>4. Resettable \subseteq Rows /\ Retryable \subseteq Rows
  BY DEF Resettable, Retryable, Newest, WithStatus
<1>5. \A S \in SUBSET Rows : \A t \in {TicketOf(r) : r \in S} : IdOf(t.id, t.of)
  BY <1>2
<1> QED BY <1>1, <1>3, <1>4, <1>5 DEF Listings, LastStage

LEMMA LoopOwned ==
  ASSUME TypeInv, Ownership, NEW a \in Actors, List(a) \/ NextItem(a) \/ StartBatch(a)
  PROVE  Ownership'
<1>0. UNCHANGED <<content, row, owners, uploads, index, proc, edits>> /\ Kept
  BY SameKept DEF List, NextItem, StartBatch, OthersUnchanged
<1>1. JobOwned(job[a]) /\ job[a] \in Job /\ Shape(job[a])
  BY Here DEF Ownership
<1>2. CASE List(a)
  <2>1. job[a].pc = "list" /\ job[a].phase \in 1..LastStage
    BY <1>1, <1>2 DEF List, At, Shape
  <2>2. ASSUME NEW todo \in Listings(job[a].phase)
        PROVE  JobOwned([job[a] EXCEPT !.todo = todo, !.pc = "next"])
    <3>1. \A t \in todo : IdOf(t.id, t.of)
      BY <2>1, ListingsOwned
    <3> QED BY <1>1, <2>1, <3>1 DEF JobOwned, Job
  <2> QED BY <1>0, <1>2, <2>1, <2>2, BecomeOwned, GotoOwned, OnlyJobOwned
          DEF List, OthersUnchanged, PC
<1>3. CASE NextItem(a)
  <2>0. job[a].pc = "next" /\ job[a].phase # 0
    BY <1>1, <1>3 DEF NextItem, At, Shape, Looping
  <2>1. job[a].pc = "next" /\ job[a].phase \in 1..7
    BY <1>1, <2>0 DEF Job, Phases
  <2>2. First(job[a].phase) \notin Resting
    BY <2>1 DEF First
  <2>3. ASSUME NEW t \in job[a].todo
        PROVE  JobOwned([job[a] EXCEPT !.pc = First(job[a].phase), !.item = t, !.todo = @ \ {t}])
    BY <1>1, <2>1, <2>2 DEF JobOwned, Job, DocOf
  <2>4. JobOwned([job[a] EXCEPT !.pc = "list", !.phase = @ + 1])
    BY <1>1, <2>1 DEF JobOwned, Job
  <2>5. AllOwned'
    BY <1>0, <1>3, <2>3, <2>4, IdleOwned, BecomeOwned DEF NextItem
  <2> QED BY <1>0, <2>5, OnlyJobOwned DEF OthersUnchanged
<1>4. CASE StartBatch(a)
  <2> DEFINE j == [Idle EXCEPT !.pc = "bgate", !.phase = 1]
  <2>1. JobOwned(j)
    BY DEF JobOwned, Idle
  <2> HIDE DEF j
  <2>2. Become(a, j)
    BY <1>4 DEF StartBatch, j
  <2> QED BY <1>0, <2>1, <2>2, BecomeOwned, OnlyJobOwned DEF OthersUnchanged
<1> QED BY <1>2, <1>3, <1>4

-----------------------------------------------------------------------------
(* Steps over the index *)

LEMMA IndexOwned ==
  ASSUME TypeInv, Ownership, IndexStep, Kept, AllOwned'
  PROVE  Ownership'
<1>1. RowsOwned'
  BY RowsStayOwned DEF IndexStep
<1> QED BY <1>1 DEF AllOwned, Ownership

LEMMA UnindexOwned ==
  ASSUME TypeInv, Ownership, NEW a \in Actors, DeleteOld(a) \/ DeleteDoc(a) \/ VisibilityUpdate(a)
  PROVE  Ownership'
<1>h. job[a].pc \in {"unindex", "ddoc", "vupd"}
  BY DEF DeleteOld, DeleteDoc, VisibilityUpdate, At
<1>1. IndexStep
  BY DEF DeleteOld, DeleteDoc, VisibilityUpdate, IndexStep
<1>2. Kept
  <2>1. owners' = owners
    BY <1>1 DEF IndexStep
  <2>2. CASE UNCHANGED uploads
    BY <2>1, <2>2, SameKept
  <2>3. CASE job[a].snap.doc \in index
               /\ uploads' = [uploads EXCEPT ![job[a].snap.doc].vis = job[a].vis]
    BY <2>1, <2>3, RelabelKept, OwnersKept DEF TypeInv, TypeOK, Kept
  <2> QED BY <2>2, <2>3 DEF DeleteOld, DeleteDoc, VisibilityUpdate
<1>3. AllOwned'
  BY <1>2, GotoOwned, DoneOwned DEF DeleteOld, DeleteDoc, VisibilityUpdate, PC
<1> QED BY <1>1, <1>2, <1>3, IndexOwned
LEMMA AcceptOwned ==
  ASSUME TypeInv, NEW a \in Actors, job[a].pc = "upload", AcceptUpload(a), UNCHANGED owners
  PROVE  Kept /\ \A c : c = Cur(a) => \A n : n = Len(uploads) + 1 => DocOf(n, c)'
<1>1. PICK d \in Document : d.of = Cur(a) /\ uploads' = Append(uploads, d)
  BY AcceptedDocument
<1>2. Kept
  BY <1>1, AppendKept, OwnersKept DEF Kept
<1>3. Len(uploads) + 1 \in DOMAIN uploads' /\ uploads'[Len(uploads) + 1] = d
  BY <1>1 DEF TypeInv, TypeOK
<1> QED BY <1>1, <1>2, <1>3 DEF DocOf

LEMMA ParseOwned ==
  ASSUME TypeInv, Ownership, NEW a \in Actors, Parse(a)
  PROVE  Ownership'
<1>h. job[a].pc = "parse"
  BY DEF Parse, At
<1>1. IndexStep
  BY DEF Parse, IndexStep
<1>2. Kept
  <2>1. owners' = owners
    BY <1>1 DEF IndexStep
  <2>2. CASE UNCHANGED uploads
    BY <2>1, <2>2, SameKept
  <2>3. CASE job[a].doc \in index /\ uploads' = [uploads EXCEPT ![job[a].doc].parsed = TRUE]
    BY <2>1, <2>3 DEF TypeInv, TypeOK, Document, Kept
  <2> QED BY <2>2, <2>3 DEF Parse
<1>3. AllOwned'
  BY <1>h, <1>2, GotoOwned DEF Parse, PC
<1> QED BY <1>1, <1>2, <1>3, IndexOwned

LEMMA UploadOwned ==
  ASSUME TypeInv, Ownership, NEW a \in Actors, Upload(a)
  PROVE  Ownership'
<1>h. job[a].pc = "upload"
  BY DEF Upload, At
<1>0. IndexStep /\ UNCHANGED owners
  BY DEF Upload, IndexStep
<1>1. CASE AcceptUpload(a) /\ Fail(a)
  BY <1>h, <1>0, <1>1, AcceptOwned, FailOwned, IndexOwned
<1>2. CASE UNCHANGED <<uploads, index>> /\ Fail(a)
  BY <1>0, <1>2, SameKept, FailOwned, IndexOwned
<1>3. ASSUME AcceptUpload(a), Become(a, [job[a] EXCEPT !.doc = Len(uploads) + 1, !.pc = "parse"])
      PROVE  Ownership'
  <2>1. PICK n, j, t : /\ n = Len(uploads) + 1 /\ t = Cur(a)
                       /\ j = [job[a] EXCEPT !.doc = n, !.pc = "parse"]
    OBVIOUS
  <2>2. Kept /\ DocOf(n, t)'
    BY <1>h, <1>0, <1>3, <2>1, AcceptOwned
  <2>3. JobOwned(job[a]) /\ job[a] \in Job /\ job[a].item # None
    BY <1>h, Here DEF Ownership
  <2>4. /\ j.todo = job[a].todo /\ j.item = job[a].item /\ j.snap = job[a].snap
        /\ j.doc = n /\ j.pc = "parse" /\ t = j.item.of
    BY <2>1, <2>3 DEF Job, Cur
  <2>5. PICK k : k = job[a]
    OBVIOUS
  <2>6. JobOwned(k)'
    BY <2>2, <2>3, <2>5, OthersOwned
  <2>7. JobOwned(j)'
    BY <2>2, <2>4, <2>5, <2>6 DEF JobOwned
  <2> QED BY <1>0, <1>3, <2>1, <2>2, <2>7, BecomeNewOwned, IndexOwned
<1> QED BY <1>1, <1>2, <1>3 DEF Upload

-----------------------------------------------------------------------------
(* Steps over content_sync_state *)

(* A row stays as it is, goes, or keeps its id with a document of its own.   *)
Follows(old, new, c) ==
  \/ new = old
  \/ new = None
  \/ old # None /\ new.of = old.of /\ new.id = old.id /\ (new.doc = old.doc \/ DocOf(new.doc, c))

LEMMA FollowOwned ==
  ASSUME TypeInv, Ownership, Kept, \A c \in Contents : Follows(row[c], row'[c], c)
  PROVE  RowsOwned'
BY DEF Ownership, RowsOwned, Follows, IdOf, DocOf, Kept

LEMMA RowOwned ==
  ASSUME TypeInv, Ownership, RowStep, UNCHANGED owners,
         \A c \in Contents : Follows(row[c], row'[c], c),
         Kept => AllOwned'
  PROVE  Ownership'
<1>1. Kept
  BY SameKept DEF RowStep
<1> QED BY <1>1, FollowOwned DEF AllOwned, Ownership

LEMMA InsertOwned ==
  ASSUME TypeInv, Ownership, RowStep, NEW c \in Contents, NEW h, InsertRow(c, h)
  PROVE  Kept /\ RowsOwned'
<1>0. owners' = Append(owners, c) /\ UNCHANGED uploads /\ owners \in Seq(Contents)
  BY DEF InsertRow, RowStep, TypeInv, TypeOK
<1>1. Kept
  BY <1>0, OwnersKept DEF Kept
<1>2. ASSUME NEW x \in Contents, row'[x] # None
      PROVE  row'[x].of = x /\ IdOf(row[x].id, x)' /\ DocOf(row[x].doc, x)'
  <2>1. CASE x = c
    <3>1. row'[c].of = c /\ row'[c].id = Len(owners) + 1 /\ row'[c].doc = 0
      BY DEF InsertRow, NextId, TypeInv, TypeOK
    <3>2. Len(owners) + 1 \in DOMAIN owners' /\ owners'[Len(owners) + 1] = c
      BY <1>0
    <3> QED BY <2>1, <3>1, <3>2 DEF IdOf, DocOf
  <2>2. CASE x # c
    <3>1. row'[x] = row[x]
      BY <2>2 DEF InsertRow, TypeInv, TypeOK
    <3>2. row[x].of = x /\ IdOf(row[x].id, x) /\ DocOf(row[x].doc, x)
      BY <1>2, <3>1 DEF Ownership, RowsOwned
    <3> QED BY <1>1, <3>1, <3>2 DEF IdOf, DocOf, Kept
  <2> QED BY <2>1, <2>2
<1> QED BY <1>1, <1>2 DEF RowsOwned

LEMMA EnsureInsertOwned ==
  ASSUME TypeInv, Ownership, NEW a \in Actors, EnsureInsert(a)
  PROVE  Ownership'
<1>h. job[a].pc = "insert"
  BY DEF EnsureInsert, At
<1>0. Cur(a) \in Contents /\ RowStep
  BY <1>h, Here DEF EnsureInsert, RowStep
<1>1. Kept /\ RowsOwned'
  <2>1. CASE InsertRow(Cur(a), None)
    BY <1>0, <2>1, InsertOwned
  <2>2. CASE UNCHANGED <<row, owners>>
    BY <1>0, <2>2, SameKept, RowsStayOwned DEF RowStep
  <2> QED BY <2>1, <2>2 DEF EnsureInsert
<1>2. AllOwned'
  BY <1>1, EnsuredOwned DEF EnsureInsert
<1> QED BY <1>1, <1>2 DEF AllOwned, Ownership
LEMMA CreateRowOwned ==
  ASSUME TypeInv, Ownership, NEW a \in Actors, CreateRow(a)
  PROVE  Ownership'
<1>h. job[a].pc = "create"
  BY DEF CreateRow, At
<1>0. Cur(a) \in Contents /\ RowStep
  BY <1>h, Here DEF CreateRow, RowStep
<1>1. Kept /\ RowsOwned'
  <2>1. CASE InsertRow(Cur(a), job[a].text)
    BY <1>0, <2>1, InsertOwned
  <2>2. CASE UNCHANGED <<row, owners>>
    BY <1>0, <2>2, SameKept, RowsStayOwned DEF RowStep
  <2>3. ASSUME NEW id, UpdateRow(id, LAMBDA r : Overwritten(r, job[a].text))
        PROVE  Kept /\ RowsOwned'
    <3>1. Kept
      BY <1>0, <2>3, SameKept DEF UpdateRow, RowStep
    <3>2. ASSUME NEW c \in Contents PROVE Follows(row[c], row'[c], c)
      BY <2>3 DEF UpdateRow, Overwritten, Follows, DocOf, TypeInv, TypeOK, Row
    <3> QED BY <3>1, <3>2, FollowOwned
  <2> QED BY <2>1, <2>2, <2>3 DEF CreateRow, UpsertPending
<1>2. AllOwned'
  BY <1>1, GotoOwned, FailOwned DEF CreateRow, PC
<1> QED BY <1>1, <1>2 DEF AllOwned, Ownership

LEMMA SameFollow ==
  ASSUME UNCHANGED row
  PROVE  \A c \in Contents : Follows(row[c], row'[c], c)
BY DEF Follows

(* A row is marked by the id it was read with, and ids are never given twice. *)
LEMMA MarkSyncedOwned ==
  ASSUME TypeInv, Ownership, NEW a \in Actors, MarkSynced(a)
  PROVE  Ownership'
<1>h. job[a].pc = "mark"
  BY DEF MarkSynced, At
<1>0. /\ job[a].item # None /\ job[a].snap # None
      /\ job[a].snap \in Row
  BY <1>h, Here DEF Shape, RowRead, Job
<1>1. /\ IdOf(job[a].snap.id, job[a].item.of)
      /\ DocOf(job[a].doc, job[a].item.of)
  BY <1>0 DEF Ownership, JobOwned
<1>2. ASSUME UpdateRow(job[a].snap.id, LAMBDA r : Synced(r, job[a].ds, job[a].doc)),
             NEW c \in Contents
      PROVE  Follows(row[c], row'[c], c)
  <2>1. CASE row[c] # None /\ row[c].id = job[a].snap.id
    <3>1. row[c] \in Row /\ IdOf(row[c].id, c)
      BY <2>1 DEF Ownership, RowsOwned, TypeInv, TypeOK
    <3>2. c = job[a].item.of
      BY <1>0, <1>1, <2>1, <3>1 DEF IdOf, Row
    <3>3. row'[c] = Synced(row[c], job[a].ds, job[a].doc)
      BY <1>2, <2>1 DEF UpdateRow
    <3> QED BY <1>1, <2>1, <3>1, <3>2, <3>3 DEF Synced, Follows, Row
  <2>2. CASE ~(row[c] # None /\ row[c].id = job[a].snap.id)
    BY <1>2, <2>2 DEF UpdateRow, Follows
  <2> QED BY <2>1, <2>2
<1>3. RowStep /\ UNCHANGED owners
  BY DEF MarkSynced, RowStep, UpdateRow
<1>4. \A c \in Contents : Follows(row[c], row'[c], c)
  BY <1>2, SameFollow DEF MarkSynced
<1>5. Kept => AllOwned'
  BY GotoOwned, FailOwned DEF MarkSynced, PC
<1> QED BY <1>3, <1>4, <1>5, RowOwned

LEMMA MarksOwned ==
  ASSUME TypeInv, Ownership, NEW a \in Actors,
         MarkSkipped(a) \/ UpdateHash(a) \/ ResetRow(a) \/ MarkFailed(a) \/ DeleteRow(a)
  PROVE  Ownership'
<1>1. RowStep /\ UNCHANGED owners
  BY DEF MarkSkipped, UpdateHash, ResetRow, MarkFailed, DeleteRow, RowStep, UpdateRow
<1>2. Kept => AllOwned'
  BY DoneOwned DEF MarkSkipped, UpdateHash, ResetRow, MarkFailed, DeleteRow
<1>3. ASSUME NEW c \in Contents PROVE Follows(row[c], row'[c], c)
  <2>0. row[c] # None => row[c] \in Row
    BY DEF TypeInv, TypeOK
  <2>1. CASE MarkSkipped(a)
    BY <2>0, <2>1, SameFollow DEF MarkSkipped, UpdateRow, Follows, Row
  <2>2. CASE UpdateHash(a)
    BY <2>0, <2>2, SameFollow DEF UpdateHash, UpdateRow, Follows, Row
  <2>3. CASE ResetRow(a)
    BY <2>0, <2>3, SameFollow, ZenonT(60) DEF ResetRow, UpdateRow, Reset, Follows, Row
  <2>4. CASE MarkFailed(a)
    <3>1. \A r \in Row : \A n : LET f == Failed(r, n) IN f.of = r.of /\ f.id = r.id /\ f.doc = r.doc
      BY DEF Failed, Row
    <3> QED BY <2>0, <2>4, <3>1, SameFollow DEF MarkFailed, UpdateRow, Follows
  <2>5. CASE DeleteRow(a)
    BY <2>5, SameFollow DEF DeleteRow, Follows, TypeInv, TypeOK
  <2> QED BY <2>1, <2>2, <2>3, <2>4, <2>5
<1> QED BY <1>1, <1>2, <1>3, RowOwned

LEMMA RereadOwned ==
  ASSUME TypeInv, Ownership, NEW a \in Actors, Reread(a)
  PROVE  Ownership'
<1>h. job[a].pc = "reread"
  BY DEF Reread, At
<1>0. UNCHANGED <<content, row, owners, uploads, index, edits>>
  BY DEF Reread
<1>1. Kept /\ RowsOwned'
  BY <1>0, SameKept, RowsStayOwned
<1>2. CASE job' = [b \in Actors |-> Idle]
  BY <1>2, <1>1 DEF Ownership, JobOwned, Idle
<1>3. CASE row[Cur(a)] # None /\ Become(a, [job[a] EXCEPT !.snap = row[Cur(a)], !.pc = "mark"])
  <2>1. job[a].item # None /\ Cur(a) \in Contents
    BY <1>h, Here
  <2>2. JobOwned([job[a] EXCEPT !.snap = row[Cur(a)], !.pc = "mark"])
    BY <1>3, <2>1, SnapOwned DEF PC
  <2> QED BY <1>1, <1>3, <2>2, BecomeOwned DEF AllOwned, Ownership
<1> QED BY <1>2, <1>3 DEF Reread

-----------------------------------------------------------------------------
(* Steps of the users and of the process *)

(* What users and MCP tools write, and the goroutine they may start. *)
LEMMA UserTouches ==
  ASSUME User
  PROVE  UNCHANGED <<row, owners, uploads, index, proc>>
BY DEF User, Create, Attach, Update, Delete, DeleteAgain, UploadLoose, Detach, Move,
       CreateSilently, UpdateSilently, DeleteSilently, Silent

LEMMA UserLaunches ==
  ASSUME User
  PROVE  \/ \E a \in Actors, pc \in {"ensure", "vgate", "dgate"}, c \in Contents :
              \E vis : Launch(a, pc, c, vis)
         \/ UNCHANGED job
<1>1. ASSUME NEW a \in Actors, NEW c \in Contents, Create(a, c) \/ Attach(a, c)
      PROVE  Launch(a, "ensure", c, None) \/ UNCHANGED job
  BY <1>1 DEF Create, Attach, Spawn
<1>2. ASSUME NEW a \in Actors, NEW c \in Contents, Update(a, c)
      PROVE  Launch(a, "ensure", c, None) \/ (\E v : Launch(a, "vgate", c, v)) \/ UNCHANGED job
  BY <1>2 DEF Update, Spawn
<1>3. ASSUME NEW a \in Actors, NEW c \in Contents, Delete(a, c) \/ DeleteAgain(a, c)
      PROVE  Launch(a, "dgate", c, None)
  BY <1>3 DEF Delete, DeleteAgain
<1>4. ASSUME NEW c \in Contents, UploadLoose(c) \/ Detach(c) \/ Move(c) \/ Silently(c)
      PROVE  UNCHANGED job
  BY <1>4 DEF UploadLoose, Detach, Move, Silently, CreateSilently, UpdateSilently,
              DeleteSilently, Silent
<1> QED BY <1>1, <1>2, <1>3, <1>4 DEF User, Silently

LEMMA UserOwned ==
  ASSUME TypeInv, Ownership, User
  PROVE  Ownership'
<1>1. UNCHANGED <<row, owners, uploads>>
  BY UserTouches
<1>2. Kept /\ RowsOwned'
  BY <1>1, SameKept, RowsStayOwned
<1>3. ASSUME NEW a \in Actors, NEW pc \in {"ensure", "vgate", "dgate"}, NEW c \in Contents,
             NEW vis, Launch(a, pc, c, vis)
      PROVE  AllOwned'
  <2> DEFINE j == [Idle EXCEPT !.pc = pc, !.item = Ticketed(c), !.vis = vis]
  <2>1. JobOwned(j)
    BY DEF JobOwned, Idle, Ticketed, IdOf, DocOf
  <2> HIDE DEF j
  <2>2. Become(a, j)
    BY <1>3 DEF Launch, j
  <2> QED BY <1>2, <2>1, <2>2, BecomeOwned
<1>4. ASSUME UNCHANGED job PROVE AllOwned'
  BY <1>2, <1>4, OthersOwned DEF AllOwned, Ownership, JobOwned
<1>5. \/ \E a \in Actors, pc \in {"ensure", "vgate", "dgate"}, c \in Contents :
             \E vis : Launch(a, pc, c, vis)
      \/ UNCHANGED job
  BY UserLaunches
<1>6. AllOwned'
  BY <1>3, <1>4, <1>5
<1> QED BY <1>2, <1>6 DEF AllOwned, Ownership

LEMMA ProcessOwned ==
  ASSUME TypeInv, Ownership, Crash \/ Restart
  PROVE  Ownership'
BY DEF Crash, Restart, Ownership, RowsOwned, JobOwned, Idle, IdOf, DocOf

-----------------------------------------------------------------------------
(* The theorem *)

LEMMA InitOwned == Init => Ownership
BY DEF Init, Ownership, RowsOwned, JobOwned, Idle

LEMMA NextOwned == TypeInv /\ Ownership /\ [Next]_vars => Ownership'
<1> SUFFICES ASSUME TypeInv, Ownership, [Next]_vars PROVE Ownership'
  OBVIOUS
<1>1. ASSUME NEW a \in Actors, Step(a) \/ StartBatch(a) PROVE Ownership'
  BY <1>1, EventOwned, ReadsOwned, ListAttachmentsOwned, LoopOwned, UnindexOwned, UploadOwned, ParseOwned,
     EnsureInsertOwned, CreateRowOwned, MarkSyncedOwned, MarksOwned, RereadOwned DEF Step
<1>2. CASE UNCHANGED vars
  BY <1>2 DEF vars, Ownership, RowsOwned, JobOwned, IdOf, DocOf
<1> QED BY <1>1, <1>2, UserOwned, ProcessOwned DEF Next

(* Whatever a row, a listed ticket or a goroutine names by an id belongs to  *)
(* the content it is about.                                                  *)
THEOREM OwnershipHolds == Spec => []Ownership
BY InitType, NextType, InitOwned, NextOwned, PTL DEF Spec

(* Whatever is deleted, inserted again or marked late, a row never points at *)
(* the document of another content.                                          *)
THEOREM RowsPointHome == Spec => []RowDocOwn
<1>1. Ownership => RowDocOwn
  BY DEF Ownership, RowsOwned, DocOf, RowDocOwn
<1> QED BY <1>1, OwnershipHolds, PTL

-----------------------------------------------------------------------------
(* The rows of content_sync_state *)

USE DEF Resting, LastStage, OfAttachments, ResetStage

(* Every step leaves the rows alone or is one of these. *)
Writes(a) ==
  \/ EnsureInsert(a) \/ MarkSkipped(a) \/ CreateRow(a) \/ MarkSynced(a)
  \/ UpdateHash(a) \/ DeleteRow(a) \/ ResetRow(a) \/ MarkFailed(a)

LEMMA WhoWrites ==
  ASSUME [Next]_vars
  PROVE  UNCHANGED row \/ \E a \in Actors : Writes(a)
<1>1. ASSUME NEW a \in Actors, Step(a), ~Writes(a) PROVE UNCHANGED row
  BY <1>1 DEF Step, Writes, EnsureRead, Gate, Resolve, ReadContent, ReadState, DeleteOld, Upload,
     Parse, Reread, DeleteRead, DeleteDoc, VisibilityRead, VisibilityUpdate, ListAttachments, List,
     NextItem, OthersUnchanged
<1>2. ASSUME NEW a \in Actors, StartBatch(a) PROVE UNCHANGED row
  BY <1>2 DEF StartBatch
<1>3. CASE User \/ Crash \/ Restart \/ UNCHANGED vars
  BY <1>3, UserTouches DEF Crash, Restart, vars
<1> QED BY <1>1, <1>2, <1>3 DEF Next

(* How a row changes: it goes, comes as a new one, or takes one of the       *)
(* statements' forms.                                                        *)
LEMMA RowChanges ==
  ASSUME TypeInv, [Next]_vars, NEW c \in Contents, row'[c] # row[c], row'[c] # None
  PROVE  /\ row'[c] \in Row
         /\ \/ row'[c].status = "pending" /\ row'[c].retry = 0
            \/ row[c] # None /\ row'[c].status = "skipped" /\ row'[c].retry = row[c].retry
            \/ row[c] # None /\ row'[c].status = "synced" /\ row'[c].retry = row[c].retry
                 /\ row'[c].doc # 0 /\ row'[c].ds # None
            \/ row[c] # None /\ row'[c].status = row[c].status /\ row'[c].retry = row[c].retry
                 /\ row'[c].doc = row[c].doc /\ row'[c].ds = row[c].ds
            \/ row'[c].status = "failed" /\ \E a \in Actors :
                 job[a].pc = "markFailed" /\ row'[c].retry = job[a].item.retry + 1
<1>0. row'[c] \in Row
  BY NextType DEF TypeInv, TypeOK
<1>1. PICK a \in Actors : Writes(a)
  BY WhoWrites
<1>2. row[c] # None => row[c] \in Row
  BY DEF TypeInv, TypeOK
<1>3. ASSUME NEW x \in Contents, NEW h, InsertRow(x, h)
      PROVE  row'[c].status = "pending" /\ row'[c].retry = 0
  BY <1>3 DEF InsertRow, TypeInv, TypeOK
<1>4. CASE EnsureInsert(a)
  <2>1. Cur(a) \in Contents
    BY <1>4, Here DEF EnsureInsert, At
  <2> QED BY <1>0, <1>3, <1>4, <2>1 DEF EnsureInsert
<1>5. CASE CreateRow(a)
  <2>1. Cur(a) \in Contents
    BY <1>5, Here DEF CreateRow, At
  <2>2. ASSUME NEW id, UpdateRow(id, LAMBDA r : Overwritten(r, job[a].text))
        PROVE  row'[c].status = "pending" /\ row'[c].retry = 0
    BY <1>2, <2>2 DEF UpdateRow, Overwritten, Row
  <2> QED BY <1>0, <1>3, <1>5, <2>1, <2>2 DEF CreateRow, UpsertPending
<1>6. CASE MarkSkipped(a)
  BY <1>0, <1>2, <1>6 DEF MarkSkipped, UpdateRow, Row
<1>7. CASE MarkSynced(a)
  <2>1. job[a].doc # 0 /\ job[a].ds # None
    BY <1>7, Here DEF MarkSynced, At, Shape, Uploaded, Resolved
  <2>2. \A r \in Row : \A ds, d : LET s == Synced(r, ds, d) IN
          s.status = "synced" /\ s.retry = r.retry /\ s.ds = ds /\ s.doc = d
    BY DEF Synced, Row
  <2> QED BY <1>0, <1>2, <1>7, <2>1, <2>2 DEF MarkSynced, UpdateRow
<1>8. CASE UpdateHash(a)
  BY <1>0, <1>2, <1>8 DEF UpdateHash, UpdateRow, Row
<1>9. CASE ResetRow(a)
  <2>1. \A r \in Row : \A h : Reset(r, h).status = "pending" /\ Reset(r, h).retry = 0
    BY DEF Reset, Row
  <2> QED BY <1>0, <1>2, <1>9, <2>1 DEF ResetRow, UpdateRow
<1>10. CASE MarkFailed(a)
  <2>1. \A r \in Row : \A n : Failed(r, n).status = "failed" /\ Failed(r, n).retry = n + 1
    BY DEF Failed, Row
  <2> QED BY <1>0, <1>2, <1>10, <2>1 DEF MarkFailed, UpdateRow, At
<1>11. CASE DeleteRow(a)
  BY <1>11 DEF DeleteRow, TypeInv, TypeOK
<1> QED BY <1>1, <1>4, <1>5, <1>6, <1>7, <1>8, <1>9, <1>10, <1>11 DEF Writes

-----------------------------------------------------------------------------
(* A synced row names its document *)

LEMMA NextSynced == TypeInv /\ SyncedHasDoc /\ [Next]_vars => SyncedHasDoc'
<1> SUFFICES ASSUME TypeInv, SyncedHasDoc, [Next]_vars, NEW c \in Contents,
                    row'[c] # None, row'[c].status = "synced"
             PROVE  row'[c].doc # 0 /\ row'[c].ds # None
  BY DEF SyncedHasDoc
<1>1. CASE row'[c] = row[c]
  BY <1>1 DEF SyncedHasDoc
<1>2. CASE row'[c] # row[c]
  BY <1>2, RowChanges DEF SyncedHasDoc
<1> QED BY <1>1, <1>2

(* Whatever overtook the goroutine that synced it, a synced row can be       *)
(* deleted from RAGFlow again.                                               *)
THEOREM SyncedRowsNameTheirDocument == Spec => []SyncedHasDoc
<1>1. Init => SyncedHasDoc
  BY DEF Init, SyncedHasDoc
<1> QED BY <1>1, InitType, NextType, NextSynced, PTL DEF Spec
-----------------------------------------------------------------------------
(* Retry counts *)

AllRetries == \A b \in Actors : JobRetries(job[b])

LEMMA BecomeRetries ==
  ASSUME TypeInv, Retries, NEW a \in Actors, NEW j, Become(a, j), JobRetries(j)
  PROVE  AllRetries'
<1>1. ASSUME NEW b \in Actors PROVE JobRetries(job'[b])
  BY DEF Become, TypeInv, TypeOK, Retries
<1> QED BY <1>1 DEF AllRetries, JobRetries

LEMMA SameRetries ==
  ASSUME Retries, UNCHANGED job
  PROVE  AllRetries'
BY DEF Retries, AllRetries, JobRetries

LEMMA IdleRetries == JobRetries(Idle)
BY DEF Idle, JobRetries

LEMMA DoneRetries ==
  ASSUME TypeInv, Retries, NEW a \in Actors, Done(a)
  PROVE  AllRetries'
<1>1. JobRetries(job[a])
  BY DEF Retries
<1>2. JobRetries(Rest(a, "next"))
  BY <1>1 DEF Rest, Idle, JobRetries
<1> QED BY <1>2, IdleRetries, BecomeRetries DEF Done

LEMMA FailRetries ==
  ASSUME TypeInv, Retries, NEW a \in Actors, Fail(a), job[a].phase # ResetStage
  PROVE  AllRetries'
<1> DEFINE j == [Rest(a, "markFailed") EXCEPT !.item = job[a].item]
<1>1. JobRetries(job[a])
  BY DEF Retries
<1>2. JobRetries(j)
  BY <1>1 DEF Rest, Idle, JobRetries
<1> HIDE DEF j
<1>3. Become(a, Idle) \/ Become(a, j)
  BY DEF Fail, j
<1> QED BY <1>2, <1>3, IdleRetries, BecomeRetries

(* A goroutine that works on an item keeps it. *)
LEMMA OnRetries ==
  ASSUME TypeInv, Retries, NEW a \in Actors, NEW j, Become(a, j),
         job[a].pc \notin Resting \cup {"reset"}, j.pc \notin Resting,
         j.phase = job[a].phase, j.todo = job[a].todo, j.item = job[a].item
  PROVE  AllRetries'
<1>1. JobRetries(job[a])
  BY DEF Retries
<1>2. JobRetries(j)
  BY <1>1 DEF JobRetries
<1> QED BY <1>2, BecomeRetries

LEMMA GotoRetries ==
  ASSUME TypeInv, Retries, NEW a \in Actors, NEW p \in PC \ Resting, Goto(a, p),
         job[a].pc \notin Resting \cup {"reset"}
  PROVE  AllRetries'
<1> DEFINE j == [job[a] EXCEPT !.pc = p]
<1>1. job[a] \in Job
  BY DEF TypeInv, TypeOK
<1>2. j.pc = p /\ j.phase = job[a].phase /\ j.todo = job[a].todo /\ j.item = job[a].item
  BY <1>1 DEF Job
<1> HIDE DEF j
<1>3. Become(a, j)
  BY DEF Goto, j
<1> QED BY <1>2, <1>3, OnRetries

LEMMA WorkRetries ==
  ASSUME TypeInv, Retries, NEW a \in Actors, Step(a),
         job[a].pc \notin Resting \cup {"reset"}
  PROVE  AllRetries'
<1>0. job[a] \in Job /\ JobRetries(job[a])
  BY DEF TypeInv, TypeOK, Retries
<1>1. job[a].phase # ResetStage
  BY <1>0 DEF JobRetries
<1>2. CASE Done(a) \/ Fail(a)
  BY <1>1, <1>2, DoneRetries, FailRetries
<1>3. CASE \E p \in PC \ Resting : Goto(a, p)
  BY <1>3, GotoRetries
<1>4. CASE Become(a, Idle)
  BY <1>4, IdleRetries, BecomeRetries
<1>5. ASSUME NEW p \in PC \ Resting, NEW ds, Become(a, [job[a] EXCEPT !.pc = p, !.ds = ds])
      PROVE  AllRetries'
  BY <1>0, <1>5, OnRetries DEF Job
<1>6. ASSUME NEW p \in PC \ Resting, NEW t, NEW v,
             Become(a, [job[a] EXCEPT !.pc = p, !.text = t, !.vis = v])
      PROVE  AllRetries'
  BY <1>0, <1>6, OnRetries DEF Job
<1>7. ASSUME NEW p \in PC \ Resting, NEW r, Become(a, [job[a] EXCEPT !.snap = r, !.pc = p])
      PROVE  AllRetries'
  BY <1>0, <1>7, OnRetries DEF Job
<1>8. ASSUME NEW p \in PC \ Resting, NEW d, Become(a, [job[a] EXCEPT !.doc = d, !.pc = p])
      PROVE  AllRetries'
  BY <1>0, <1>8, OnRetries DEF Job
<1>9. CASE EnsureRead(a) \/ EnsureInsert(a)
  BY <1>2, <1>3, <1>9 DEF EnsureRead, EnsureInsert, Ensured, PC
<1>10. CASE Gate(a)
  <2>1. job[a].pc \in {"gate", "dgate", "vgate"}
    BY <1>10 DEF Gate
  <2>2. (\E p \in {"resolve", "dread", "vread"} : Goto(a, p)) \/ Become(a, Idle)
    BY <1>10, <2>1 DEF Gate
  <2> QED BY <1>3, <1>4, <2>2 DEF PC
<1>11. CASE Resolve(a)
  BY <1>2, <1>5, <1>11 DEF Resolve, PC
<1>12. CASE ReadContent(a)
  BY <1>2, <1>6, <1>12 DEF ReadContent, PC
<1>13. CASE ReadState(a)
  BY <1>2, <1>7, <1>13 DEF ReadState, PC
<1>14. CASE Upload(a)
  BY <1>2, <1>8, <1>14 DEF Upload, PC
<1>15. CASE Reread(a)
  <2>1. CASE job' = [b \in Actors |-> Idle]
    BY <2>1, IdleRetries DEF AllRetries, JobRetries
  <2> QED BY <1>7, <1>15, <2>1 DEF Reread, PC
<1>16. CASE DeleteRead(a) \/ VisibilityRead(a)
  BY <1>2, <1>3, <1>7, <1>16 DEF DeleteRead, VisibilityRead, PC
<1>17. CASE Parse(a) \/ CreateRow(a) \/ MarkSynced(a)
  BY <1>2, <1>3, <1>17 DEF Parse, CreateRow, MarkSynced, PC
<1>18. CASE MarkSkipped(a) \/ UpdateHash(a) \/ DeleteRow(a) \/ MarkFailed(a)
  BY <1>2, <1>18 DEF MarkSkipped, UpdateHash, DeleteRow, MarkFailed
<1>19. CASE DeleteOld(a) \/ DeleteDoc(a) \/ VisibilityUpdate(a)
  BY <1>2, <1>3, <1>19 DEF DeleteOld, DeleteDoc, VisibilityUpdate, PC
<1>20. CASE ListAttachments(a)
  <2> DEFINE j(S) == [Idle EXCEPT !.pc = "next", !.phase = OfAttachments, !.vis = job[a].vis,
                                  !.todo = {Ticketed(f) : f \in S}]
  <2>2. ASSUME NEW S PROVE JobRetries(j(S))
    <3>1. \A t \in {Ticketed(f) : f \in S} : t.retry < MaxRetries
      BY ConstantsOK DEF Ticketed
    <3> QED BY <3>1 DEF JobRetries, Idle
  <2> HIDE DEF j
  <2>3. (\E S : Become(a, j(S))) \/ Done(a)
    BY <1>20 DEF ListAttachments, j
  <2> QED BY <1>2, <2>2, <2>3, BecomeRetries
<1>21. ~List(a) /\ ~NextItem(a) /\ ~ResetRow(a)
  BY DEF List, NextItem, ResetRow, At
<1> QED BY <1>9, <1>10, <1>11, <1>12, <1>13, <1>14, <1>15, <1>16, <1>17, <1>18, <1>19, <1>20,
           <1>21 DEF Step

(* What a cycle lists can be failed once more without passing MaxRetries.    *)
LEMMA ListingsRetries ==
  ASSUME TypeInv, RetriesBounded, NEW p \in 1..LastStage, p # ResetStage, NEW todo \in Listings(p)
  PROVE  \A t \in todo : t.retry < MaxRetries
<1>1. \A S : \A t \in Exists(S) : t.retry < MaxRetries
  BY ConstantsOK DEF Exists, Ticketed
<1>2. \A r \in WithStatus("pending") : TicketOf(r).retry < MaxRetries
  BY ConstantsOK DEF WithStatus, Rows, RetriesBounded, TicketOf
<1>3. \A S : \A t \in Pending(S) : t.retry < MaxRetries
  BY <1>2 DEF Pending, Newest
<1>4. \A S \in SUBSET Retryable : \A t \in {TicketOf(r) : r \in S} : t.retry < MaxRetries
  BY DEF Retryable, TicketOf
<1> QED BY <1>1, <1>3, <1>4 DEF Listings

LEMMA LoopRetries ==
  ASSUME TypeInv, Retries, NEW a \in Actors, Step(a),
         job[a].pc \in Resting \cup {"reset"}
  PROVE  AllRetries'
<1>0. job[a] \in Job /\ Shape(job[a]) /\ JobRetries(job[a])
  BY DEF TypeInv, TypeOK, Retries
<1>1. CASE Gate(a)
  <2>1. job[a].pc = "bgate"
    BY <1>1 DEF Gate
  <2>2. Goto(a, "list") \/ Become(a, Idle)
    BY <1>1, <2>1 DEF Gate
  <2>3. JobRetries([job[a] EXCEPT !.pc = "list"])
    BY <1>0, <2>1 DEF JobRetries, Job
  <2> QED BY <2>2, <2>3, IdleRetries, BecomeRetries DEF Goto
<1>2. CASE List(a)
  <2>1. job[a].pc = "list" /\ job[a].phase \in 1..LastStage /\ job[a].item = None
    BY <1>0, <1>2 DEF List, At, Shape, JobRetries
  <2>2. ASSUME NEW todo \in Listings(job[a].phase)
        PROVE  JobRetries([job[a] EXCEPT !.todo = todo, !.pc = "next"])
    <3>1. job[a].phase # ResetStage => \A t \in todo : t.retry < MaxRetries
      BY <2>1, ListingsRetries DEF Retries
    <3> QED BY <1>0, <2>1, <3>1 DEF JobRetries, Job
  <2>3. JobRetries([job[a] EXCEPT !.pc = "next"])
    BY <1>0, <2>1 DEF JobRetries, Job
  <2> QED BY <1>2, <2>2, <2>3, BecomeRetries DEF List, Goto
<1>3. CASE NextItem(a)
  <2>0. job[a].pc = "next" /\ job[a].phase # 0 /\ job[a].item = None
    BY <1>0, <1>3 DEF NextItem, At, Shape, Looping, JobRetries
  <2>1. job[a].phase \in 1..7
    BY <1>0, <2>0 DEF Job, Phases
  <2>2. /\ First(job[a].phase) \notin Resting
        /\ job[a].phase = ResetStage => First(job[a].phase) = "reset"
    BY <2>1 DEF First
  <2>3. ASSUME NEW t \in job[a].todo
        PROVE  JobRetries([job[a] EXCEPT !.pc = First(job[a].phase), !.item = t, !.todo = @ \ {t}])
    BY <1>0, <2>0, <2>2 DEF JobRetries, Job
  <2>4. ASSUME job[a].todo = {}
        PROVE  JobRetries([job[a] EXCEPT !.pc = "list", !.phase = @ + 1])
    BY <1>0, <2>0, <2>1, <2>4 DEF JobRetries, Job
  <2> QED BY <1>3, <2>3, <2>4, IdleRetries, BecomeRetries DEF NextItem
<1>4. CASE ResetRow(a)
  BY <1>4, DoneRetries DEF ResetRow
<1>5. Gate(a) \/ List(a) \/ NextItem(a) \/ ResetRow(a)
  BY DEF Step, At, EnsureRead, EnsureInsert, Resolve, ReadContent, ReadState, MarkSkipped,
     DeleteOld, Upload, Parse, CreateRow, Reread, MarkSynced, UpdateHash, DeleteRead, DeleteDoc,
     DeleteRow, VisibilityRead, VisibilityUpdate, ListAttachments, MarkFailed
<1> QED BY <1>1, <1>2, <1>3, <1>4, <1>5

LEMMA LaunchRetries ==
  ASSUME TypeInv, Retries, NEW a \in Actors, NEW pc \in {"ensure", "vgate", "dgate"},
         NEW c \in Contents, NEW vis, Launch(a, pc, c, vis)
  PROVE  AllRetries'
<1> DEFINE j == [Idle EXCEPT !.pc = pc, !.item = Ticketed(c), !.vis = vis]
<1>1. JobRetries(j)
  BY DEF JobRetries, Idle
<1> HIDE DEF j
<1>2. Become(a, j)
  BY DEF Launch, j
<1> QED BY <1>1, <1>2, BecomeRetries

LEMMA OthersRetries ==
  ASSUME TypeInv, Retries, [Next]_vars, \A a \in Actors : ~Step(a)
  PROVE  AllRetries'
<1>1. CASE User
  BY <1>1, UserLaunches, LaunchRetries, SameRetries
<1>5. CASE Crash
  BY <1>5, IdleRetries DEF Crash, AllRetries, JobRetries
<1>6. CASE Restart \/ UNCHANGED vars
  BY <1>6, SameRetries DEF Restart, vars
<1>7. ASSUME NEW a \in Actors, StartBatch(a) PROVE AllRetries'
  <2> DEFINE j == [Idle EXCEPT !.pc = "bgate", !.phase = 1]
  <2>1. JobRetries(j)
    BY DEF JobRetries, Idle
  <2> HIDE DEF j
  <2>2. Become(a, j)
    BY <1>7 DEF StartBatch, j
  <2> QED BY <2>1, <2>2, BecomeRetries
<1> QED BY <1>1, <1>5, <1>6, <1>7 DEF Next

LEMMA NextRetries == TypeInv /\ Retries /\ [Next]_vars => Retries'
<1> SUFFICES ASSUME TypeInv, Retries, [Next]_vars PROVE Retries'
  OBVIOUS
<1>1. AllRetries'
  BY WorkRetries, LoopRetries, OthersRetries
<1>2. ASSUME NEW c \in Contents, row'[c] # None
      PROVE  (row'[c].status = "pending" => row'[c].retry = 0) /\ row'[c].retry <= MaxRetries
  <2>1. CASE row'[c] = row[c]
    BY <1>2, <2>1 DEF Retries, RetriesBounded
  <2>2. CASE row'[c] # row[c]
    <3>1. ASSUME NEW a \in Actors, job[a].pc = "markFailed"
          PROVE  job[a].item.retry + 1 <= MaxRetries
      <4>1. /\ job[a].item # None /\ job[a].item.retry \in Nat
            /\ job[a].phase \notin {0, ResetStage}
        BY <3>1, Here DEF Shape, Looping, Retries, JobRetries, Ticket
      <4> QED BY <4>1, ConstantsOK DEF Retries, JobRetries
    <3> QED BY <1>2, <2>2, <3>1, RowChanges, ConstantsOK DEF Retries, RetriesBounded
  <2> QED BY <2>1, <2>2
<1> QED BY <1>1, <1>2 DEF AllRetries, Retries, RetriesBounded

(* However stale the count a cycle listed, failing a row from it never       *)
(* passes MaxRetries, and a pending row starts from zero.                    *)
THEOREM RetriesStayBounded == Spec => []RetriesBounded
<1>1. Init => Retries
  BY DEF Init, Retries, RetriesBounded, JobRetries, Idle
<1>2. Retries => RetriesBounded
  BY DEF Retries
<1> QED BY <1>1, <1>2, InitType, NextType, NextRetries, PTL DEF Spec

-----------------------------------------------------------------------------
(* Hashes *)

(* A document that was uploaded stays what was uploaded. *)
Wider ==
  \A i \in DOMAIN uploads :
    i \in DOMAIN uploads' /\ uploads'[i].of = uploads[i].of /\ uploads'[i].text = uploads[i].text

LEMMA NextWider ==
  ASSUME TypeInv, [Next]_vars
  PROVE  Wider
<1>1. CASE UNCHANGED uploads
  BY <1>1 DEF Wider
<1>2. ASSUME NEW a \in Actors, Upload(a), AcceptUpload(a) PROVE Wider
  <2>1. PICK d \in Document : uploads' = Append(uploads, d)
    BY <1>2, AcceptedDocument DEF Upload, At
  <2> QED BY <2>1 DEF Wider, TypeInv, TypeOK
<1>3. ASSUME NEW d \in DOMAIN uploads, NEW v,
             \/ uploads' = [uploads EXCEPT ![d].parsed = v]
             \/ uploads' = [uploads EXCEPT ![d].vis = v]
      PROVE  Wider
  <2>1. /\ DOMAIN uploads' = DOMAIN uploads
        /\ \A i \in DOMAIN uploads : i # d => uploads'[i] = uploads[i]
        /\ \/ uploads'[d] = [uploads[d] EXCEPT !.parsed = v]
           \/ uploads'[d] = [uploads[d] EXCEPT !.vis = v]
    BY <1>3 DEF TypeInv, TypeOK
  <2>2. uploads[d] \in Document
    BY DEF TypeInv, TypeOK
  <2>3. uploads'[d].of = uploads[d].of /\ uploads'[d].text = uploads[d].text
    BY <2>1, <2>2 DEF Document
  <2> QED BY <2>1, <2>3 DEF Wider
<1>4. ASSUME NEW a \in Actors, Parse(a) \/ VisibilityUpdate(a) PROVE Wider
  BY <1>1, <1>3, <1>4 DEF Parse, VisibilityUpdate, TypeInv, TypeOK
<1>5. ASSUME NEW a \in Actors, Upload(a), ~AcceptUpload(a) PROVE UNCHANGED uploads
  BY <1>5 DEF Upload
<1>6. ASSUME NEW a \in Actors, Step(a), ~Upload(a), ~Parse(a), ~VisibilityUpdate(a)
      PROVE  UNCHANGED uploads
  BY <1>6 DEF Step, EnsureRead, EnsureInsert, Gate, Resolve, ReadContent, ReadState, MarkSkipped,
     DeleteOld, CreateRow, Reread, MarkSynced, UpdateHash, DeleteRead, DeleteDoc, DeleteRow,
     VisibilityRead, ListAttachments, List, NextItem, ResetRow, MarkFailed, OthersUnchanged
<1>7. ASSUME NEW a \in Actors, StartBatch(a) PROVE UNCHANGED uploads
  BY <1>7 DEF StartBatch
<1>8. CASE User \/ Crash \/ Restart \/ UNCHANGED vars
  BY <1>1, <1>8, UserTouches DEF Crash, Restart, vars
<1> QED BY <1>1, <1>2, <1>3, <1>4, <1>5, <1>6, <1>7, <1>8 DEF Next

-----------------------------------------------------------------------------
(* What a goroutine holds *)

USE DEF LastStage, OfAttachments, Uploaded

AllHashes == \A b \in Actors : JobHashes(job[b])

LEMMA StillUploaded ==
  ASSUME Wider
  PROVE  \A h, c : WasUploaded(h, c) => WasUploaded(h, c)'
BY DEF WasUploaded, Wider

LEMMA StillHashes ==
  ASSUME Wider
  PROVE  \A j : JobHashes(j) => JobHashes(j)'
BY StillUploaded DEF JobHashes

LEMMA BecomeNewHashes ==
  ASSUME TypeInv, Hashes, Wider, NEW a \in Actors, NEW j, Become(a, j), JobHashes(j)'
  PROVE  AllHashes'
<1>1. ASSUME NEW b \in Actors PROVE JobHashes(job[b])'
  <2>1. PICK k : k = job'[b]
    OBVIOUS
  <2>2. k = j \/ JobHashes(k)
    BY <2>1 DEF Become, TypeInv, TypeOK, Hashes
  <2>3. JobHashes(k)'
    BY <2>2, StillHashes
  <2> QED BY <2>1, <2>3 DEF JobHashes
<1> QED BY <1>1 DEF AllHashes

LEMMA BecomeHashes ==
  ASSUME TypeInv, Hashes, Wider, NEW a \in Actors, NEW j, Become(a, j), JobHashes(j)
  PROVE  AllHashes'
BY StillHashes, BecomeNewHashes

LEMMA SameHashes ==
  ASSUME Hashes, Wider, UNCHANGED job
  PROVE  AllHashes'
<1>1. ASSUME NEW b \in Actors PROVE JobHashes(job[b])'
  <2>1. PICK k : k = job[b]
    OBVIOUS
  <2>2. JobHashes(k)'
    BY <2>1, StillHashes DEF Hashes
  <2> QED BY <2>1, <2>2 DEF JobHashes
<1> QED BY <1>1 DEF AllHashes

LEMMA IdleHashes == JobHashes(Idle)
BY DEF Idle, JobHashes

LEMMA DoneHashes ==
  ASSUME TypeInv, Hashes, Wider, NEW a \in Actors, Done(a)
  PROVE  AllHashes'
<1>1. JobHashes(job[a])
  BY DEF Hashes
<1>2. JobHashes(Rest(a, "next"))
  BY <1>1 DEF Rest, Idle, JobHashes
<1> QED BY <1>2, IdleHashes, BecomeHashes DEF Done

LEMMA FailHashes ==
  ASSUME TypeInv, Hashes, Wider, NEW a \in Actors, Fail(a)
  PROVE  AllHashes'
<1> DEFINE j == [Rest(a, "markFailed") EXCEPT !.item = job[a].item]
<1>1. JobHashes(job[a])
  BY DEF Hashes
<1>2. JobHashes(j)
  BY <1>1 DEF Rest, Idle, JobHashes
<1> HIDE DEF j
<1>3. Become(a, Idle) \/ Become(a, j)
  BY DEF Fail, j
<1> QED BY <1>2, <1>3, IdleHashes, BecomeHashes

(* A goroutine that works on an item keeps it, and keeps the text it has     *)
(* uploaded.                                                                 *)
LEMMA OnHashes ==
  ASSUME TypeInv, Hashes, Wider, NEW a \in Actors, NEW j, Become(a, j),
         j.todo = job[a].todo, j.item = job[a].item,
         j.pc \in Uploaded => job[a].pc \in Uploaded /\ j.text = job[a].text
  PROVE  AllHashes'
<1>1. JobHashes(job[a])
  BY DEF Hashes
<1>2. JobHashes(j)
  BY <1>1 DEF JobHashes
<1> QED BY <1>2, BecomeHashes

LEMMA GotoHashes ==
  ASSUME TypeInv, Hashes, Wider, NEW a \in Actors, NEW p \in PC, Goto(a, p),
         p \in Uploaded => job[a].pc \in Uploaded
  PROVE  AllHashes'
<1> DEFINE j == [job[a] EXCEPT !.pc = p]
<1>1. job[a] \in Job
  BY DEF TypeInv, TypeOK
<1>2. j.pc = p /\ j.todo = job[a].todo /\ j.item = job[a].item /\ j.text = job[a].text
  BY <1>1 DEF Job
<1> HIDE DEF j
<1>3. Become(a, j)
  BY DEF Goto, j
<1> QED BY <1>2, <1>3, OnHashes

(* The one step that makes a text an uploaded one. *)
LEMMA UploadHashes ==
  ASSUME TypeInv, Hashes, Wider, NEW a \in Actors, Upload(a)
  PROVE  AllHashes'
<1>h. job[a].pc = "upload"
  BY DEF Upload, At
<1>1. ASSUME AcceptUpload(a), Become(a, [job[a] EXCEPT !.doc = Len(uploads) + 1, !.pc = "parse"])
      PROVE  AllHashes'
  <2>1. PICK n, j, c, t : /\ n = Len(uploads) + 1 /\ c = Cur(a) /\ t = job[a].text
                          /\ j = [job[a] EXCEPT !.doc = n, !.pc = "parse"]
    OBVIOUS
  <2>2. PICK d : uploads' = Append(uploads, d) /\ d.of = c /\ d.text = t
    BY <1>1, <2>1 DEF AcceptUpload
  <2>3. n \in DOMAIN uploads' /\ uploads'[n] = d
    BY <2>1, <2>2 DEF TypeInv, TypeOK
  <2>4. WasUploaded(t, c)'
    BY <2>2, <2>3 DEF WasUploaded
  <2>5. /\ j.todo = job[a].todo /\ j.item = job[a].item
        /\ j.text = t /\ c = j.item.of
    BY <2>1, Here DEF Job, Cur
  <2>6. PICK k : k = job[a]
    OBVIOUS
  <2>7. JobHashes(k)'
    BY <2>6, StillHashes DEF Hashes
  <2>8. JobHashes(j)'
    BY <2>4, <2>5, <2>6, <2>7 DEF JobHashes
  <2> QED BY <1>1, <2>1, <2>8, BecomeNewHashes
<1> QED BY <1>1, FailHashes DEF Upload

LEMMA WorkHashes ==
  ASSUME TypeInv, Hashes, Wider, NEW a \in Actors, Step(a),
         ~List(a), ~NextItem(a)
  PROVE  AllHashes'
<1>0. job[a] \in Job
  BY DEF TypeInv, TypeOK
<1>1. CASE Done(a) \/ Fail(a) \/ Become(a, Idle)
  BY <1>1, DoneHashes, FailHashes, IdleHashes, BecomeHashes
<1>2. CASE \E p \in PC \ Uploaded : Goto(a, p)
  BY <1>2, GotoHashes
<1>3. CASE EnsureRead(a) \/ EnsureInsert(a)
  BY <1>1, <1>2, <1>3 DEF EnsureRead, EnsureInsert, Ensured, PC
<1>4. CASE Gate(a)
  <2>1. job[a].pc \in {"gate", "dgate", "vgate", "bgate"}
    BY <1>4 DEF Gate
  <2>2. (\E p \in {"resolve", "dread", "vread", "list"} : Goto(a, p)) \/ Become(a, Idle)
    BY <1>4, <2>1 DEF Gate
  <2> QED BY <1>1, <1>2, <2>2 DEF PC
<1>5. CASE Resolve(a)
  <2>1. ASSUME NEW ds, Become(a, [job[a] EXCEPT !.pc = "read", !.ds = ds]) PROVE AllHashes'
    BY <1>0, <2>1, OnHashes DEF Job
  <2> QED BY <1>1, <1>5, <2>1 DEF Resolve
<1>6. CASE ReadContent(a)
  <2>1. ASSUME NEW t, NEW v, Become(a, [job[a] EXCEPT !.pc = "state", !.text = t, !.vis = v])
        PROVE  AllHashes'
    BY <1>0, <2>1, OnHashes DEF Job
  <2> QED BY <1>1, <1>6, <2>1 DEF ReadContent
<1>7. ASSUME NEW p \in PC, NEW r, Become(a, [job[a] EXCEPT !.snap = r, !.pc = p]),
             p \in Uploaded => job[a].pc \in Uploaded
      PROVE  AllHashes'
  BY <1>0, <1>7, OnHashes DEF Job
<1>8. CASE ReadState(a)
  BY <1>1, <1>7, <1>8 DEF ReadState, PC
<1>9. CASE DeleteRead(a) \/ VisibilityRead(a)
  BY <1>1, <1>2, <1>7, <1>9 DEF DeleteRead, VisibilityRead, PC
<1>10. CASE Reread(a)
  <2>1. CASE job' = [b \in Actors |-> Idle]
    BY <2>1 DEF AllHashes, JobHashes, Idle
  <2> QED BY <1>7, <1>10, <2>1 DEF Reread, At, PC
<1>11. CASE Parse(a) \/ CreateRow(a) \/ MarkSynced(a)
  BY <1>1, <1>11, GotoHashes DEF Parse, CreateRow, MarkSynced, At, PC
<1>12. CASE MarkSkipped(a) \/ UpdateHash(a) \/ DeleteRow(a) \/ MarkFailed(a) \/ ResetRow(a)
  BY <1>1, <1>12 DEF MarkSkipped, UpdateHash, DeleteRow, MarkFailed, ResetRow
<1>13. CASE DeleteOld(a) \/ DeleteDoc(a) \/ VisibilityUpdate(a)
  BY <1>1, <1>2, <1>13 DEF DeleteOld, DeleteDoc, VisibilityUpdate, PC
<1>14. CASE ListAttachments(a)
  <2> DEFINE j(S) == [Idle EXCEPT !.pc = "next", !.phase = OfAttachments, !.vis = job[a].vis,
                                  !.todo = {Ticketed(f) : f \in S}]
  <2>2. ASSUME NEW S PROVE JobHashes(j(S))
    <3>1. \A t \in {Ticketed(f) : f \in S} : WasUploaded(t.hash, t.of)
      BY DEF Ticketed, WasUploaded
    <3> QED BY <3>1 DEF JobHashes, Idle
  <2> HIDE DEF j
  <2>3. (\E S : Become(a, j(S))) \/ Done(a)
    BY <1>14 DEF ListAttachments, j
  <2> QED BY <1>1, <2>2, <2>3, BecomeHashes
<1> QED BY <1>3, <1>4, <1>5, <1>6, <1>8, <1>9, <1>10, <1>11, <1>12, <1>13, <1>14, UploadHashes
        DEF Step

(* A cycle lists rows with the hashes they have. *)
LEMMA ListingsHashes ==
  ASSUME TypeInv, Ownership, Hashes, NEW p \in 1..LastStage, NEW todo \in Listings(p)
  PROVE  \A t \in todo : WasUploaded(t.hash, t.of)
<1>1. \A S : \A t \in Exists(S) : WasUploaded(t.hash, t.of)
  BY DEF Exists, Ticketed, WasUploaded
<1>2. ASSUME NEW r \in Rows PROVE WasUploaded(TicketOf(r).hash, TicketOf(r).of)
  <2>1. PICK c \in Contents : r = row[c] /\ row[c] # None
    BY DEF Rows
  <2>2. r.of = c /\ WasUploaded(r.hash, c)
    BY <2>1 DEF Ownership, RowsOwned, Hashes, HashWasUploaded, WasUploaded
  <2> QED BY <2>2 DEF TicketOf
<1>3. \A S : \A t \in Pending(S) : WasUploaded(t.hash, t.of)
  BY <1>2 DEF Pending, Newest, WithStatus
<1>4. Resettable \subseteq Rows /\ Retryable \subseteq Rows
  BY DEF Resettable, Retryable, Newest, WithStatus
<1>5. \A S \in SUBSET Rows : \A t \in {TicketOf(r) : r \in S} : WasUploaded(t.hash, t.of)
  BY <1>2
<1> QED BY <1>1, <1>3, <1>4, <1>5 DEF Listings

LEMMA LoopHashes ==
  ASSUME TypeInv, Ownership, Hashes, Wider, NEW a \in Actors, List(a) \/ NextItem(a)
  PROVE  AllHashes'
<1>0. job[a] \in Job /\ Shape(job[a]) /\ JobHashes(job[a])
  BY DEF TypeInv, TypeOK, Hashes
<1>1. CASE List(a)
  <2>1. job[a].pc = "list" /\ job[a].phase \in 1..LastStage
    BY <1>0, <1>1 DEF List, At, Shape
  <2>2. ASSUME NEW todo \in Listings(job[a].phase)
        PROVE  JobHashes([job[a] EXCEPT !.todo = todo, !.pc = "next"])
    <3>1. \A t \in todo : WasUploaded(t.hash, t.of)
      BY <2>1, ListingsHashes
    <3> QED BY <1>0, <3>1 DEF JobHashes, Job
  <2> QED BY <1>1, <2>2, BecomeHashes, GotoHashes DEF List, PC
<1>2. CASE NextItem(a)
  <2>0. job[a].pc = "next" /\ job[a].phase # 0
    BY <1>0, <1>2 DEF NextItem, At, Shape, Looping
  <2>1. job[a].phase \in 1..7
    BY <1>0, <2>0 DEF Job, Phases
  <2>2. First(job[a].phase) \notin Uploaded
    BY <2>1 DEF First
  <2>3. ASSUME NEW t \in job[a].todo
        PROVE  JobHashes([job[a] EXCEPT !.pc = First(job[a].phase), !.item = t, !.todo = @ \ {t}])
    BY <1>0, <2>2 DEF JobHashes, Job
  <2>4. JobHashes([job[a] EXCEPT !.pc = "list", !.phase = @ + 1])
    BY <1>0 DEF JobHashes, Job
  <2> QED BY <1>2, <2>3, <2>4, IdleHashes, BecomeHashes DEF NextItem
<1> QED BY <1>1, <1>2

LEMMA OthersHashes ==
  ASSUME TypeInv, Hashes, Wider, [Next]_vars, \A a \in Actors : ~Step(a)
  PROVE  AllHashes'
<1>1. ASSUME NEW a \in Actors, NEW pc \in {"ensure", "vgate", "dgate"}, NEW c \in Contents,
             NEW vis, Launch(a, pc, c, vis)
      PROVE  AllHashes'
  <2> DEFINE j == [Idle EXCEPT !.pc = pc, !.item = Ticketed(c), !.vis = vis]
  <2>1. JobHashes(j)
    BY DEF JobHashes, Idle, Ticketed, WasUploaded
  <2> HIDE DEF j
  <2>2. Become(a, j)
    BY <1>1 DEF Launch, j
  <2> QED BY <2>1, <2>2, BecomeHashes
<1>2. CASE User
  BY <1>1, <1>2, UserLaunches, SameHashes
<1>6. CASE Crash
  BY <1>6 DEF Crash, AllHashes, JobHashes, Idle
<1>7. CASE Restart \/ UNCHANGED vars
  BY <1>7, SameHashes DEF Restart, vars
<1>8. ASSUME NEW a \in Actors, StartBatch(a) PROVE AllHashes'
  <2> DEFINE j == [Idle EXCEPT !.pc = "bgate", !.phase = 1]
  <2>1. JobHashes(j)
    BY DEF JobHashes, Idle
  <2> HIDE DEF j
  <2>2. Become(a, j)
    BY <1>8 DEF StartBatch, j
  <2> QED BY <2>1, <2>2, BecomeHashes
<1> QED BY <1>2, <1>6, <1>7, <1>8 DEF Next

-----------------------------------------------------------------------------
(* What a row records *)

LEMMA SameContent ==
  ASSUME TypeInv, Ownership, NEW id, NEW x \in Contents, IdOf(id, x),
         NEW c \in Contents, row[c] # None, row[c].id = id
  PROVE  c = x
<1>1. row[c] \in Row /\ IdOf(row[c].id, c)
  BY DEF Ownership, RowsOwned, TypeInv, TypeOK
<1> QED BY <1>1 DEF IdOf, Row

(* A row keeps its hash or takes one that was uploaded. *)
Recorded(c) ==
  row'[c] # None =>
    \/ row[c] # None /\ row'[c].hash = row[c].hash
    \/ WasUploaded(row'[c].hash, c)

LEMMA InsertRecorded ==
  ASSUME TypeInv, NEW x \in Contents, NEW h, InsertRow(x, h), WasUploaded(h, x), NEW c \in Contents
  PROVE  Recorded(c)
BY DEF InsertRow, Recorded, TypeInv, TypeOK

LEMMA RecordsHashes ==
  ASSUME TypeInv, Ownership, Hashes, [Next]_vars, NEW c \in Contents
  PROVE  Recorded(c)
<1>0. row[c] # None => row[c] \in Row
  BY DEF TypeInv, TypeOK
<1>1. CASE UNCHANGED row
  BY <1>1 DEF Recorded
<1>2. ASSUME NEW a \in Actors, Writes(a) PROVE Recorded(c)
  <2>h. job[a].pc \in {"insert", "skip", "create", "mark", "hash", "drow", "reset", "markFailed"}
    BY <1>2 DEF Writes, EnsureInsert, MarkSkipped, CreateRow, MarkSynced, UpdateHash, DeleteRow,
       ResetRow, MarkFailed, At
  <2>0. /\ job[a] \in Job /\ job[a].item # None /\ Cur(a) \in Contents
        /\ JobHashes(job[a]) /\ JobOwned(job[a])
    BY <2>h, Here DEF Resting, Hashes, Ownership
  <2>1. CASE EnsureInsert(a)
    <3>1. WasUploaded(None, Cur(a))
      BY DEF WasUploaded
    <3> QED BY <1>1, <2>0, <2>1, <3>1, InsertRecorded DEF EnsureInsert
  <2>2. CASE CreateRow(a)
    <3>1. WasUploaded(job[a].text, Cur(a))
      BY <2>0, <2>2 DEF CreateRow, At, JobHashes, Cur
    <3>2. ASSUME row[Cur(a)] # None,
                 UpdateRow(row[Cur(a)].id, LAMBDA r : Overwritten(r, job[a].text))
          PROVE  Recorded(c)
      <4>1. CASE row[c] # None /\ row[c].id = row[Cur(a)].id
        <5>1. c = Cur(a)
          BY <2>0, <3>2, <4>1, SameContent DEF Ownership, RowsOwned
        <5>2. row'[c] = Overwritten(row[c], job[a].text)
          BY <3>2, <4>1 DEF UpdateRow
        <5>3. row'[c].hash = job[a].text
          BY <1>0, <4>1, <5>2 DEF Overwritten, Row
        <5> QED BY <3>1, <5>1, <5>3 DEF Recorded
      <4>2. CASE ~(row[c] # None /\ row[c].id = row[Cur(a)].id)
        BY <3>2, <4>2 DEF UpdateRow, Recorded
      <4> QED BY <4>1, <4>2
    <3> QED BY <1>1, <2>0, <2>2, <3>1, <3>2, InsertRecorded DEF CreateRow, UpsertPending
  <2>3. CASE UpdateHash(a)
    <3>1. /\ WasUploaded(job[a].text, Cur(a))
          /\ job[a].snap # None => IdOf(job[a].snap.id, Cur(a))
          /\ job[a].snap # None
      BY <2>0, <2>3, Here DEF UpdateHash, At, JobHashes, JobOwned, Cur, Shape, RowRead
    <3>2. CASE row[c] # None /\ row[c].id = job[a].snap.id
      <4>1. c = Cur(a)
        BY <2>0, <3>1, <3>2, SameContent
      <4>2. row'[c] = row[c] \/ row'[c] = [row[c] EXCEPT !.hash = job[a].text]
        BY <2>3, <3>2 DEF UpdateHash, UpdateRow
      <4> QED BY <1>0, <3>1, <3>2, <4>1, <4>2 DEF Recorded, Row
    <3>3. CASE ~(row[c] # None /\ row[c].id = job[a].snap.id)
      BY <2>3, <3>3 DEF UpdateHash, UpdateRow, Recorded
    <3> QED BY <3>2, <3>3
  <2>4. CASE ResetRow(a)
    <3>1. WasUploaded(job[a].item.hash, Cur(a)) /\ IdOf(job[a].item.id, Cur(a))
      BY <2>0 DEF JobHashes, JobOwned, Cur
    <3>2. CASE row[c] # None /\ row[c].id = job[a].item.id
      <4>1. c = Cur(a)
        BY <2>0, <3>1, <3>2, SameContent
      <4>2. row'[c] = row[c] \/ row'[c] = Reset(row[c], job[a].item.hash)
        BY <2>4, <3>2 DEF ResetRow, UpdateRow
      <4>3. Reset(row[c], job[a].item.hash).hash = job[a].item.hash
        BY <1>0, <3>2 DEF Reset, Row
      <4> QED BY <3>1, <3>2, <4>1, <4>2, <4>3 DEF Recorded
    <3>3. CASE ~(row[c] # None /\ row[c].id = job[a].item.id)
      BY <2>4, <3>3 DEF ResetRow, UpdateRow, Recorded
    <3> QED BY <3>2, <3>3
  <2>5. CASE MarkSkipped(a)
    BY <1>0, <2>5 DEF MarkSkipped, UpdateRow, Recorded, Row
  <2>6. CASE MarkSynced(a)
    <3>1. \A r \in Row : \A ds, d : Synced(r, ds, d).hash = r.hash
      BY DEF Synced, Row
    <3> QED BY <1>0, <2>6, <3>1 DEF MarkSynced, UpdateRow, Recorded
  <2>7. CASE MarkFailed(a)
    <3>1. \A r \in Row : \A n : Failed(r, n).hash = r.hash
      BY DEF Failed, Row
    <3> QED BY <1>0, <2>7, <3>1 DEF MarkFailed, UpdateRow, Recorded
  <2>8. CASE DeleteRow(a)
    BY <2>8 DEF DeleteRow, Recorded, TypeInv, TypeOK
  <2> QED BY <1>2, <2>1, <2>2, <2>3, <2>4, <2>5, <2>6, <2>7, <2>8 DEF Writes
<1> QED BY <1>1, <1>2, WhoWrites

-----------------------------------------------------------------------------
(* The theorem *)

LEMMA NextHashes == TypeInv /\ Ownership /\ Hashes /\ [Next]_vars => Hashes'
<1> SUFFICES ASSUME TypeInv, Ownership, Hashes, [Next]_vars PROVE Hashes'
  OBVIOUS
<1>1. Wider
  BY NextWider
<1>2. AllHashes'
  BY <1>1, WorkHashes, LoopHashes, OthersHashes
<1>3. ASSUME NEW c \in Contents, row'[c] # None, row'[c].hash # None
      PROVE  \E i \in DOMAIN uploads' : uploads'[i].of = c /\ uploads'[i].text = row'[c].hash
  <2>1. PICK h : h = row'[c].hash
    OBVIOUS
  <2>2. WasUploaded(h, c)
    BY <1>3, <2>1, RecordsHashes DEF Recorded, Hashes, HashWasUploaded, WasUploaded
  <2> QED BY <1>1, <1>3, <2>1, <2>2 DEF WasUploaded, Wider
<1> QED BY <1>2, <1>3 DEF AllHashes, Hashes, HashWasUploaded

(* The hash that lets a later sync skip a content was computed from a text   *)
(* that RAGFlow accepted for that content (updateContentHash, ResetForResync *)
(* and CreatePendingState write it from what they read some time before).    *)
THEOREM RecordedHashesWereUploaded == Spec => []HashWasUploaded
<1>1. Init => Hashes
  BY DEF Init, Hashes, HashWasUploaded, JobHashes, Idle
<1>2. Hashes => HashWasUploaded
  BY DEF Hashes
<1> QED BY <1>1, <1>2, InitType, NextType, InitOwned, NextOwned, NextHashes, PTL DEF Spec

-----------------------------------------------------------------------------
USE DEF Resolved, RowRead, TextRead, Looping

(* No goroutine finds the row gone that it has just written *)

(* Whatever a step does, it does to one goroutine or ends them all. *)
LEMMA ActsAlone ==
  ASSUME NEW a \in Actors, Step(a) \/ StartBatch(a)
  PROVE  job' = [b \in Actors |-> Idle] \/ \E j : Become(a, j)
BY DEF Step, StartBatch, EnsureRead, EnsureInsert, Ensured, Gate, Resolve, ReadContent, ReadState,
   MarkSkipped, DeleteOld, Upload, Parse, CreateRow, Reread, MarkSynced, UpdateHash, DeleteRead,
   DeleteDoc, DeleteRow, VisibilityRead, VisibilityUpdate, ListAttachments, List, NextItem, ResetRow,
   MarkFailed, Done, Fail, Goto

LEMMA GoneStays ==
  ASSUME TypeInv, [Next]_vars, NEW c \in Contents, content[c].life = "gone"
  PROVE  content'[c].life = "gone"
<1>1. CASE UNCHANGED content
  BY <1>1
<1>2. CASE User
  <2>1. ASSUME NEW a \in Actors, NEW x \in Contents, Create(a, x) \/ Attach(a, x) \/ Delete(a, x)
        PROVE  content'[c].life = "gone"
    BY <2>1 DEF Create, Attach, Delete, Remove, TypeInv, TypeOK, Content
  <2>2. ASSUME NEW a \in Actors, NEW x \in Contents, Update(a, x) \/ DeleteAgain(a, x)
        PROVE  content'[c].life = "gone"
    <3>1. CASE Update(a, x)
      BY <3>1 DEF Update, TypeInv, TypeOK, Content
    <3>2. CASE DeleteAgain(a, x)
      BY <3>2 DEF DeleteAgain, TypeInv, TypeOK, Content
    <3> QED BY <2>2, <3>1, <3>2
  <2>3. ASSUME NEW x \in Contents, UploadLoose(x) \/ Detach(x) \/ Move(x)
        PROVE  content'[c].life = "gone"
    <3>1. CASE UploadLoose(x)
      BY <3>1 DEF UploadLoose, TypeInv, TypeOK, Content
    <3>2. CASE Detach(x)
      BY <3>2 DEF Detach, TypeInv, TypeOK, Content
    <3>3. CASE Move(x)
      BY <3>3 DEF Move, TypeInv, TypeOK, Content
    <3> QED BY <2>3, <3>1, <3>2, <3>3
  <2>4. ASSUME NEW x \in Contents, Silently(x)
        PROVE  content'[c].life = "gone"
    <3>1. CASE CreateSilently(x)
      BY <3>1 DEF CreateSilently, TypeInv, TypeOK, Content
    <3>2. CASE UpdateSilently(x)
      BY <3>2 DEF UpdateSilently, TypeInv, TypeOK, Content
    <3>3. CASE DeleteSilently(x)
      BY <3>3 DEF DeleteSilently, Remove, TypeInv, TypeOK, Content
    <3> QED BY <2>4, <3>1, <3>2, <3>3 DEF Silently
  <2> QED BY <1>2, <2>1, <2>2, <2>3, <2>4 DEF User, Silently
<1>3. ASSUME NEW a \in Actors, Step(a) \/ StartBatch(a) PROVE UNCHANGED content
  BY <1>3 DEF Step, StartBatch, EnsureRead, EnsureInsert, Gate, Resolve, ReadContent, ReadState,
     MarkSkipped, DeleteOld, Upload, Parse, CreateRow, Reread, MarkSynced, UpdateHash, DeleteRead,
     DeleteDoc, DeleteRow, VisibilityRead, VisibilityUpdate, ListAttachments, List, NextItem, ResetRow,
     MarkFailed, OthersUnchanged
<1> QED BY <1>1, <1>2, <1>3 DEF Next, Crash, Restart, vars

(* A step that is no second deletion of a content, as all of a behaviour are *)
(* in which no content was deleted twice in the end.                         *)
Single == \A a \in Actors, c \in Contents : ~DeleteAgain(a, c)

LEMMA OnceMeans ==
  ASSUME TypeInv, [Next]_vars, Once'
  PROVE  Once /\ Single
<1>1. ASSUME NEW a \in Actors, NEW c \in Contents, DeleteAgain(a, c) PROVE FALSE
  <2>1. content'[c].twice
    BY <1>1 DEF DeleteAgain, TypeInv, TypeOK, Content
  <2> QED BY <2>1 DEF Once
<1>2. ASSUME NEW c \in Contents PROVE content'[c].twice = content[c].twice
  <2>1. CASE UNCHANGED content
    BY <2>1
  <2>2. CASE User
    <3>1. ASSUME NEW a \in Actors, NEW x \in Contents, Create(a, x) \/ Attach(a, x) \/ Delete(a, x)
          PROVE  content'[c].twice = content[c].twice
      <4>1. ASSUME Create(a, x) \/ Attach(a, x) PROVE content'[c].twice = content[c].twice
        <5>1. content' = [content EXCEPT ![x].life = "live"]
          BY <4>1 DEF Create, Attach
        <5>2. content'[c] \in {content[c], [content[c] EXCEPT !.life = "live"]}
          BY <5>1 DEF TypeInv, TypeOK
        <5> QED BY <5>2 DEF TypeInv, TypeOK, Content
      <4>2. ASSUME NEW S, Remove(S) PROVE content'[c].twice = content[c].twice
        <5>1. content'[c] \in {content[c], [content[c] EXCEPT !.life = "gone"]}
          BY <4>2 DEF Remove
        <5> QED BY <5>1 DEF TypeInv, TypeOK, Content
      <4> QED BY <3>1, <4>1, <4>2 DEF Delete
    <3>2. ASSUME NEW a \in Actors, NEW x \in Contents, Update(a, x)
          PROVE  content'[c].twice = content[c].twice
      BY <3>2 DEF Update, TypeInv, TypeOK, Content
    <3>3. ASSUME NEW x \in Contents, UploadLoose(x) \/ Detach(x) \/ Move(x)
          PROVE  content'[c].twice = content[c].twice
      <4>1. CASE UploadLoose(x)
        BY <4>1 DEF UploadLoose, TypeInv, TypeOK, Content
      <4>2. CASE Detach(x)
        BY <4>2 DEF Detach, TypeInv, TypeOK, Content
      <4>3. CASE Move(x)
        BY <4>3 DEF Move, TypeInv, TypeOK, Content
      <4> QED BY <3>3, <4>1, <4>2, <4>3
    <3>4. ASSUME NEW x \in Contents, Silently(x)
          PROVE  content'[c].twice = content[c].twice
      <4>1. CASE CreateSilently(x)
        BY <4>1 DEF CreateSilently, TypeInv, TypeOK, Content
      <4>2. CASE UpdateSilently(x)
        BY <4>2 DEF UpdateSilently, TypeInv, TypeOK, Content
      <4>3. CASE DeleteSilently(x)
        BY <4>3 DEF DeleteSilently, Remove, TypeInv, TypeOK, Content
      <4> QED BY <3>4, <4>1, <4>2, <4>3 DEF Silently
    <3> QED BY <1>1, <2>2, <3>1, <3>2, <3>3, <3>4 DEF User, Silently
  <2>3. ASSUME NEW a \in Actors, Step(a) \/ StartBatch(a) PROVE UNCHANGED content
    BY <2>3 DEF Step, StartBatch, EnsureRead, EnsureInsert, Gate, Resolve, ReadContent, ReadState,
       MarkSkipped, DeleteOld, Upload, Parse, CreateRow, Reread, MarkSynced, UpdateHash, DeleteRead,
       DeleteDoc, DeleteRow, VisibilityRead, VisibilityUpdate, ListAttachments, List, NextItem, ResetRow,
       MarkFailed, OthersUnchanged
  <2> QED BY <2>1, <2>2, <2>3 DEF Next, Crash, Restart, vars
<1> QED BY <1>1, <1>2 DEF Once, Single

(* The goroutine that deletes a content was started by its deletion. *)
LEMMA WhoDeletes ==
  ASSUME TypeInv, [Next]_vars, Single, NEW b \in Actors, NEW c \in Contents, Deletes(b, c)'
  PROVE  Deletes(b, c) \/ Delete(b, c)
<1>0. job[b] \in Job
  BY DEF TypeInv, TypeOK
<1>1. ASSUME job'[b] = job[b] PROVE Deletes(b, c)
  BY <1>1 DEF Deletes
<1>2. ASSUME job'[b].pc \notin {"dgate", "dread", "ddoc", "drow"} PROVE FALSE
  BY <1>2 DEF Deletes
<1>3. ASSUME NEW j, Become(b, j) PROVE job'[b] = j
  BY <1>3 DEF Become, TypeInv, TypeOK
<1>4. ASSUME Done(b) \/ Fail(b) \/ Become(b, Idle) PROVE FALSE
  <2>1. Idle.pc = "idle" /\ \A pc : Rest(b, pc).pc = pc
    BY DEF Rest, Idle
  <2>2. [Rest(b, "markFailed") EXCEPT !.item = job[b].item].pc = "markFailed"
    BY DEF Rest, Idle
  <2>3. job'[b].pc \in {"idle", "next", "markFailed"}
    BY <1>3, <1>4, <2>1, <2>2 DEF Done, Fail
  <2> QED BY <1>2, <2>3
<1>5. ASSUME NEW pc \in {"dgate", "dread", "ddoc", "drow"}, job[b].pc = pc, job'[b].item = job[b].item
      PROVE  Deletes(b, c)
  BY <1>5 DEF Deletes
<1>6. ASSUME NEW pc, Goto(b, pc), pc \notin {"dread", "drow"} PROVE job'[b].pc = pc
  BY <1>0, <1>3, <1>6 DEF Goto, Job
<1>7. ASSUME Step(b) PROVE Deletes(b, c)
  <2>1. CASE EnsureRead(b) \/ EnsureInsert(b)
    BY <1>2, <1>4, <1>6, <2>1 DEF EnsureRead, EnsureInsert, Ensured
  <2>2. CASE Gate(b)
    <3>1. job[b].pc = "dgate" \/ job[b].pc \in {"gate", "vgate", "bgate"}
      BY <2>2 DEF Gate
    <3>2. CASE job[b].pc = "dgate"
      <4>1. CASE Goto(b, "dread")
        <5>1. job'[b].item = job[b].item
          BY <1>0, <1>3, <4>1 DEF Goto, Job
        <5> QED BY <1>5, <3>2, <5>1
      <4> QED BY <1>4, <2>2, <3>2, <4>1 DEF Gate
    <3>3. CASE job[b].pc \in {"gate", "vgate", "bgate"}
      BY <1>2, <1>4, <1>6, <2>2, <3>3 DEF Gate
    <3> QED BY <3>1, <3>2, <3>3
  <2>3. CASE Resolve(b)
    <3>1. ASSUME NEW ds, Become(b, [job[b] EXCEPT !.pc = "read", !.ds = ds]) PROVE FALSE
      BY <1>0, <1>2, <1>3, <3>1 DEF Job
    <3> QED BY <1>4, <2>3, <3>1 DEF Resolve
  <2>4. CASE ReadContent(b)
    <3>1. ASSUME NEW t, NEW v, Become(b, [job[b] EXCEPT !.pc = "state", !.text = t, !.vis = v])
          PROVE  FALSE
      BY <1>0, <1>2, <1>3, <3>1 DEF Job
    <3> QED BY <1>4, <2>4, <3>1 DEF ReadContent
  <2>5. ASSUME NEW r, NEW pc, Become(b, [job[b] EXCEPT !.snap = r, !.pc = pc])
        PROVE  job'[b].pc = pc /\ job'[b].item = job[b].item
    BY <1>0, <1>3, <2>5 DEF Job
  <2>6. CASE ReadState(b) \/ VisibilityRead(b)
    BY <1>2, <1>4, <1>6, <2>5, <2>6 DEF ReadState, VisibilityRead
  <2>7. CASE Reread(b)
    <3>1. CASE job' = [x \in Actors |-> Idle]
      BY <1>2, <3>1 DEF Idle
    <3> QED BY <1>2, <2>5, <2>7, <3>1 DEF Reread
  <2>8. CASE DeleteRead(b)
    BY <1>4, <1>5, <2>5, <2>8 DEF DeleteRead, At
  <2>9. CASE DeleteDoc(b)
    <3>1. job'[b].item = job[b].item
      BY <1>0, <1>3, <2>9 DEF DeleteDoc, Goto, Job
    <3> QED BY <1>5, <2>9, <3>1 DEF DeleteDoc, At
  <2>10. CASE MarkSkipped(b) \/ UpdateHash(b) \/ DeleteRow(b) \/ MarkFailed(b) \/ ResetRow(b)
    BY <1>4, <2>10 DEF MarkSkipped, UpdateHash, DeleteRow, MarkFailed, ResetRow
  <2>11. CASE DeleteOld(b) \/ VisibilityUpdate(b) \/ Parse(b) \/ CreateRow(b) \/ MarkSynced(b)
    BY <1>2, <1>4, <1>6, <2>11 DEF DeleteOld, VisibilityUpdate, Parse, CreateRow, MarkSynced
  <2>12. CASE Upload(b)
    <3>1. ASSUME NEW d, Become(b, [job[b] EXCEPT !.doc = d, !.pc = "parse"]) PROVE FALSE
      BY <1>0, <1>2, <1>3, <3>1 DEF Job
    <3> QED BY <1>4, <2>12, <3>1 DEF Upload
  <2>13. CASE ListAttachments(b)
    <3>1. ASSUME NEW v, NEW todo,
                 Become(b, [Idle EXCEPT !.pc = "next", !.phase = OfAttachments, !.vis = v, !.todo = todo])
          PROVE  FALSE
      BY <1>2, <1>3, <3>1 DEF Idle
    <3> QED BY <1>4, <2>13, <3>1 DEF ListAttachments
  <2>14. CASE List(b)
    <3>1. ASSUME NEW todo, Become(b, [job[b] EXCEPT !.todo = todo, !.pc = "next"]) PROVE FALSE
      BY <1>0, <1>2, <1>3, <3>1 DEF Job
    <3> QED BY <1>2, <1>6, <2>14, <3>1 DEF List
  <2>15. CASE NextItem(b)
    <3>1. job[b].phase \in 1..7
      <4>1. job[b].pc = "next" /\ Shape(job[b])
        BY <2>15 DEF NextItem, At, TypeInv
      <4> QED BY <1>0, <4>1 DEF Shape, Looping, Job, Phases
    <3>2. First(job[b].phase) \in {"ensure", "reset", "resolve", "vread"}
      BY <3>1 DEF First
    <3>4. ASSUME NEW p, Become(b, [job[b] EXCEPT !.pc = "list", !.phase = p]) PROVE FALSE
      BY <1>0, <1>2, <1>3, <3>4 DEF Job
    <3>5. ASSUME NEW t, Become(b, [job[b] EXCEPT !.pc = First(job[b].phase), !.item = t, !.todo = @ \ {t}])
          PROVE  FALSE
      <4> DEFINE pc == First(job[b].phase)
                 todo == job[b].todo \ {t}
      <4>1. Become(b, [job[b] EXCEPT !.pc = pc, !.item = t, !.todo = todo])
        BY <3>5
      <4>2. pc \in {"ensure", "reset", "resolve", "vread"}
        BY <3>2
      <4> HIDE DEF pc, todo
      <4>3. job'[b].pc = pc
        BY <1>0, <1>3, <4>1 DEF Job
      <4> QED BY <1>2, <4>2, <4>3
    <3> QED BY <1>4, <2>15, <3>4, <3>5 DEF NextItem
  <2> QED BY <1>7, <2>1, <2>2, <2>3, <2>4, <2>6, <2>7, <2>8, <2>9, <2>10, <2>11, <2>12, <2>13,
             <2>14, <2>15 DEF Step
<1>8. ASSUME NEW a \in Actors, a # b, Step(a) \/ StartBatch(a)
      PROVE  job'[b] = job[b] \/ job'[b] = Idle
  <2>1. job' = [x \in Actors |-> Idle] \/ \E j : Become(a, j)
    BY <1>8, ActsAlone
  <2> QED BY <1>8, <2>1 DEF Become, TypeInv, TypeOK
<1>9. ASSUME StartBatch(b) PROVE FALSE
  BY <1>2, <1>3, <1>9 DEF StartBatch, Idle
<1>10. ASSUME User PROVE Deletes(b, c) \/ Delete(b, c)
  <2>1. ASSUME NEW a \in Actors, NEW pc \in {"ensure", "vgate"}, NEW x, NEW v, Launch(a, pc, x, v)
        PROVE  job'[b] = job[b]
    BY <1>2, <1>3, <2>1 DEF Launch, Become, Idle, TypeInv, TypeOK
  <2>2. ASSUME NEW a \in Actors, NEW x \in Contents, Delete(a, x)
        PROVE  job'[b] = job[b] \/ Delete(b, c)
    <3>1. Become(a, [Idle EXCEPT !.pc = "dgate", !.item = Ticketed(x), !.vis = None])
      BY <2>2 DEF Delete, Launch
    <3>2. CASE a = b
      <4>1. [Idle EXCEPT !.pc = "dgate", !.item = Ticketed(x), !.vis = None].item = Ticketed(x)
        BY DEF Idle
      <4>2. job'[b].item = Ticketed(x)
        BY <1>3, <3>1, <3>2, <4>1
      <4>3. x = c
        BY <4>2 DEF Ticketed, Deletes
      <4> QED BY <2>2, <3>2, <4>3
    <3> QED BY <3>1, <3>2 DEF Become, TypeInv, TypeOK
  <2>3. ASSUME NEW a \in Actors, NEW x \in Contents, Create(a, x) \/ Attach(a, x) \/ Update(a, x)
        PROVE  job'[b] = job[b]
    BY <2>1, <2>3 DEF Create, Attach, Update, Spawn
  <2>4. ASSUME NEW x \in Contents, UploadLoose(x) \/ Detach(x) \/ Move(x) \/ Silently(x)
        PROVE  job'[b] = job[b]
    BY <2>4 DEF UploadLoose, Detach, Move, Silently, CreateSilently, UpdateSilently, DeleteSilently,
                Silent
  <2> QED BY <1>1, <1>10, <2>2, <2>3, <2>4 DEF User, Single, Silently
<1>11. CASE Crash \/ Restart \/ UNCHANGED vars
  BY <1>1, <1>2, <1>11 DEF Crash, Restart, vars, Idle
<1> QED BY <1>1, <1>2, <1>7, <1>8, <1>9, <1>10, <1>11 DEF Next, Idle

LEMMA BuriedStays ==
  ASSUME TypeInv, [Next]_vars, Single, NEW c \in Contents, Buried(c)
  PROVE  Buried(c)'
<1>1. content'[c].life = "gone"
  BY GoneStays DEF Buried
<1>2. ASSUME NEW b \in Actors, Deletes(b, c)' PROVE FALSE
  BY <1>2, WhoDeletes DEF Buried, Delete, Deletable
<1> QED BY <1>1, <1>2 DEF Buried

LEMMA NextOneDeleter ==
  ASSUME TypeInv, OneDeleter, [Next]_vars, Single
  PROVE  OneDeleter'
<1> SUFFICES ASSUME NEW c \in Contents, NEW a \in Actors, Deletes(a, c)'
             PROVE  content'[c].life = "gone" /\ \A b \in Actors : Deletes(b, c)' => b = a
  BY DEF OneDeleter
<1>1. CASE Deletes(a, c)
  <2>1. content[c].life = "gone"
    BY <1>1 DEF OneDeleter
  <2>2. ASSUME NEW b \in Actors, Deletes(b, c)' PROVE b = a
    <3>1. Deletes(b, c)
      BY <2>1, <2>2, WhoDeletes DEF Delete, Deletable
    <3> QED BY <1>1, <3>1 DEF OneDeleter
  <2> QED BY <2>1, <2>2, GoneStays
<1>2. CASE Delete(a, c)
  <2>1. content[c].life # "gone" /\ \A S \in Deleted(c) : c \in S
    BY <1>2 DEF Delete, Deletable, Deleted
  <2>2. content'[c].life = "gone"
    <3>1. content'[c] = [content[c] EXCEPT !.life = "gone"]
      BY <1>2, <2>1 DEF Delete, Remove
    <3> QED BY <3>1 DEF TypeInv, TypeOK, Content
  <2>3. ASSUME NEW b \in Actors, Deletes(b, c)', b # a PROVE FALSE
    <3>1. ~Deletes(b, c)
      BY <2>1 DEF OneDeleter
    <3>2. Delete(b, c)
      BY <2>3, <3>1, WhoDeletes
    <3>3. job[b].pc = "idle" /\ job'[b] = job[b]
      BY <1>2, <2>3, <3>2 DEF Delete, Launch, At, Become, TypeInv, TypeOK
    <3> QED BY <2>3, <3>3 DEF Deletes
  <2> QED BY <2>2, <2>3
<1> QED BY <1>1, <1>2, WhoDeletes

(* A row goes when its content's goroutine deletes it. *)
LEMMA WhoForgets ==
  ASSUME TypeInv, [Next]_vars, NEW c \in Contents, row[c] # None, row'[c] = None
  PROVE  \E a \in Actors : Deletes(a, c) /\ DeleteRow(a) /\ Done(a)
<1>0. None \notin Row /\ row[c] \in Row
  BY ConstantsOK DEF TypeInv, TypeOK
<1>1. PICK a \in Actors : Writes(a)
  BY WhoWrites
<1>2. job[a] \in Job /\ (job[a].pc \notin Resting => job[a].item \in Ticket)
  BY Here
<1>3. ASSUME NEW x \in Contents, NEW h, row[x] = None, InsertRow(x, h) PROVE FALSE
  BY <1>0, <1>3 DEF InsertRow, TypeInv, TypeOK
<1>4. CASE EnsureInsert(a)
  <2>1. Cur(a) \in Contents
    BY <1>4, Here DEF EnsureInsert, At
  <2> QED BY <1>3, <1>4, <2>1 DEF EnsureInsert
<1>5. CASE CreateRow(a)
  <2>1. Cur(a) \in Contents /\ job[a].text \in Texts \cup {None}
    BY <1>2, <1>5, Here DEF CreateRow, At, Job
  <2>2. \A r \in Row : Overwritten(r, job[a].text) \in Row
    BY <2>1, ZenonT(60) DEF Overwritten, Row
  <2> QED BY <1>0, <1>3, <1>5, <2>1, <2>2 DEF CreateRow, UpsertPending, UpdateRow
<1>6. CASE MarkSkipped(a)
  <2>1. \A r \in Row : [r EXCEPT !.status = "skipped"] \in Row
    BY DEF Row
  <2> QED BY <1>0, <1>6, <2>1 DEF MarkSkipped, UpdateRow
<1>7. CASE MarkSynced(a)
  <2>1. job[a].ds \in Datasets \cup {None} /\ job[a].doc \in Nat
    BY <1>2 DEF Job
  <2>2. \A r \in Row : Synced(r, job[a].ds, job[a].doc) \in Row
    BY <2>1, ZenonT(60) DEF Synced, Row
  <2> QED BY <1>0, <1>7, <2>2 DEF MarkSynced, UpdateRow
<1>8. CASE UpdateHash(a)
  <2>1. job[a].text \in Texts \cup {None}
    BY <1>2 DEF Job
  <2>2. \A r \in Row : [r EXCEPT !.hash = job[a].text] \in Row
    BY <2>1 DEF Row
  <2> QED BY <1>0, <1>8, <2>2 DEF UpdateHash, UpdateRow
<1>9. CASE ResetRow(a)
  <2>1. job[a].item.hash \in Texts \cup {None}
    BY <1>2, <1>9 DEF ResetRow, At, Ticket
  <2>2. \A r \in Row : Reset(r, job[a].item.hash) \in Row
    BY <2>1, ZenonT(60) DEF Reset, Row
  <2> QED BY <1>0, <1>9, <2>2 DEF ResetRow, UpdateRow
<1>10. CASE MarkFailed(a)
  <2>1. job[a].item.retry \in Nat
    BY <1>2, <1>10 DEF MarkFailed, At, Ticket
  <2>2. \A r \in Row : \A n \in Nat : Failed(r, n) \in Row
    <3> SUFFICES ASSUME NEW r \in Row, NEW n \in Nat PROVE Failed(r, n) \in Row
      OBVIOUS
    <3>1. n + 1 \in Nat /\ (r.due \/ n + 1 < MaxRetries) \in BOOLEAN
      BY DEF Row
    <3> QED BY <3>1 DEF Failed, Row
  <2> QED BY <1>0, <1>10, <2>1, <2>2 DEF MarkFailed, UpdateRow
<1>11. CASE DeleteRow(a)
  <2>1. job[a].pc = "drow" /\ Done(a)
    BY <1>11 DEF DeleteRow, At
  <2>2. Cur(a) = c
    BY <1>11 DEF DeleteRow, TypeInv, TypeOK
  <2> QED BY <1>11, <2>1, <2>2 DEF Deletes, Cur
<1> QED BY <1>1, <1>4, <1>5, <1>6, <1>7, <1>8, <1>9, <1>10, <1>11 DEF Writes

LEMMA RememberedStays ==
  ASSUME TypeInv, OneDeleter, [Next]_vars, Single, NEW c \in Contents, Remembered(c)
  PROVE  Remembered(c)'
<1>1. CASE row'[c] # None
  BY <1>1 DEF Remembered
<1>2. CASE Buried(c)
  BY <1>2, BuriedStays DEF Remembered
<1>3. CASE row[c] # None /\ row'[c] = None
  <2>1. PICK a \in Actors : Deletes(a, c) /\ Done(a)
    BY <1>3, WhoForgets
  <2>2. content[c].life = "gone" /\ \A b \in Actors : Deletes(b, c) => b = a
    BY <2>1 DEF OneDeleter
  <2>3. ~Deletes(a, c)'
    <3>1. Idle.pc = "idle" /\ Rest(a, "next").pc = "next"
      BY DEF Rest, Idle
    <3>2. job'[a].pc \in {"idle", "next"}
      BY <2>1, <3>1 DEF Done, Become, TypeInv, TypeOK
    <3> QED BY <3>2 DEF Deletes
  <2>4. ASSUME NEW b \in Actors, Deletes(b, c)' PROVE FALSE
    BY <2>2, <2>3, <2>4, WhoDeletes DEF Delete, Deletable
  <2> QED BY <2>2, <2>4, GoneStays DEF Remembered, Buried
<1> QED BY <1>1, <1>2, <1>3 DEF Remembered

-----------------------------------------------------------------------------
(* What a goroutine relies on *)

AllSound == \A b \in Actors : JobSound(job[b])

(* It goes on holding, whatever the others do. *)
LEMMA StillSound ==
  ASSUME TypeInv, OneDeleter, [Next]_vars, Single
  PROVE  \A j \in Job : Shape(j) /\ JobSound(j) => JobSound(j)'
<1> SUFFICES ASSUME NEW j \in Job, Shape(j), JobSound(j) PROVE JobSound(j)'
  OBVIOUS
<1>1. \A t \in j.todo : t.of \in Contents
  BY DEF Job, Ticket
<1>2. j.pc \notin Resting => j.item.of \in Contents
  BY DEF Job, Ticket, Shape
<1>3. j.phase \in 4..6 => \A t \in j.todo : Remembered(t.of)'
  BY <1>1, RememberedStays DEF JobSound
<1>4. j.pc \in Resolved \cup {"gate", "resolve"} => Remembered(j.item.of)'
  BY <1>2, RememberedStays DEF JobSound
<1>5. (j.pc \in {"upload", "parse"} /\ j.snap = None) \/ j.pc \in {"create", "reread"}
        => Buried(j.item.of)'
  BY <1>2, BuriedStays DEF JobSound
<1>6. j.pc = "reread" => row'[j.item.of] # None
  BY <1>2, WhoForgets DEF JobSound, Buried
<1> QED BY <1>3, <1>4, <1>5, <1>6 DEF JobSound

LEMMA SameSound ==
  ASSUME TypeInv, OneDeleter, AllSound, [Next]_vars, Single, UNCHANGED job
  PROVE  AllSound'
<1>1. ASSUME NEW b \in Actors PROVE JobSound(job[b])'
  <2>1. PICK k \in Job : k = job[b] /\ Shape(k) /\ JobSound(k)
    BY DEF TypeInv, TypeOK, AllSound
  <2>2. JobSound(k)'
    BY <2>1, StillSound
  <2> QED BY <2>1, <2>2 DEF JobSound
<1> QED BY <1>1 DEF AllSound

LEMMA BecomeNewSound ==
  ASSUME TypeInv, OneDeleter, AllSound, [Next]_vars, Single, NEW a \in Actors, NEW j, Become(a, j),
         JobSound(j)'
  PROVE  AllSound'
<1>1. ASSUME NEW b \in Actors PROVE JobSound(job[b])'
  <2>1. CASE b = a
    <3>1. job'[b] = j
      BY <2>1 DEF Become, TypeInv, TypeOK
    <3> QED BY <3>1 DEF JobSound
  <2>2. CASE b # a
    <3>1. PICK k \in Job : k = job[b] /\ Shape(k) /\ JobSound(k)
      BY DEF TypeInv, TypeOK, AllSound
    <3>2. JobSound(k)' /\ job'[b] = k
      BY <2>2, <3>1, StillSound DEF Become, TypeInv, TypeOK
    <3> QED BY <3>2 DEF JobSound
  <2> QED BY <2>1, <2>2
<1> QED BY <1>1 DEF AllSound

LEMMA BecomeSound ==
  ASSUME TypeInv, OneDeleter, AllSound, [Next]_vars, Single, NEW a \in Actors, NEW j, Become(a, j),
         JobSound(j)
  PROVE  AllSound'
<1>1. job'[a] = j
  BY DEF Become, TypeInv, TypeOK
<1>2. j \in Job /\ Shape(j)
  BY <1>1, NextType DEF TypeInv, TypeOK
<1> QED BY <1>2, StillSound, BecomeNewSound

LEMMA IdleSound == JobSound(Idle)
BY DEF Idle, JobSound

LEMMA DoneSound ==
  ASSUME TypeInv, OneDeleter, AllSound, [Next]_vars, Single, NEW a \in Actors,
         Done(a) \/ Fail(a) \/ Become(a, Idle)
  PROVE  AllSound'
<1>1. JobSound(job[a])
  BY DEF AllSound
<1>2. ASSUME NEW j, NEW pc \in {"next", "markFailed"},
             j.pc = pc, j.phase = job[a].phase, j.todo = job[a].todo
      PROVE  JobSound(j)
  BY <1>1, <1>2 DEF JobSound
<1> DEFINE f == [Rest(a, "markFailed") EXCEPT !.item = job[a].item]
<1>3. JobSound(Rest(a, "next"))
  <2>1. /\ Rest(a, "next").pc = "next" /\ Rest(a, "next").phase = job[a].phase
        /\ Rest(a, "next").todo = job[a].todo
    BY DEF Rest, Idle
  <2> HIDE DEF f
  <2> QED BY <1>2, <2>1
<1>4. JobSound(f)
  <2>1. f.pc = "markFailed" /\ f.phase = job[a].phase /\ f.todo = job[a].todo
    BY DEF Rest, Idle
  <2> HIDE DEF f
  <2> QED BY <1>2, <2>1
<1>5. Become(a, Idle) \/ Become(a, Rest(a, "next")) \/ Become(a, f)
  BY DEF Done, Fail
<1> HIDE DEF f
<1> QED BY <1>3, <1>4, <1>5, IdleSound, BecomeSound

(* A goroutine goes on with what it has in hand. *)
LEMMA OnSound ==
  ASSUME TypeInv, OneDeleter, AllSound, [Next]_vars, Single, NEW a \in Actors, NEW j, Become(a, j),
         j.phase = job[a].phase, j.todo = job[a].todo, j.item = job[a].item,
         j.pc # "reread",
         j.pc \in Resolved \cup {"gate", "resolve"} => Remembered(j.item.of),
         (j.pc \in {"upload", "parse"} /\ j.snap = None) \/ j.pc = "create" => Buried(j.item.of)
  PROVE  AllSound'
<1>1. JobSound(job[a])
  BY DEF AllSound
<1>2. JobSound(j)
  BY <1>1 DEF JobSound
<1> QED BY <1>2, BecomeSound

LEMMA GotoSound ==
  ASSUME TypeInv, OneDeleter, AllSound, [Next]_vars, Single, NEW a \in Actors, NEW p, Goto(a, p),
         p # "reread",
         p \in Resolved \cup {"gate", "resolve"} => Remembered(Cur(a)),
         (p \in {"upload", "parse"} /\ job[a].snap = None) \/ p = "create" => Buried(Cur(a))
  PROVE  AllSound'
<1> DEFINE j == [job[a] EXCEPT !.pc = p]
<1>1. /\ j.pc = p /\ j.phase = job[a].phase /\ j.todo = job[a].todo /\ j.item = job[a].item
      /\ j.snap = job[a].snap
  BY DEF Job, TypeInv, TypeOK
<1> HIDE DEF j
<1>2. Become(a, j)
  BY DEF Goto, j
<1> QED BY <1>1, <1>2, OnSound DEF Cur

-----------------------------------------------------------------------------
(* The steps of a goroutine *)

LEMMA EventSound ==
  ASSUME TypeInv, OneDeleter, AllSound, [Next]_vars, Single, "db" \notin FaultKinds, NEW a \in Actors,
         EnsureRead(a) \/ EnsureInsert(a) \/ Gate(a) \/ Resolve(a) \/ ReadContent(a)
  PROVE  AllSound'
<1>0. job[a] \in Job /\ JobSound(job[a]) /\ ~Fault("db")
  BY DEF TypeInv, TypeOK, AllSound, Fault
<1>1. CASE EnsureRead(a)
  BY <1>0, <1>1, DoneSound, GotoSound DEF EnsureRead, Ensured, Remembered
<1>2. CASE EnsureInsert(a)
  <2> DEFINE j == [job[a] EXCEPT !.pc = "gate"]
  <2>0. Cur(a) \in Contents
    BY <1>2, Here DEF EnsureInsert, At
  <2>1. row'[Cur(a)] # None
    <3>1. CASE InsertRow(Cur(a), None)
      <4> DEFINE r == [id |-> NextId, of |-> Cur(a), status |-> "pending", ds |-> None, doc |-> 0,
                       hash |-> None, retry |-> 0, due |-> FALSE]
      <4>1. row'[Cur(a)] = r
        BY <2>0, <3>1 DEF InsertRow, TypeInv, TypeOK
      <4>2. r \in Row
        BY <2>0, ConstantsOK DEF Row, NextId, TypeInv, TypeOK
      <4> QED BY <4>1, <4>2, ConstantsOK
    <3> QED BY <1>0, <1>2, <3>1 DEF EnsureInsert
  <2>2. CASE Become(a, j)
    <3>1. PICK c \in Contents, T \in SUBSET Ticket :
            c = Cur(a) /\ T = job[a].todo /\ (job[a].phase \in 4..6 => \A t \in T : Remembered(t.of))
      BY <1>0, <2>0 DEF Job, JobSound
    <3>2. /\ j.pc = "gate" /\ j.phase = job[a].phase /\ j.todo = T /\ j.item.of = c
      BY <1>0, <3>1 DEF Job, Cur
    <3>3. job[a].phase \in 4..6 => \A t \in T : Remembered(t.of)'
      BY <3>1, RememberedStays DEF Ticket
    <3>4. Remembered(c)'
      BY <2>1, <3>1 DEF Remembered
    <3>5. PICK k, n : k = j /\ n = job[a].phase
      OBVIOUS
    <3>6. JobSound(k)'
      BY <3>2, <3>3, <3>4, <3>5 DEF JobSound
    <3> QED BY <2>2, <3>5, <3>6, BecomeNewSound
  <2> QED BY <1>2, <2>2, DoneSound DEF EnsureInsert, Ensured, Goto
<1>3. CASE Gate(a)
  <2>1. job[a].pc \in {"gate", "dgate", "vgate", "bgate"}
    BY <1>3 DEF Gate
  <2>2. job[a].pc = "gate" => Remembered(Cur(a))
    BY <1>0 DEF JobSound, Cur
  <2>3. \/ job[a].pc = "gate" /\ Goto(a, "resolve")
        \/ \E p \in {"dread", "vread", "list"} : Goto(a, p)
        \/ Become(a, Idle)
    BY <1>3, <2>1 DEF Gate
  <2> QED BY <2>2, <2>3, DoneSound, GotoSound
<1>4. CASE Resolve(a)
  <2>1. Remembered(Cur(a))
    BY <1>0, <1>4 DEF JobSound, Cur, Resolve, At
  <2>2. ASSUME NEW ds, Become(a, [job[a] EXCEPT !.pc = "read", !.ds = ds]) PROVE AllSound'
    BY <1>0, <2>1, <2>2, OnSound DEF Job, Cur
  <2> QED BY <1>4, <2>2, DoneSound DEF Resolve
<1>5. CASE ReadContent(a)
  <2>1. Remembered(Cur(a))
    BY <1>0, <1>5 DEF JobSound, Cur, ReadContent, At
  <2>2. ASSUME NEW t, NEW v, Become(a, [job[a] EXCEPT !.pc = "state", !.text = t, !.vis = v])
        PROVE  AllSound'
    BY <1>0, <2>1, <2>2, OnSound DEF Job, Cur
  <2> QED BY <1>5, <2>2, DoneSound DEF ReadContent
<1> QED BY <1>1, <1>2, <1>3, <1>4, <1>5

LEMMA UploadSound ==
  ASSUME TypeInv, OneDeleter, AllSound, [Next]_vars, Single, "db" \notin FaultKinds, NEW a \in Actors,
         ReadState(a) \/ DeleteOld(a) \/ Upload(a) \/ Parse(a)
  PROVE  AllSound'
<1>0. job[a] \in Job /\ Shape(job[a]) /\ JobSound(job[a])
  BY DEF TypeInv, TypeOK, AllSound
<1>1. Remembered(Cur(a))
  BY <1>0 DEF JobSound, Cur, ReadState, DeleteOld, Upload, Parse, At
<1>2. CASE ReadState(a)
  <2>1. ASSUME NEW r, NEW p \in {"unindex", "upload", "skip"}, p = "upload" /\ r = None => Buried(Cur(a)),
               Become(a, [job[a] EXCEPT !.snap = r, !.pc = p])
        PROVE  AllSound'
    <3> DEFINE j == [job[a] EXCEPT !.snap = r, !.pc = p]
    <3>1. /\ j.pc = p /\ j.snap = r /\ j.phase = job[a].phase /\ j.todo = job[a].todo
          /\ j.item = job[a].item
      BY <1>0 DEF Job
    <3> HIDE DEF j
    <3>2. Become(a, j)
      BY <2>1 DEF j
    <3> QED BY <1>1, <2>1, <3>1, <3>2, OnSound DEF Cur
  <2>2. row[Cur(a)] = None => Buried(Cur(a))
    BY <1>1 DEF Remembered
  <2> QED BY <1>2, <2>1, <2>2, DoneSound DEF ReadState
<1>3. CASE DeleteOld(a)
  <2>1. job[a].snap # None
    BY <1>0, <1>3 DEF DeleteOld, At, Shape
  <2> QED BY <1>1, <1>3, <2>1, GotoSound DEF DeleteOld
<1>4. CASE Upload(a)
  <2>1. job[a].snap = None => Buried(Cur(a))
    BY <1>0, <1>4 DEF JobSound, Upload, At, Cur
  <2>2. ASSUME NEW d, Become(a, [job[a] EXCEPT !.doc = d, !.pc = "parse"]) PROVE AllSound'
    <3> DEFINE j == [job[a] EXCEPT !.doc = d, !.pc = "parse"]
    <3>1. /\ j.pc = "parse" /\ j.snap = job[a].snap /\ j.phase = job[a].phase
          /\ j.todo = job[a].todo /\ j.item = job[a].item
      BY <1>0 DEF Job
    <3> HIDE DEF j
    <3>2. Become(a, j)
      BY <2>2 DEF j
    <3> QED BY <1>1, <2>1, <3>1, <3>2, OnSound DEF Cur
  <2> QED BY <1>4, <2>2, DoneSound DEF Upload
<1>5. CASE Parse(a)
  <2>1. job[a].snap = None => Buried(Cur(a))
    BY <1>0, <1>5 DEF JobSound, Parse, At, Cur
  <2> QED BY <1>1, <1>5, <2>1, GotoSound DEF Parse
<1> QED BY <1>2, <1>3, <1>4, <1>5

(* The row written here is there, and nobody is left to delete it. *)
LEMMA CreateRowSound ==
  ASSUME TypeInv, OneDeleter, AllSound, [Next]_vars, Single, "db" \notin FaultKinds, NEW a \in Actors,
         CreateRow(a)
  PROVE  AllSound'
<1>0. job[a] \in Job /\ JobSound(job[a]) /\ job[a].pc = "create" /\ Cur(a) \in Contents
  BY Here DEF TypeInv, TypeOK, AllSound, CreateRow, At
<1>1. UpsertPending(Cur(a), job[a].text) /\ Goto(a, "reread")
  BY DEF CreateRow, Fault
<1>2. row'[Cur(a)] # None
  <2>1. job[a].text \in Texts \cup {None}
    BY <1>0 DEF Job
  <2>2. CASE InsertRow(Cur(a), job[a].text)
    <3> DEFINE r == [id |-> NextId, of |-> Cur(a), status |-> "pending", ds |-> None, doc |-> 0,
                     hash |-> job[a].text, retry |-> 0, due |-> FALSE]
    <3>1. row'[Cur(a)] = r
      BY <1>0, <2>2 DEF InsertRow, TypeInv, TypeOK
    <3>2. r \in Row
      BY <1>0, <2>1, ConstantsOK DEF Row, NextId, TypeInv, TypeOK
    <3> QED BY <3>1, <3>2, ConstantsOK
  <2>3. CASE row[Cur(a)] # None
    <3>1. \A b \in Actors : ~Deletes(b, Cur(a))
      BY <1>0 DEF JobSound, Cur, Buried
    <3> QED BY <1>0, <2>3, <3>1, WhoForgets
  <2> QED BY <1>1, <2>2, <2>3 DEF UpsertPending
<1> DEFINE j == [job[a] EXCEPT !.pc = "reread"]
<1>3. PICK c \in Contents, T \in SUBSET Ticket :
        /\ c = Cur(a) /\ T = job[a].todo
        /\ job[a].phase \in 4..6 => \A t \in T : Remembered(t.of)
        /\ Buried(c)
  BY <1>0 DEF Job, JobSound, Cur
<1>4. /\ j.pc = "reread" /\ j.phase = job[a].phase /\ j.todo = T /\ j.item.of = c
  BY <1>0, <1>3 DEF Job, Cur
<1>5. job[a].phase \in 4..6 => \A t \in T : Remembered(t.of)'
  BY <1>3, RememberedStays DEF Ticket
<1>6. Buried(c)' /\ Remembered(c)' /\ row'[c] # None
  BY <1>2, <1>3, BuriedStays DEF Remembered
<1>7. PICK k, n : k = j /\ n = job[a].phase
  OBVIOUS
<1>8. JobSound(k)'
  BY <1>4, <1>5, <1>6, <1>7 DEF JobSound
<1> QED BY <1>1, <1>7, <1>8, BecomeNewSound DEF Goto

(* So the syncer finds it. *)
LEMMA RereadFinds ==
  ASSUME TypeInv, AllSound, "db" \notin FaultKinds, NEW a \in Actors, Reread(a)
  PROVE  /\ Become(a, [job[a] EXCEPT !.snap = row[Cur(a)], !.pc = "mark"])
         /\ UNCHANGED proc /\ Remembered(Cur(a))
<1>1. row[Cur(a)] # None
  BY DEF AllSound, JobSound, Cur, Reread, At
<1> QED BY <1>1 DEF Reread, Fault, Remembered

LEMMA RecordSound ==
  ASSUME TypeInv, OneDeleter, AllSound, [Next]_vars, Single, "db" \notin FaultKinds, NEW a \in Actors,
         Reread(a) \/ MarkSynced(a) \/ MarkSkipped(a) \/ UpdateHash(a) \/ DeleteRow(a)
           \/ ResetRow(a) \/ MarkFailed(a)
  PROVE  AllSound'
<1>0. job[a] \in Job /\ JobSound(job[a])
  BY DEF TypeInv, TypeOK, AllSound
<1>1. CASE Reread(a)
  <2> DEFINE j == [job[a] EXCEPT !.snap = row[Cur(a)], !.pc = "mark"]
  <2>1. /\ j.pc = "mark" /\ j.phase = job[a].phase /\ j.todo = job[a].todo
        /\ j.item = job[a].item
    BY <1>0 DEF Job
  <2>2. Become(a, j) /\ Remembered(Cur(a))
    BY <1>1, RereadFinds
  <2> HIDE DEF j
  <2> QED BY <2>1, <2>2, OnSound DEF Cur
<1>2. CASE MarkSynced(a)
  <2>1. Remembered(Cur(a))
    BY <1>0, <1>2 DEF JobSound, Cur, MarkSynced, At
  <2> QED BY <1>2, <2>1, DoneSound, GotoSound DEF MarkSynced
<1>3. CASE MarkSkipped(a) \/ UpdateHash(a) \/ DeleteRow(a) \/ ResetRow(a) \/ MarkFailed(a)
  BY <1>3, DoneSound DEF MarkSkipped, UpdateHash, DeleteRow, ResetRow, MarkFailed
<1> QED BY <1>1, <1>2, <1>3

LEMMA NoticeSound ==
  ASSUME TypeInv, OneDeleter, AllSound, [Next]_vars, Single, NEW a \in Actors,
         DeleteRead(a) \/ DeleteDoc(a) \/ VisibilityRead(a) \/ VisibilityUpdate(a)
           \/ ListAttachments(a)
  PROVE  AllSound'
<1>0. job[a] \in Job
  BY DEF TypeInv, TypeOK
<1>1. ASSUME NEW r, NEW p \in {"ddoc", "drow", "vupd"},
             Become(a, [job[a] EXCEPT !.snap = r, !.pc = p])
      PROVE  AllSound'
  <2> DEFINE j == [job[a] EXCEPT !.snap = r, !.pc = p]
  <2>1. /\ j.pc = p /\ j.phase = job[a].phase /\ j.todo = job[a].todo /\ j.item = job[a].item
    BY <1>0 DEF Job
  <2> HIDE DEF j
  <2>2. Become(a, j)
    BY <1>1 DEF j
  <2> QED BY <2>1, <2>2, OnSound
<1>2. CASE DeleteRead(a) \/ VisibilityRead(a)
  BY <1>1, <1>2, DoneSound, GotoSound DEF DeleteRead, VisibilityRead
<1>3. CASE DeleteDoc(a) \/ VisibilityUpdate(a)
  BY <1>3, DoneSound, GotoSound DEF DeleteDoc, VisibilityUpdate
<1>4. CASE ListAttachments(a)
  <2>1. ASSUME NEW v, NEW todo,
               Become(a, [Idle EXCEPT !.pc = "next", !.phase = OfAttachments, !.vis = v, !.todo = todo])
        PROVE  AllSound'
    <3> DEFINE j == [Idle EXCEPT !.pc = "next", !.phase = OfAttachments, !.vis = v, !.todo = todo]
    <3>1. j.pc = "next" /\ j.phase = 7
      BY DEF Idle, OfAttachments
    <3>2. JobSound(j)
      BY <3>1 DEF JobSound
    <3> HIDE DEF j
    <3>3. Become(a, j)
      BY <2>1 DEF j
    <3> QED BY <3>2, <3>3, BecomeSound
  <2> QED BY <1>4, <2>1, DoneSound DEF ListAttachments
<1> QED BY <1>2, <1>3, <1>4

(* A cycle syncs rows as it listed them: they were there. *)
LEMMA ListingsSound ==
  ASSUME TypeInv, Ownership, NEW p \in 4..6, NEW todo \in Listings(p)
  PROVE  \A t \in todo : Remembered(t.of)
<1>1. \A r \in Rows : Remembered(TicketOf(r).of)
  BY DEF Rows, Ownership, RowsOwned, TicketOf, Remembered
<1>2. \A S : \A t \in Pending(S) : Remembered(t.of)
  BY <1>1 DEF Pending, Newest, WithStatus
<1>3. Retryable \subseteq Rows
  BY DEF Retryable, Newest, WithStatus
<1>4. \A S \in SUBSET Rows : \A t \in {TicketOf(r) : r \in S} : Remembered(t.of)
  BY <1>1
<1> QED BY <1>2, <1>3, <1>4 DEF Listings

LEMMA LoopSound ==
  ASSUME TypeInv, Ownership, OneDeleter, AllSound, [Next]_vars, Single, "db" \notin FaultKinds,
         NEW a \in Actors, List(a) \/ NextItem(a)
  PROVE  AllSound'
<1>0. job[a] \in Job /\ Shape(job[a]) /\ JobSound(job[a])
  BY DEF TypeInv, TypeOK, AllSound
<1>1. CASE List(a)
  <2>1. ASSUME NEW todo \in Listings(job[a].phase),
               Become(a, [job[a] EXCEPT !.todo = todo, !.pc = "next"])
        PROVE  AllSound'
    <3> DEFINE j == [job[a] EXCEPT !.todo = todo, !.pc = "next"]
    <3>1. j.pc = "next" /\ j.phase = job[a].phase /\ j.todo = todo
      BY <1>0 DEF Job
    <3> HIDE DEF j
    <3>2. Become(a, j)
      BY <2>1 DEF j
    <3>3. j.phase \in 4..6 => \A t \in j.todo : Remembered(t.of)
      BY <2>1, <3>1, ListingsSound
    <3>4. JobSound(j)
      BY <3>1, <3>3 DEF JobSound
    <3> QED BY <3>2, <3>4, BecomeSound
  <2> QED BY <1>1, <2>1 DEF List, Fault
<1>2. CASE NextItem(a)
  <2>1. job[a].phase \in 1..7
    <3>1. job[a].pc = "next"
      BY <1>2 DEF NextItem, At
    <3> QED BY <1>0, <3>1 DEF Shape, Job, Phases
  <2>2. /\ First(job[a].phase) \in {"ensure", "reset", "resolve", "vread"}
        /\ First(job[a].phase) = "resolve" => job[a].phase \in 4..6
    BY <2>1 DEF First
  <2>3. ASSUME NEW t \in job[a].todo,
               Become(a, [job[a] EXCEPT !.pc = First(job[a].phase), !.item = t, !.todo = @ \ {t}])
        PROVE  AllSound'
    <3> DEFINE pc == First(job[a].phase)
               todo == job[a].todo \ {t}
               j == [job[a] EXCEPT !.pc = pc, !.item = t, !.todo = todo]
    <3>1. j.pc = pc /\ j.phase = job[a].phase /\ j.todo = todo /\ j.item = t
      BY <1>0 DEF Job
    <3>2. Become(a, j)
      BY <2>3
    <3> HIDE DEF j
    <3>3. JobSound(j)
      BY <1>0, <2>2, <3>1 DEF JobSound
    <3> QED BY <3>2, <3>3, BecomeSound
  <2>4. ASSUME job[a].todo = {}, NEW n, Become(a, [job[a] EXCEPT !.pc = "list", !.phase = n])
        PROVE  AllSound'
    <3> DEFINE j == [job[a] EXCEPT !.pc = "list", !.phase = n]
    <3>1. j.pc = "list" /\ j.todo = {}
      BY <1>0, <2>4 DEF Job
    <3> HIDE DEF j
    <3>2. Become(a, j)
      BY <2>4 DEF j
    <3>3. JobSound(j)
      BY <3>1 DEF JobSound
    <3> QED BY <3>2, <3>3, BecomeSound
  <2> QED BY <1>2, <2>3, <2>4, DoneSound DEF NextItem
<1> QED BY <1>1, <1>2

LEMMA OthersSound ==
  ASSUME TypeInv, OneDeleter, AllSound, [Next]_vars, Single, \A a \in Actors : ~Step(a)
  PROVE  AllSound'
<1>1. ASSUME NEW a \in Actors, NEW pc \in {"ensure", "vgate", "dgate"}, NEW c, NEW vis,
             Launch(a, pc, c, vis)
      PROVE  AllSound'
  <2> DEFINE j == [Idle EXCEPT !.pc = pc, !.item = Ticketed(c), !.vis = vis]
  <2>1. j.pc = pc /\ j.phase = 0
    BY DEF Idle
  <2> HIDE DEF j
  <2>2. JobSound(j)
    BY <2>1 DEF JobSound
  <2>3. Become(a, j)
    BY <1>1 DEF Launch, j
  <2> QED BY <2>2, <2>3, BecomeSound
<1>2. CASE User
  BY <1>1, <1>2, UserLaunches, SameSound
<1>6. CASE Crash
  BY <1>6 DEF Crash, AllSound, JobSound, Idle
<1>7. CASE Restart \/ UNCHANGED vars
  BY <1>7, SameSound DEF Restart, vars
<1>8. ASSUME NEW a \in Actors, StartBatch(a) PROVE AllSound'
  <2> DEFINE j == [Idle EXCEPT !.pc = "bgate", !.phase = 1]
  <2>1. j.pc = "bgate" /\ j.phase = 1
    BY DEF Idle
  <2> HIDE DEF j
  <2>2. JobSound(j)
    BY <2>1 DEF JobSound
  <2>3. Become(a, j)
    BY <1>8 DEF StartBatch, j
  <2> QED BY <2>2, <2>3, BecomeSound
<1> QED BY <1>2, <1>6, <1>7, <1>8 DEF Next

LEMMA NextRereadable ==
  "db" \notin FaultKinds /\ TypeInv /\ Ownership /\ Rereadable /\ [Next]_vars => Rereadable'
<1> SUFFICES ASSUME "db" \notin FaultKinds, TypeInv, Ownership, Rereadable, [Next]_vars
             PROVE  Rereadable'
  OBVIOUS
<1> SUFFICES ASSUME Once' PROVE Sound'
  BY DEF Rereadable
<1>s. Single
  BY OnceMeans
<1>0. OneDeleter /\ AllSound /\ proc # "panicked"
  BY OnceMeans DEF Rereadable, Sound, AllSound, NotPanicked
<1>1. ASSUME NEW a \in Actors, Step(a) PROVE AllSound'
  BY <1>s, <1>0, <1>1, EventSound, UploadSound, CreateRowSound, RecordSound, NoticeSound, LoopSound
     DEF Step
<1>2. ASSUME NEW a \in Actors, Step(a) PROVE UNCHANGED proc
  BY <1>s, <1>0, <1>2, RereadFinds DEF Step, EnsureRead, EnsureInsert, Gate, Resolve, ReadContent, ReadState,
     MarkSkipped, DeleteOld, Upload, Parse, CreateRow, MarkSynced, UpdateHash, DeleteRead, DeleteDoc,
     DeleteRow, VisibilityRead, VisibilityUpdate, ListAttachments, List, NextItem, ResetRow, MarkFailed,
     OthersUnchanged
<1>3. AllSound'
  BY <1>s, <1>0, <1>1, OthersSound
<1>4. NotPanicked'
  BY <1>0, <1>2, UserTouches DEF NotPanicked, Next, Crash, Restart, StartBatch, vars
<1>5. OneDeleter'
  BY <1>s, <1>0, NextOneDeleter
<1> QED BY <1>3, <1>4, <1>5 DEF Sound, AllSound

(* The row the syncer reads back without looking at the error is there,      *)
(* however events, deletions and cycles overlap, crashes and failed calls to *)
(* RAGFlow included, as long as no content was deleted by two requests: only *)
(* that or a failing database can make it panic (SyncMemo and SyncAttachment *)
(* after CreatePendingState).                                                *)
THEOREM SyncerNeverPanics ==
  ASSUME "db" \notin FaultKinds
  PROVE  Spec => []NoPanic
<1>1. Init => Rereadable
  BY DEF Init, Rereadable, Sound, OneDeleter, Deletes, NotPanicked, JobSound, Idle
<1>2. Rereadable => NoPanic
  BY DEF Rereadable, Sound, Once, NotPanicked, NoPanic
<1>3. TypeInv /\ Ownership /\ Rereadable /\ [Next]_vars => Rereadable'
  BY NextRereadable
<1> QED BY <1>1, <1>2, <1>3, InitType, NextType, InitOwned, NextOwned, PTL DEF Spec

-----------------------------------------------------------------------------
(* One goroutine at a time, nothing fails: the index follows the rows *)

(* What a step leaves alone of a content's home and of its documents. *)
Framed ==
  /\ \A c \in Contents : Home(c)' = Home(c)
  /\ \A i \in DOMAIN uploads :
       /\ i \in DOMAIN uploads'
       /\ uploads'[i].of = uploads[i].of /\ uploads'[i].text = uploads[i].text
       /\ uploads'[i].ds = uploads[i].ds

(* The contents but one: where the step of a goroutine that handles that one *)
(* leaves the rows and the index alone.                                      *)
ElsewhereSame(x) ==
  \A c \in Contents \ {x} :
    /\ row'[c] = row[c]
    /\ \A i : i \in DOMAIN uploads' /\ uploads'[i].of = c => (i \in index' <=> i \in index)

LEMMA SettledElsewhere ==
  ASSUME TypeInv, Ownership, TypeInv', Framed, NEW x, ElsewhereSame(x), NEW c \in Contents \ {x},
         Settled(c)
  PROVE  Settled(c)'
<1>1. row'[c] = row[c] /\ index' \subseteq DOMAIN uploads' /\ index \subseteq DOMAIN uploads
  BY DEF ElsewhereSame, TypeInv, TypeOK
<1>2. \A i \in index' : uploads'[i].of = c => i \in index /\ uploads[i].of = c
  BY <1>1 DEF ElsewhereSame, Framed
<1>3. \A i \in index : uploads[i].of = c => i \in index' /\ uploads'[i].of = c
  BY <1>1 DEF ElsewhereSame, Framed
<1>4. row[c] # None /\ row[c].doc # 0 => row[c].doc \in DOMAIN uploads /\ uploads[row[c].doc].of = c
  BY DEF Ownership, RowsOwned, DocOf
<1>5. ASSUME row[c] # None, row[c].status = "synced"
      PROVE  row[c].doc \in index /\ uploads[row[c].doc].text = row[c].hash /\ row[c].doc # 0
  BY <1>1, <1>5 DEF Settled, TypeInv, TypeOK
<1>6. Home(c)' = Home(c)
  BY DEF Framed
<1>7. ASSUME row[c] = None PROVE Absent(c)'
  BY <1>2, <1>7 DEF Settled, Absent
<1>8. ASSUME row[c] # None PROVE Only(c, row[c].doc)'
  BY <1>1, <1>2, <1>8 DEF Settled, Only
<1>9. ASSUME row[c] # None, row[c].doc # 0
      PROVE  row'[c].ds = Home(c)' /\ uploads'[row[c].doc].ds = Home(c)'
  BY <1>1, <1>4, <1>6, <1>9 DEF Settled, Framed
<1>10. ASSUME row[c] # None, row[c].status = "synced"
       PROVE  row[c].doc \in index' /\ uploads'[row[c].doc].text = row[c].hash
  BY <1>1, <1>3, <1>4, <1>5, <1>10 DEF Framed
<1> QED BY <1>1, <1>7, <1>8, <1>9, <1>10 DEF Settled, Only

(* The one goroutine that runs, and what it must have in hand after a step. *)
LEMMA TidyBecomes ==
  ASSUME TypeInv, Undisturbed, NEW a \in Actors, NEW k, Become(a, k), JobTidy(k)',
         \A c \in Contents : ~Handled(k, c) => Settled(c)'
  PROVE  Tidy'
<1>1. \A b \in Actors : b = a /\ job'[b] = k
  BY DEF Undisturbed, TypeInv, TypeOK, Become
<1>2. \A b \in Actors : JobTidy(job[b])'
  BY <1>1 DEF JobTidy
<1>3. ASSUME NEW c \in Contents, \A b \in Actors : ~Handled(job'[b], c) PROVE Settled(c)'
  BY <1>1, <1>3
<1> QED BY <1>2, <1>3 DEF Tidy, Handled

(* What the goroutine about to take a step has in hand. *)
LEMMA TidyHere ==
  ASSUME Undisturbed, Tidy, NEW a \in Actors
  PROVE  /\ JobTidy(job[a])
         /\ \A c \in Contents : ~Handled(job[a], c) => Settled(c)
BY DEF Undisturbed, Tidy, Handled

(* Program counters at which a goroutine holds nothing that matters here. *)
Plain == PC \ (Resolved \cup {"ddoc", "drow"})

LEMMA PlainTidy ==
  ASSUME NEW k, k.pc \in Plain
  PROVE  JobTidy(k) /\ JobTidy(k)' /\ \A c : ~Handled(k, c)
BY DEF Plain, JobTidy, Handled, Handling

(* Steps that change nothing but the goroutine. *)
LEMMA OnlyJobTidy ==
  ASSUME TypeInv, Undisturbed, Tidy, UNCHANGED <<content, row, uploads, index>>,
         NEW a \in Actors, NEW k, Become(a, k), JobTidy(k),
         \A c \in Contents : ~Handled(k, c) => Settled(c)
  PROVE  Tidy'
<1>1. JobTidy(k)'
  BY DEF JobTidy, Home, Only, Absent
<1>2. \A c \in Contents : ~Handled(k, c) => Settled(c)'
  BY DEF Settled, Home, Only, Absent
<1> QED BY <1>1, <1>2, TidyBecomes

LEMMA SameTidy ==
  ASSUME Tidy, UNCHANGED <<content, row, uploads, index, job>>
  PROVE  Tidy'
BY DEF Tidy, JobTidy, Settled, Home, Only, Absent, Handled

LEMMA RestIs ==
  ASSUME NEW a, NEW pc
  PROVE  Rest(a, pc).pc = pc /\ [Rest(a, pc) EXCEPT !.item = job[a].item].pc = pc
BY DEF Rest, Idle

LEMMA DoneIs ==
  ASSUME NEW a, Done(a)
  PROVE  \E k : Become(a, k) /\ k.pc \in Plain
<1>1. Idle.pc \in Plain /\ "next" \in Plain
  BY DEF Idle, Plain, PC
<1> QED BY <1>1, RestIs DEF Done

LEMMA FailIs ==
  ASSUME NEW a, Fail(a)
  PROVE  \E k : Become(a, k) /\ k.pc \in Plain
<1>1. Idle.pc \in Plain /\ "markFailed" \in Plain
  BY DEF Idle, Plain, PC
<1>2. [Rest(a, "markFailed") EXCEPT !.item = job[a].item].pc = "markFailed"
  BY RestIs
<1> QED BY <1>1, <1>2 DEF Fail

LEMMA Answers ==
  ASSUME Undisturbed
  PROVE  ~Fault("db") /\ ~Fault("rag") /\ ~Fault("crash")
BY DEF Undisturbed, Fault

(* The steps that read or wait, with nothing under way. *)
LEMMA ReadsTidy ==
  ASSUME TypeInv, Undisturbed, Tidy, NEW a \in Actors,
         \/ EnsureRead(a) \/ Gate(a) \/ Resolve(a) \/ ReadContent(a) \/ ReadState(a)
         \/ Reread(a) \/ DeleteRead(a) \/ VisibilityRead(a) \/ ListAttachments(a)
         \/ List(a) \/ NextItem(a) \/ StartBatch(a)
  PROVE  Tidy'
<1> DEFINE j == job[a]
<1>0. JobTidy(j) /\ \A c \in Contents : ~Handled(j, c) => Settled(c)
  BY TidyHere
<1>1. j \in Job /\ Shape(j)
  BY Here
<1>2. UNCHANGED <<content, row, uploads, index>>
  BY DEF EnsureRead, Gate, Resolve, ReadContent, ReadState, Reread, DeleteRead, VisibilityRead,
     ListAttachments, List, NextItem, StartBatch, OthersUnchanged
<1>3. ASSUME NEW k, Become(a, k), k.pc \in Plain, j.pc \notin Handling PROVE Tidy'
  <2>1. \A c \in Contents : Settled(c)
    BY <1>0, <1>3 DEF Handled
  <2> QED BY <1>2, <1>3, <2>1, PlainTidy, OnlyJobTidy
<1>4. ASSUME j.pc \notin Handling, Done(a) \/ Fail(a) PROVE Tidy'
  BY <1>3, <1>4, DoneIs, FailIs
<1>8. ASSUME NEW k, Become(a, k), JobTidy(k), \A c \in Contents : ~Handled(k, c), j.pc \notin Handling
      PROVE  Tidy'
  <2>1. \A c \in Contents : Settled(c)
    BY <1>0, <1>8 DEF Handled
  <2> QED BY <1>2, <1>8, <2>1, OnlyJobTidy
<1>9. ASSUME NEW pc \in Plain, Goto(a, pc), j.pc \notin Handling PROVE Tidy'
  <2>1. [j EXCEPT !.pc = pc].pc = pc
    BY <1>1 DEF Job
  <2> QED BY <1>3, <1>9, <2>1 DEF Goto
<1>19. {"insert", "gate", "resolve", "dread", "vread", "list", "vlist"} \subseteq Plain
  BY DEF Plain, PC
<1> USE Answers, <1>19
<1>5. CASE EnsureRead(a)
  <2>1. j.pc \notin Handling
    BY <1>5 DEF EnsureRead, At, Handling
  <2>2. CASE Done(a)
    BY <1>4, <2>1, <2>2
  <2>3. CASE Goto(a, "insert") \/ Goto(a, "gate")
    BY <1>9, <2>1, <2>3
  <2> QED BY <1>5, <2>2, <2>3 DEF EnsureRead, Ensured
<1>6. CASE Gate(a)
  <2>1. j.pc \notin Handling
    BY <1>6 DEF Gate, Handling
  <2>2. Become(a, Idle) \/ \E pc \in {"resolve", "dread", "vread", "list"} : Goto(a, pc)
    BY <1>6 DEF Gate
  <2>3. Idle.pc \in Plain
    BY DEF Idle, Plain, PC
  <2> QED BY <1>3, <1>9, <2>1, <2>2, <2>3
<1>7. CASE Resolve(a)
  <2>1. j.pc \notin Handling
    BY <1>7 DEF Resolve, At, Handling
  <2>2. CASE Done(a)
    BY <1>4, <2>1, <2>2
  <2>3. CASE Become(a, [j EXCEPT !.pc = "read", !.ds = Home(Cur(a))])
    <3> DEFINE k == [j EXCEPT !.pc = "read", !.ds = Home(Cur(a))]
    <3>1. k.pc = "read" /\ k.ds = Home(k.item.of) /\ k.item = j.item
      BY <1>1 DEF Job, Cur
    <3> HIDE DEF k
    <3>2. JobTidy(k) /\ \A c \in Contents : ~Handled(k, c)
      BY <3>1 DEF JobTidy, Handled, Handling
    <3>3. Become(a, k)
      BY <2>3 DEF k
    <3> QED BY <1>8, <2>1, <3>2, <3>3
  <2> QED BY <1>7, <2>2, <2>3 DEF Resolve
<1>10. CASE ReadContent(a)
  <2>1. j.pc = "read" /\ j.ds = Home(j.item.of)
    BY <1>0, <1>10 DEF ReadContent, At, JobTidy
  <2>2. CASE Fail(a)
    BY <1>4, <2>1, <2>2 DEF Handling
  <2>3. ASSUME NEW v, Become(a, [j EXCEPT !.pc = "state", !.text = content[Cur(a)].text, !.vis = v])
        PROVE  Tidy'
    <3> DEFINE k == [j EXCEPT !.pc = "state", !.text = content[Cur(a)].text, !.vis = v]
    <3>1. k.pc = "state" /\ k.ds = j.ds /\ k.item = j.item
      BY <1>1 DEF Job
    <3> HIDE DEF k
    <3>2. JobTidy(k) /\ \A c \in Contents : ~Handled(k, c)
      BY <2>1, <3>1 DEF JobTidy, Handled, Handling
    <3>3. Become(a, k)
      BY <2>3 DEF k
    <3> QED BY <1>8, <2>1, <3>2, <3>3 DEF Handling
  <2> QED BY <1>10, <2>2, <2>3 DEF ReadContent
<1>11. CASE ReadState(a)
  <2> DEFINE r == row[Cur(a)]
  <2>1. j.pc = "state" /\ j.ds = Home(j.item.of) /\ Cur(a) = j.item.of /\ Cur(a) \in Contents
    BY <1>0, <1>11, Here DEF ReadState, At, JobTidy, Cur
  <2>2. CASE Fail(a) \/ Done(a)
    BY <1>4, <2>1, <2>2 DEF Handling
  <2>3. ASSUME NEW pc \in {"unindex", "upload", "skip"},
               Become(a, [j EXCEPT !.snap = r, !.pc = pc]),
               pc = "upload" => r = None \/ r.doc = 0
        PROVE  Tidy'
    <3> DEFINE k == [j EXCEPT !.snap = r, !.pc = pc]
    <3>1. k.pc = pc /\ k.ds = j.ds /\ k.item = j.item /\ k.snap = r
      BY <1>1 DEF Job
    <3>2. Settled(Cur(a)) /\ \A c \in Contents : ~Handled(k, c) => Settled(c)
      BY <1>0, <2>1 DEF Handled, Handling
    <3>3. Become(a, k)
      BY <2>3 DEF k
    <3> HIDE DEF k
    <3>4. pc = "upload" => Absent(Cur(a))
      BY <2>3, <3>2 DEF Settled, Only, Absent, TypeInv, TypeOK
    <3>5. JobTidy(k)
      BY <2>1, <3>1, <3>4 DEF JobTidy
    <3> QED BY <1>2, <3>2, <3>3, <3>5, OnlyJobTidy
  <2> QED BY <1>11, <2>2, <2>3 DEF ReadState
<1>12. CASE Reread(a)
  <2> DEFINE r == row[Cur(a)]
  <2>1. j.pc = "reread" /\ j.ds = Home(j.item.of) /\ Cur(a) = j.item.of /\ r # None
    BY <1>0, <1>12 DEF Reread, At, JobTidy, Cur
  <2> DEFINE k == [j EXCEPT !.snap = r, !.pc = "mark"]
  <2>2. Become(a, k)
    BY <1>12, <2>1 DEF Reread
  <2>3. k.pc = "mark" /\ k.ds = j.ds /\ k.item = j.item /\ k.snap = r /\ k.doc = j.doc /\ k.text = j.text
    BY <1>1 DEF Job
  <2> HIDE DEF k
  <2>4. JobTidy(k)
    BY <1>0, <2>1, <2>3 DEF JobTidy
  <2>5. \A c \in Contents : Handled(j, c) => Handled(k, c)
    BY <2>1, <2>3 DEF Handled, Handling
  <2> QED BY <1>0, <1>2, <2>2, <2>4, <2>5, OnlyJobTidy
<1>13. CASE DeleteRead(a)
  <2> DEFINE r == row[Cur(a)]
  <2>1. j.pc = "dread" /\ Cur(a) = j.item.of /\ Cur(a) \in Contents
    BY <1>13, Here DEF DeleteRead, At, Cur
  <2>2. CASE Done(a)
    BY <1>4, <2>1, <2>2 DEF Handling
  <2>3. ASSUME NEW pc \in {"ddoc", "drow"}, Become(a, [j EXCEPT !.snap = r, !.pc = pc]),
               r # None, pc = "drow" => ~Indexed(r)
        PROVE  Tidy'
    <3> DEFINE k == [j EXCEPT !.snap = r, !.pc = pc]
    <3>1. k.pc = pc /\ k.item = j.item /\ k.snap = r
      BY <1>1 DEF Job
    <3>2. Settled(Cur(a)) /\ \A c \in Contents : ~Handled(k, c) => Settled(c)
      BY <1>0, <2>1 DEF Handled, Handling
    <3>3. Become(a, k)
      BY <2>3 DEF k
    <3> HIDE DEF k
    <3>4. Home(Cur(a)) # None
      BY <2>1, ConstantsOK DEF Home, Host, TypeInv, TypeOK, Content
    <3>5. pc = "drow" => r.doc = 0
      BY <2>3, <3>2, <3>4 DEF Settled, Indexed
    <3>6. pc = "drow" => Absent(Cur(a))
      BY <2>3, <3>2, <3>5 DEF Settled, Only, Absent, TypeInv, TypeOK
    <3>7. JobTidy(k)
      BY <2>1, <3>1, <3>6 DEF JobTidy
    <3> QED BY <1>2, <3>2, <3>3, <3>7, OnlyJobTidy
  <2> QED BY <1>13, <2>2, <2>3 DEF DeleteRead
<1>14. CASE VisibilityRead(a)
  <2>1. j.pc \notin Handling
    BY <1>14 DEF VisibilityRead, At, Handling
  <2>2. CASE Done(a)
    BY <1>4, <2>1, <2>2
  <2>3. CASE Goto(a, "vlist")
    BY <1>9, <2>1, <2>3
  <2>4. CASE Become(a, [j EXCEPT !.snap = row[Cur(a)], !.pc = "vupd"])
    <3>1. [j EXCEPT !.snap = row[Cur(a)], !.pc = "vupd"].pc \in Plain
      BY <1>1 DEF Job, Plain, PC
    <3> QED BY <1>3, <2>1, <2>4, <3>1
  <2> QED BY <1>14, <2>2, <2>3, <2>4 DEF VisibilityRead
<1>15. CASE ListAttachments(a)
  <2>1. j.pc \notin Handling
    BY <1>15 DEF ListAttachments, At, Handling
  <2>2. CASE Done(a)
    BY <1>4, <2>1, <2>2
  <2>3. ASSUME NEW v, NEW S,
               Become(a, [Idle EXCEPT !.pc = "next", !.phase = OfAttachments, !.vis = v, !.todo = S])
        PROVE  Tidy'
    <3>1. [Idle EXCEPT !.pc = "next", !.phase = OfAttachments, !.vis = v, !.todo = S].pc \in Plain
      BY DEF Idle, Plain, PC
    <3> QED BY <1>3, <2>1, <2>3, <3>1
  <2> QED BY <1>15, <2>2, <2>3 DEF ListAttachments
<1>16. CASE List(a)
  <2>1. j.pc \notin Handling
    BY <1>16 DEF List, At, Handling
  <2>2. PICK S : Become(a, [j EXCEPT !.todo = S, !.pc = "next"])
    BY <1>16 DEF List
  <2>3. [j EXCEPT !.todo = S, !.pc = "next"].pc \in Plain
    BY <1>1 DEF Job, Plain, PC
  <2> QED BY <1>3, <2>1, <2>2, <2>3
<1>17. CASE NextItem(a)
  <2>1. j.pc \notin Handling
    BY <1>17 DEF NextItem, At, Handling
  <2>2. ASSUME NEW t \in j.todo,
               Become(a, [j EXCEPT !.pc = First(j.phase), !.item = t, !.todo = @ \ {t}])
        PROVE  Tidy'
    <3>1. [j EXCEPT !.pc = First(j.phase), !.item = t, !.todo = @ \ {t}].pc = First(j.phase)
      BY <1>1 DEF Job
    <3>2. j.phase \in 1..7
      <4>1. j.phase \in 0..7
        BY <1>1 DEF Job, Phases
      <4>2. j.phase # 0
        BY <1>1, <1>17 DEF NextItem, At, Shape
      <4> QED BY <4>1, <4>2
    <3>3. First(j.phase) \in {"ensure", "reset", "resolve", "vread"}
      BY <3>2 DEF First
    <3>4. First(j.phase) \in Plain
      BY <3>3 DEF Plain, PC
    <3> QED BY <1>3, <2>1, <2>2, <3>1, <3>4
  <2>3. CASE Become(a, [j EXCEPT !.pc = "list", !.phase = @ + 1])
    <3>1. [j EXCEPT !.pc = "list", !.phase = @ + 1].pc \in Plain
      BY <1>1 DEF Job, Plain, PC
    <3> QED BY <1>3, <2>1, <2>3, <3>1
  <2>4. CASE Become(a, Idle)
    BY <1>3, <2>1, <2>4 DEF Idle, Plain, PC
  <2> QED BY <1>17, <2>2, <2>3, <2>4 DEF NextItem
<1>18. CASE StartBatch(a)
  <2>1. j.pc \notin Handling
    BY <1>18 DEF StartBatch, At, Handling
  <2>2. [Idle EXCEPT !.pc = "bgate", !.phase = 1].pc \in Plain
    BY DEF Idle, Plain, PC
  <2> QED BY <1>3, <1>18, <2>1, <2>2 DEF StartBatch
<1> QED BY <1>5, <1>6, <1>7, <1>10, <1>11, <1>12, <1>13, <1>14, <1>15, <1>16, <1>17, <1>18

(* Steps that leave every other content's row and documents alone, and of    *)
(* which the goroutine makes sure that its own content is settled, or that   *)
(* it holds what the next step needs.                                        *)
LEMMA HandlesTidy ==
  ASSUME TypeInv, TypeInv', Ownership, Undisturbed, Tidy, Framed, NEW a \in Actors,
         NEW x, x = job[a].item.of, ElsewhereSame(x), NEW k, Become(a, k), JobTidy(k)',
         Handled(k, x) \/ Settled(x)'
  PROVE  Tidy'
<1>1. \A c \in Contents : ~Handled(job[a], c) => Settled(c)
  BY TidyHere
<1>2. ASSUME NEW c \in Contents, ~Handled(k, c) PROVE Settled(c)'
  <2>1. CASE c = x
    BY <1>2, <2>1
  <2>2. CASE c # x
    BY <1>1, <2>2, SettledElsewhere DEF Handled
  <2> QED BY <2>1, <2>2
<1> QED BY <1>2, TidyBecomes

LEMMA DocsFramed ==
  ASSUME TypeInv, UNCHANGED content,
         \/ UNCHANGED uploads
         \/ \E d : uploads' = Append(uploads, d)
         \/ \E d, v : d \in DOMAIN uploads /\ uploads' = [uploads EXCEPT ![d].vis = v]
         \/ \E d, v : d \in DOMAIN uploads /\ uploads' = [uploads EXCEPT ![d].parsed = v]
  PROVE  Framed
<1>1. \A i \in DOMAIN uploads : uploads[i] \in Document
  BY DEF TypeInv, TypeOK
<1>2. \A c \in Contents : Home(c)' = Home(c)
  BY DEF Home
<1>3. CASE UNCHANGED uploads
  BY <1>2, <1>3 DEF Framed
<1>4. CASE \E d : uploads' = Append(uploads, d)
  BY <1>2, <1>4 DEF Framed, TypeInv, TypeOK
<1>5. CASE \E d, v : d \in DOMAIN uploads /\ uploads' = [uploads EXCEPT ![d].vis = v]
  BY <1>1, <1>2, <1>5 DEF Framed, Document
<1>6. CASE \E d, v : d \in DOMAIN uploads /\ uploads' = [uploads EXCEPT ![d].parsed = v]
  BY <1>1, <1>2, <1>6 DEF Framed, Document
<1> QED BY <1>3, <1>4, <1>5, <1>6

(* Steps after which the goroutine holds nothing, and every content is settled. *)
LEMMA SettlesTidy ==
  ASSUME TypeInv, Undisturbed, NEW a \in Actors, NEW k, Become(a, k), k.pc \in Plain,
         \A c \in Contents : Settled(c)'
  PROVE  Tidy'
BY PlainTidy, TidyBecomes

LEMMA SettledRow ==
  ASSUME UNCHANGED <<content, uploads, index>>, NEW c \in Contents, Settled(c),
         \/ row'[c] = row[c]
         \/ /\ row[c] # None /\ row'[c] # None
            /\ row'[c].doc = row[c].doc /\ row'[c].ds = row[c].ds /\ row'[c].status # "synced"
  PROVE  Settled(c)'
BY DEF Settled, Only, Absent, Home

LEMMA InsertSettled ==
  ASSUME UNCHANGED <<content, uploads, index>>, TypeInv, NEW x \in Contents, row[x] = None,
         NEW h \in Texts \cup {None},
         InsertRow(x, h), NEW c \in Contents, Settled(c)
  PROVE  Settled(c)'
<1>1. CASE c # x
  BY <1>1, SettledRow DEF InsertRow, TypeInv, TypeOK
<1>2. CASE c = x
  <2>1. row'[c] # None /\ row'[c].doc = 0 /\ row'[c].status = "pending"
    <3> DEFINE r == [id |-> NextId, of |-> x, status |-> "pending", ds |-> None, doc |-> 0,
                     hash |-> h, retry |-> 0, due |-> FALSE]
    <3>1. r \in Row /\ r.doc = 0 /\ r.status = "pending"
      BY DEF NextId, TypeInv, TypeOK, Row
    <3> HIDE DEF r
    <3>2. row' = [row EXCEPT ![x] = r]
      BY DEF InsertRow, r
    <3> QED BY <1>2, <3>1, <3>2, ConstantsOK DEF TypeInv, TypeOK
  <2>2. \A i \in index : uploads[i].of # c
    BY <1>2 DEF Settled, Absent
  <2> QED BY <2>1, <2>2 DEF Settled, Only, Absent
<1> QED BY <1>1, <1>2

(* The forms the UPDATEs give a row. *)
LEMMA RowForms ==
  ASSUME NEW r \in Row
  PROVE  /\ r # None
         /\ LET s == [r EXCEPT !.status = "skipped"] IN
              s # None /\ s.doc = r.doc /\ s.ds = r.ds /\ s.status = "skipped"
         /\ \A h \in Texts \cup {None} : LET s == Reset(r, h) IN
              s # None /\ s.doc = r.doc /\ s.ds = r.ds /\ s.status = "pending"
         /\ \A n \in Nat : LET s == Failed(r, n) IN
              s # None /\ s.doc = r.doc /\ s.ds = r.ds /\ s.status = "failed"
         /\ \A ds \in Datasets, d \in Nat : LET s == Synced(r, ds, d) IN
              s # None /\ s.id = r.id /\ s.doc = d /\ s.ds = ds
         /\ \A h \in Texts \cup {None} : LET s == [r EXCEPT !.hash = h] IN
              s # None /\ s.doc = r.doc /\ s.ds = r.ds /\ s.hash = h
<1>1. None \notin Row
  BY ConstantsOK
<1>2. [r EXCEPT !.status = "skipped"] \in Row
  BY DEF Row
<1>3. \A h \in Texts \cup {None} : Reset(r, h) \in Row
  BY DEF Row, Reset
<1>4. ASSUME NEW n \in Nat PROVE Failed(r, n) \in Row
  <2> DEFINE m == n + 1
             b == r.due \/ m < MaxRetries
  <2>1. m \in Nat /\ b \in BOOLEAN
    OBVIOUS
  <2>2. Failed(r, n) = [r EXCEPT !.status = "failed", !.retry = m, !.due = b]
    BY DEF Failed
  <2> HIDE DEF m, b
  <2> QED BY <2>1, <2>2 DEF Row
<1>5. \A ds \in Datasets, d \in Nat : Synced(r, ds, d) \in Row
  BY DEF Row, Synced
<1>6. \A h \in Texts \cup {None} : [r EXCEPT !.hash = h] \in Row
  BY DEF Row
<1>7. LET s == [r EXCEPT !.status = "skipped"] IN
        s # None /\ s.doc = r.doc /\ s.ds = r.ds /\ s.status = "skipped"
  BY <1>1, <1>2 DEF Row
<1>8. ASSUME NEW h \in Texts \cup {None}
      PROVE  LET s == Reset(r, h) IN s # None /\ s.doc = r.doc /\ s.ds = r.ds /\ s.status = "pending"
  <2>1. Reset(r, h) # None
    BY <1>1, <1>3
  <2> QED BY <2>1 DEF Row, Reset
<1>9. ASSUME NEW n \in Nat
      PROVE  LET s == Failed(r, n) IN s # None /\ s.doc = r.doc /\ s.ds = r.ds /\ s.status = "failed"
  <2>1. Failed(r, n) # None
    BY <1>1, <1>4
  <2> QED BY <2>1 DEF Row, Failed
<1>10. ASSUME NEW ds \in Datasets, NEW d \in Nat
       PROVE  LET s == Synced(r, ds, d) IN s # None /\ s.id = r.id /\ s.doc = d /\ s.ds = ds
  <2>1. Synced(r, ds, d) # None
    BY <1>1, <1>5
  <2> QED BY <2>1 DEF Row, Synced
<1>11. ASSUME NEW h \in Texts \cup {None}
       PROVE  LET s == [r EXCEPT !.hash = h] IN s # None /\ s.doc = r.doc /\ s.ds = r.ds /\ s.hash = h
  <2>1. [r EXCEPT !.hash = h] # None
    BY <1>1, <1>6
  <2> QED BY <2>1 DEF Row
<1> QED BY <1>1, <1>7, <1>8, <1>9, <1>10, <1>11

(* The statements that a goroutine has nothing in hand for. *)
LEMMA MarksTidy ==
  ASSUME TypeInv, Undisturbed, Tidy, NEW a \in Actors,
         EnsureInsert(a) \/ MarkSkipped(a) \/ ResetRow(a) \/ MarkFailed(a)
  PROVE  Tidy'
<1>1. job[a].pc \notin Handling /\ Cur(a) \in Contents /\ job[a] \in Job
  BY Here DEF EnsureInsert, MarkSkipped, ResetRow, MarkFailed, At, Handling
<1>2. \A c \in Contents : Settled(c)
  BY <1>1, TidyHere DEF Handled
<1>3. UNCHANGED <<content, uploads, index>>
  BY DEF EnsureInsert, MarkSkipped, ResetRow, MarkFailed
<1>4. \E k : Become(a, k) /\ k.pc \in Plain
  <2>1. CASE Done(a)
    BY <2>1, DoneIs
  <2>2. CASE Goto(a, "gate")
    <3>1. [job[a] EXCEPT !.pc = "gate"].pc \in Plain
      BY <1>1 DEF Job, Plain, PC
    <3> QED BY <2>2, <3>1 DEF Goto
  <2> QED BY <2>1, <2>2 DEF EnsureInsert, Ensured, MarkSkipped, ResetRow, MarkFailed
<1>5. ASSUME NEW c \in Contents PROVE Settled(c)'
  <2>1. row[c] \in Row \cup {None}
    BY DEF TypeInv, TypeOK
  <2>2. CASE UNCHANGED row
    BY <1>2, <1>3, <2>2, SettledRow
  <2>3. CASE EnsureInsert(a)
    BY <1>1, <1>2, <1>3, <2>2, <2>3, InsertSettled DEF EnsureInsert
  <2>4. CASE MarkSkipped(a)
    <3>1. CASE row[c] # None /\ row[c].id = job[a].snap.id
      <4>1. row'[c] = row[c] \/ row'[c] = [row[c] EXCEPT !.status = "skipped"]
        BY <2>4, <3>1 DEF MarkSkipped, UpdateRow
      <4>2. row'[c] = row[c] \/ (row'[c] # None /\ row'[c].doc = row[c].doc
              /\ row'[c].ds = row[c].ds /\ row'[c].status # "synced")
        BY <2>1, <3>1, <4>1, RowForms, ZenonT(60)
      <4> QED BY <1>2, <1>3, <3>1, <4>2, SettledRow
    <3>2. CASE ~(row[c] # None /\ row[c].id = job[a].snap.id)
      BY <1>2, <1>3, <2>4, <3>2, SettledRow DEF MarkSkipped, UpdateRow
    <3> QED BY <3>1, <3>2
  <2>5. CASE ResetRow(a)
    <3>1. CASE row[c] # None /\ row[c].id = job[a].item.id
      <4>1. row'[c] = row[c] \/ row'[c] = Reset(row[c], job[a].item.hash)
        BY <2>5, <3>1 DEF ResetRow, UpdateRow
      <4>2. job[a].item.hash \in Texts \cup {None}
        BY <2>5, Here DEF ResetRow, At, Ticket
      <4> QED BY <1>2, <1>3, <2>1, <3>1, <4>1, <4>2, SettledRow, RowForms
    <3>2. CASE ~(row[c] # None /\ row[c].id = job[a].item.id)
      BY <1>2, <1>3, <2>5, <3>2, SettledRow DEF ResetRow, UpdateRow
    <3> QED BY <3>1, <3>2
  <2>6. CASE MarkFailed(a)
    <3>1. CASE row[c] # None /\ row[c].id = job[a].item.id
      <4>1. row'[c] = row[c] \/ row'[c] = Failed(row[c], job[a].item.retry)
        BY <2>6, <3>1 DEF MarkFailed, UpdateRow
      <4>2. job[a].item.retry \in Nat
        BY <2>6, Here DEF MarkFailed, At, Ticket
      <4> QED BY <1>2, <1>3, <2>1, <3>1, <4>1, <4>2, SettledRow, RowForms
    <3>2. CASE ~(row[c] # None /\ row[c].id = job[a].item.id)
      BY <1>2, <1>3, <2>6, <3>2, SettledRow DEF MarkFailed, UpdateRow
    <3> QED BY <3>1, <3>2
  <2> QED BY <2>3, <2>4, <2>5, <2>6
<1> QED BY <1>4, <1>5, SettlesTidy

(* Recording a document: insert the row, read it back, name the document,    *)
(* then its text.                                                            *)
LEMMA CreateRowTidy ==
  ASSUME TypeInv, TypeInv', Ownership, Undisturbed, Tidy, NEW a \in Actors, CreateRow(a)
  PROVE  Tidy'
<1> DEFINE j == job[a]
<1> PICK x : x = j.item.of
  OBVIOUS
<1> PICK k : k = [j EXCEPT !.pc = "reread"]
  OBVIOUS
<1>1. j \in Job /\ j.pc = "create" /\ x \in Contents /\ Cur(a) = x /\ j.text \in Texts
  BY Here DEF CreateRow, At, Cur, Shape, Job
<1>2. JobTidy(j)
  BY TidyHere
<1>3. row[x] = None
  BY <1>1, <1>2 DEF JobTidy
<1>4. InsertRow(x, j.text) /\ Become(a, k) /\ UNCHANGED <<content, uploads, index>>
  BY <1>1, <1>3, Answers DEF CreateRow, UpsertPending, Goto
<1>5. k.pc = "reread" /\ k.item = j.item /\ k.ds = j.ds /\ k.text = j.text /\ k.doc = j.doc
  BY <1>1 DEF Job
<1>6. row'[x] # None /\ \A c \in Contents \ {x} : row'[c] = row[c]
  <2> DEFINE r == [id |-> NextId, of |-> x, status |-> "pending", ds |-> None, doc |-> 0,
                   hash |-> j.text, retry |-> 0, due |-> FALSE]
  <2>1. r \in Row
    BY <1>1 DEF NextId, TypeInv, TypeOK, Row
  <2> HIDE DEF r
  <2>2. row' = [row EXCEPT ![x] = r]
    BY <1>4 DEF InsertRow, r
  <2> QED BY <1>1, <2>1, <2>2, ConstantsOK DEF TypeInv, TypeOK
<1>7. JobTidy(k)'
  BY <1>1, <1>2, <1>4, <1>5, <1>6 DEF JobTidy, Home, Only
<1>8. Handled(k, x) /\ ElsewhereSame(x)
  BY <1>4, <1>5, <1>6 DEF Handled, Handling, ElsewhereSame
<1> QED BY <1>4, <1>7, <1>8, DocsFramed, HandlesTidy

LEMMA MarkSyncedTidy ==
  ASSUME TypeInv, TypeInv', Ownership, Undisturbed, Tidy, NEW a \in Actors, MarkSynced(a)
  PROVE  Tidy'
<1> DEFINE j == job[a]
<1> PICK x : x = j.item.of
  OBVIOUS
<1> PICK k : k = [j EXCEPT !.pc = "hash"]
  OBVIOUS
<1>1. /\ j \in Job /\ j.pc = "mark" /\ x \in Contents /\ j.snap \in Row /\ j.snap # None
      /\ j.ds \in Datasets /\ j.doc \in Nat
  BY Here DEF MarkSynced, At, Cur, Shape, Job
<1>2. JobTidy(j)
  BY TidyHere
<1>3. row[x] = j.snap
  BY <1>1, <1>2 DEF JobTidy
<1>4. /\ UpdateRow(j.snap.id, LAMBDA r : Synced(r, j.ds, j.doc)) /\ Become(a, k)
      /\ UNCHANGED <<content, uploads, index>>
  BY Answers DEF MarkSynced, Goto
<1>5. /\ k.pc = "hash" /\ k.item = j.item /\ k.ds = j.ds /\ k.text = j.text /\ k.doc = j.doc
      /\ k.snap = j.snap
  BY <1>1 DEF Job
<1>6. row'[x] = Synced(row[x], j.ds, j.doc)
  BY <1>1, <1>3, <1>4 DEF UpdateRow
<1>7. \A c \in Contents \ {x} : row'[c] = row[c]
  <2>1. IdOf(j.snap.id, x)
    BY <1>1, <1>3 DEF Ownership, RowsOwned
  <2> QED BY <1>1, <1>4, <2>1, SameContent DEF UpdateRow
<1>8. row'[x] # None /\ row'[x].id = j.snap.id /\ row'[x].doc = j.doc /\ row'[x].ds = j.ds
  BY <1>1, <1>3, <1>6, RowForms
<1>9. JobTidy(k)'
  BY <1>1, <1>2, <1>4, <1>5, <1>8 DEF JobTidy, Home, Only
<1>10. Handled(k, x) /\ ElsewhereSame(x)
  BY <1>4, <1>5, <1>7 DEF Handled, Handling, ElsewhereSame
<1> QED BY <1>4, <1>9, <1>10, DocsFramed, HandlesTidy

LEMMA UpdateHashTidy ==
  ASSUME TypeInv, TypeInv', Ownership, Undisturbed, Tidy, NEW a \in Actors, UpdateHash(a)
  PROVE  Tidy'
<1> DEFINE j == job[a]
<1> PICK x : x = j.item.of
  OBVIOUS
<1>1. /\ j \in Job /\ j.pc = "hash" /\ x \in Contents /\ j.snap \in Row /\ j.snap # None
      /\ j.ds \in Datasets /\ j.doc \in Nat /\ j.text \in Texts
  BY Here DEF UpdateHash, At, Cur, Shape, Job
<1>2. JobTidy(j)
  BY TidyHere
<1>3. /\ row[x] # None /\ row[x].id = j.snap.id /\ row[x].doc = j.doc /\ row[x].ds = j.ds
      /\ row[x] \in Row
  BY <1>1, <1>2 DEF JobTidy, TypeInv, TypeOK
<1>4. /\ UpdateRow(j.snap.id, LAMBDA r : [r EXCEPT !.hash = j.text])
      /\ UNCHANGED <<content, uploads, index>>
  BY Answers DEF UpdateHash
<1>5. PICK k : Become(a, k) /\ k.pc \in Plain
  BY DoneIs DEF UpdateHash
<1>6. row'[x] = [row[x] EXCEPT !.hash = j.text]
  BY <1>1, <1>3, <1>4 DEF UpdateRow
<1>7. \A c \in Contents \ {x} : row'[c] = row[c]
  <2>1. IdOf(j.snap.id, x)
    BY <1>1, <1>3 DEF Ownership, RowsOwned
  <2> QED BY <1>1, <1>4, <2>1, SameContent DEF UpdateRow
<1>8. row'[x] # None /\ row'[x].doc = j.doc /\ row'[x].ds = j.ds /\ row'[x].hash = j.text
  BY <1>1, <1>3, <1>6, RowForms
<1>9. Settled(x)'
  BY <1>1, <1>2, <1>4, <1>8 DEF JobTidy, Home, Only, Settled
<1>10. ElsewhereSame(x)
  BY <1>4, <1>7 DEF ElsewhereSame
<1> QED BY <1>4, <1>5, <1>9, <1>10, DocsFramed, PlainTidy, HandlesTidy

LEMMA DeleteRowTidy ==
  ASSUME TypeInv, TypeInv', Ownership, Undisturbed, Tidy, NEW a \in Actors, DeleteRow(a)
  PROVE  Tidy'
<1> DEFINE j == job[a]
<1> PICK x : x = j.item.of
  OBVIOUS
<1>1. j.pc = "drow" /\ x \in Contents /\ Cur(a) = x
  BY Here DEF DeleteRow, At, Cur
<1>2. JobTidy(j)
  BY TidyHere
<1>3. row' = [row EXCEPT ![x] = None] /\ UNCHANGED <<content, uploads, index>>
  BY <1>1, Answers DEF DeleteRow
<1>4. PICK k : Become(a, k) /\ k.pc \in Plain
  BY DoneIs DEF DeleteRow
<1>5. row'[x] = None /\ \A c \in Contents \ {x} : row'[c] = row[c]
  BY <1>1, <1>3 DEF TypeInv, TypeOK
<1>6. Settled(x)'
  BY <1>1, <1>2, <1>3, <1>5 DEF JobTidy, Absent, Settled
<1>7. ElsewhereSame(x)
  BY <1>3, <1>5 DEF ElsewhereSame
<1> QED BY <1>3, <1>4, <1>6, <1>7, DocsFramed, PlainTidy, HandlesTidy

-----------------------------------------------------------------------------
(* The steps over the index *)

(* The document a row names goes, whatever deletes it. *)
LEMMA UnindexClears ==
  ASSUME TypeInv, Ownership, NEW x \in Contents, row[x] # None, Only(x, row[x].doc),
         NEW ds, row[x].doc # 0 => uploads[row[x].doc].ds = ds,
         UNCHANGED <<row, uploads>>, Unindex(row[x].doc, ds)
  PROVE  Absent(x)' /\ ElsewhereSame(x)
<1>1. row[x].doc # 0 => row[x].doc \in DOMAIN uploads /\ uploads[row[x].doc].of = x
  BY DEF Ownership, RowsOwned, DocOf
<1>2. ASSUME NEW i \in index' PROVE uploads'[i].of # x
  <2>1. i \in index /\ i \in DOMAIN uploads /\ i # 0
    BY <1>2 DEF Unindex, TypeInv, TypeOK
  <2>2. i # row[x].doc
    BY <1>1, <1>2, <2>1 DEF Unindex
  <2> QED BY <2>1, <2>2 DEF Only
<1>3. ASSUME NEW c \in Contents \ {x}, NEW i \in DOMAIN uploads', uploads'[i].of = c
      PROVE  i \in index' <=> i \in index
  <2>1. row[x].doc # i
    BY <1>1, <1>3 DEF TypeInv, TypeOK
  <2> QED BY <2>1 DEF Unindex
<1>4. Absent(x)'
  BY <1>2 DEF Absent
<1> QED BY <1>3, <1>4 DEF ElsewhereSame

LEMMA UnindexTidy ==
  ASSUME TypeInv, TypeInv', Ownership, Undisturbed, Tidy, NEW a \in Actors,
         DeleteOld(a) \/ DeleteDoc(a)
  PROVE  Tidy'
<1> DEFINE j == job[a]
<1> PICK x : x = j.item.of
  OBVIOUS
<1> PICK k : k = [j EXCEPT !.pc = IF j.pc = "unindex" THEN "upload" ELSE "drow"]
  OBVIOUS
<1>1. /\ j \in Job /\ j.pc \in {"unindex", "ddoc"} /\ x \in Contents
      /\ j.snap \in Row /\ j.snap # None
  BY Here DEF DeleteOld, DeleteDoc, At, Cur, Shape, Job
<1>2. JobTidy(j) /\ Settled(x)
  BY <1>1, TidyHere DEF Handled, Handling
<1>3. row[x] = j.snap
  BY <1>1, <1>2 DEF JobTidy
<1>4. UNCHANGED <<content, row, uploads>>
  BY DEF DeleteOld, DeleteDoc
<1>5. Become(a, k)
  BY DEF DeleteOld, DeleteDoc, At, Goto
<1>6. Only(x, row[x].doc) /\ (row[x].doc # 0 => row[x].ds = Home(x) /\ uploads[row[x].doc].ds = Home(x))
  BY <1>1, <1>2, <1>3 DEF Settled
<1>7. \E ds : Unindex(row[x].doc, ds) /\ (row[x].doc # 0 => uploads[row[x].doc].ds = ds)
  <2>1. CASE DeleteOld(a)
    <3>1. Unindex(row[x].doc, j.ds) /\ j.ds = Home(x)
      BY <1>2, <1>3, <2>1, Answers DEF DeleteOld, At, JobTidy
    <3> QED BY <1>6, <3>1
  <2>2. CASE DeleteDoc(a)
    <3>1. Unindex(row[x].doc, row[x].ds)
      BY <1>3, <2>2, Answers DEF DeleteDoc, Undisturbed
    <3> QED BY <1>6, <3>1
  <2> QED BY <2>1, <2>2
<1>8. Absent(x)' /\ ElsewhereSame(x)
  BY <1>1, <1>3, <1>4, <1>6, <1>7, UnindexClears
<1>9. /\ k.pc = IF j.pc = "unindex" THEN "upload" ELSE "drow"
      /\ k.item = j.item /\ k.ds = j.ds /\ k.snap = j.snap
  BY <1>1 DEF Job
<1>10. JobTidy(k)'
  BY <1>1, <1>2, <1>3, <1>4, <1>8, <1>9 DEF JobTidy, Home, Absent
<1>11. Handled(k, x)
  BY <1>9 DEF Handled, Handling
<1> QED BY <1>4, <1>5, <1>8, <1>10, <1>11, DocsFramed, HandlesTidy

LEMMA UploadTidy ==
  ASSUME TypeInv, TypeInv', Ownership, Undisturbed, Tidy, NEW a \in Actors, Upload(a)
  PROVE  Tidy'
<1> DEFINE j == job[a]
<1> PICK x : x = j.item.of
  OBVIOUS
<1> PICK d : d = Len(uploads) + 1
  OBVIOUS
<1> PICK k : k = [j EXCEPT !.doc = d, !.pc = "parse"]
  OBVIOUS
<1>1. j \in Job /\ j.pc = "upload" /\ x \in Contents /\ Cur(a) = x
  BY Here DEF Upload, At, Cur
<1>2. JobTidy(j) /\ Absent(x)
  BY <1>1, TidyHere DEF JobTidy
<1>3. AcceptUpload(a) /\ Become(a, k) /\ UNCHANGED <<content, row>>
  BY Answers DEF Upload
<1>4. /\ k.pc = "parse" /\ k.item = j.item /\ k.ds = j.ds /\ k.text = j.text /\ k.doc = d
      /\ k.snap = j.snap
  BY <1>1 DEF Job
<1>5. /\ \A i \in DOMAIN uploads : i # d /\ uploads'[i] = uploads[i]
      /\ d \in DOMAIN uploads' /\ DOMAIN uploads' = DOMAIN uploads \cup {d}
      /\ uploads'[d].of = x /\ uploads'[d].text = j.text /\ uploads'[d].ds = j.ds
      /\ index' = index \cup {d}
  BY <1>1, <1>3 DEF AcceptUpload, TypeInv, TypeOK
<1>6. index \subseteq DOMAIN uploads
  BY DEF TypeInv, TypeOK
<1>7. Only(x, d)'
  BY <1>2, <1>5, <1>6 DEF Only, Absent
<1>8. JobTidy(k)'
  BY <1>1, <1>2, <1>3, <1>4, <1>5, <1>7 DEF JobTidy, Home, Only
<1>9. Handled(k, x) /\ ElsewhereSame(x)
  BY <1>3, <1>4, <1>5 DEF Handled, Handling, ElsewhereSame
<1>10. Framed
  BY <1>3, DocsFramed DEF AcceptUpload
<1> QED BY <1>3, <1>8, <1>9, <1>10, HandlesTidy

LEMMA ParseTidy ==
  ASSUME TypeInv, TypeInv', Ownership, Undisturbed, Tidy, NEW a \in Actors, Parse(a)
  PROVE  Tidy'
<1> DEFINE j == job[a]
<1> PICK x : x = j.item.of
  OBVIOUS
<1> PICK k : k = [j EXCEPT !.pc = IF j.snap = None THEN "create" ELSE "mark"]
  OBVIOUS
<1>1. j \in Job /\ j.pc = "parse" /\ x \in Contents
  BY Here DEF Parse, At, Cur
<1>2. JobTidy(j)
  BY <1>1, TidyHere
<1>3. Become(a, k) /\ UNCHANGED <<content, row, index>>
  BY DEF Parse, Goto
<1>4. /\ k.pc = (IF j.snap = None THEN "create" ELSE "mark") /\ k.item = j.item /\ k.ds = j.ds
      /\ k.text = j.text /\ k.doc = j.doc /\ k.snap = j.snap
  BY <1>1 DEF Job
<1>5. index \subseteq DOMAIN uploads
  BY DEF TypeInv, TypeOK
<1>6. Framed
  BY <1>3, <1>5, DocsFramed DEF Parse
<1>7. /\ DOMAIN uploads' = DOMAIN uploads
      /\ \A i \in DOMAIN uploads : /\ uploads'[i].of = uploads[i].of
                                  /\ uploads'[i].text = uploads[i].text
                                  /\ uploads'[i].ds = uploads[i].ds
  BY <1>5, <1>6 DEF Parse, Framed
<1>8. JobTidy(k)'
  BY <1>1, <1>2, <1>3, <1>4, <1>5, <1>7 DEF JobTidy, Home, Only
<1>9. Handled(k, x) /\ ElsewhereSame(x)
  BY <1>3, <1>4 DEF Handled, Handling, ElsewhereSame
<1> QED BY <1>3, <1>6, <1>8, <1>9, HandlesTidy

LEMMA VisibilityUpdateTidy ==
  ASSUME TypeInv, TypeInv', Ownership, Undisturbed, Tidy, NEW a \in Actors, VisibilityUpdate(a)
  PROVE  Tidy'
<1> DEFINE j == job[a]
<1> PICK x : x = j.item.of
  OBVIOUS
<1>1. j \in Job /\ j.pc = "vupd" /\ x \in Contents
  BY Here DEF VisibilityUpdate, At, Cur
<1>2. \A c \in Contents : Settled(c)
  BY <1>1, TidyHere DEF Handled, Handling
<1>3. UNCHANGED <<content, row, index>>
  BY DEF VisibilityUpdate
<1>4. index \subseteq DOMAIN uploads
  BY DEF TypeInv, TypeOK
<1>5. Framed
  BY <1>3, <1>4, DocsFramed DEF VisibilityUpdate
<1>6. \E k : Become(a, k) /\ k.pc \in Plain
  <2>1. CASE Done(a)
    BY <2>1, DoneIs
  <2>2. CASE Goto(a, "vlist")
    <3>1. [j EXCEPT !.pc = "vlist"].pc \in Plain
      BY <1>1 DEF Job, Plain, PC
    <3> QED BY <2>2, <3>1 DEF Goto
  <2> QED BY <2>1, <2>2 DEF VisibilityUpdate
<1>7. \A y : ElsewhereSame(y)
  BY <1>3 DEF ElsewhereSame
<1>8. ASSUME NEW c \in Contents PROVE Settled(c)'
  <2>1. PICK y : y # c
    BY <1>4, ConstantsOK
  <2> QED BY <1>2, <1>5, <1>7, <2>1, SettledElsewhere
<1> QED BY <1>6, <1>8, SettlesTidy

-----------------------------------------------------------------------------
(* The users *)

LEMMA DatasetsStay ==
  ASSUME TypeInv, "move" \notin UserOps, User, NEW c \in Contents
  PROVE  Home(c)' = Home(c)
<1>1. ASSUME NEW x \in Contents PROVE content'[x].ds = content[x].ds
  <2>1. ASSUME NEW a \in Actors, NEW y \in Contents, Create(a, y) \/ Attach(a, y)
        PROVE  content'[x].ds = content[x].ds
    <3>1. content' = [content EXCEPT ![y].life = "live"]
      BY <2>1 DEF Create, Attach
    <3> QED BY <3>1 DEF TypeInv, TypeOK, Content
  <2>4. ASSUME NEW a \in Actors, NEW y \in Contents, Delete(a, y)
        PROVE  content'[x].ds = content[x].ds
    <3>1. content'[x] = content[x] \/ content'[x] = [content[x] EXCEPT !.life = "gone"]
      BY <2>4 DEF Delete, Remove
    <3> QED BY <3>1 DEF TypeInv, TypeOK, Content
  <2>5. ASSUME NEW a \in Actors, NEW y \in Contents, DeleteAgain(a, y)
        PROVE  content'[x].ds = content[x].ds
    BY <2>5 DEF DeleteAgain, TypeInv, TypeOK, Content
  <2>6. ASSUME NEW y \in Contents, Silently(y)
        PROVE  content'[x].ds = content[x].ds
    <3>1. CASE CreateSilently(y)
      BY <3>1 DEF CreateSilently, TypeInv, TypeOK, Content
    <3>2. CASE UpdateSilently(y)
      BY <3>2 DEF UpdateSilently, TypeInv, TypeOK, Content
    <3>3. CASE DeleteSilently(y)
      BY <3>3 DEF DeleteSilently, Remove, TypeInv, TypeOK, Content
    <3> QED BY <2>6, <3>1, <3>2, <3>3 DEF Silently
  <2>2. ASSUME NEW a \in Actors, NEW y \in Contents, Update(a, y)
        PROVE  content'[x].ds = content[x].ds
    BY <2>2 DEF Update, TypeInv, TypeOK, Content
  <2>3. ASSUME NEW y \in Contents, UploadLoose(y) \/ Detach(y)
        PROVE  content'[x].ds = content[x].ds
    <3>1. CASE UploadLoose(y)
      BY <3>1 DEF UploadLoose, TypeInv, TypeOK, Content
    <3>2. CASE Detach(y)
      BY <3>2 DEF Detach, TypeInv, TypeOK, Content
    <3> QED BY <2>3, <3>1, <3>2
  <2> QED BY <2>1, <2>2, <2>3, <2>4, <2>5, <2>6 DEF User, Move, Silently
<1>2. Host(c) \in Contents
  BY ConstantsOK DEF Host
<1> QED BY <1>1, <1>2 DEF Home

LEMMA UserTidy ==
  ASSUME TypeInv, TypeInv', Ownership, Undisturbed, Tidy, User
  PROVE  Tidy'
<1>1. UNCHANGED <<row, uploads, index>>
  BY UserTouches
<1>2. \A c \in Contents : Home(c)' = Home(c)
  BY DatasetsStay DEF Undisturbed
<1>3. \A c \in Contents : Settled(c) => Settled(c)'
  BY <1>1, <1>2 DEF Settled, Only, Absent
<1>4. CASE UNCHANGED job
  <2>1. ASSUME NEW b \in Actors PROVE JobTidy(job[b])'
    <3>1. JobTidy(job[b]) /\ (job[b].pc \notin Resting => job[b].item.of \in Contents)
      BY Here DEF Tidy, Cur
    <3> QED BY <1>1, <1>2, <1>4, <3>1 DEF JobTidy, Only, Absent
  <2> QED BY <1>1, <1>3, <1>4, <2>1 DEF Tidy, Handled
<1>5. ASSUME NEW a \in Actors, NEW pc \in {"ensure", "vgate", "dgate"}, NEW c, NEW vis,
             Launch(a, pc, c, vis)
      PROVE  Tidy'
  <2>1. PICK k : k = [Idle EXCEPT !.pc = pc, !.item = Ticketed(c), !.vis = vis]
    OBVIOUS
  <2>2. k.pc = pc /\ k.pc \in Plain
    BY <2>1 DEF Idle, Plain, PC
  <2>3. \A x \in Contents : Settled(x)
    BY <1>5, TidyHere DEF Launch, At, Handled, Handling
  <2>4. Become(a, k)
    BY <1>5, <2>1 DEF Launch
  <2> QED BY <1>3, <2>2, <2>3, <2>4, SettlesTidy
<1> QED BY <1>4, <1>5, UserLaunches

-----------------------------------------------------------------------------
(* The theorems *)

LEMMA InitTidy == Init => Tidy
<1> SUFFICES ASSUME Init PROVE Tidy
  OBVIOUS
<1>1. \A a \in Actors : job[a].pc = "idle"
  BY DEF Init, Idle
<1>2. \A c \in Contents : row[c] = None
  BY DEF Init
<1> QED BY <1>1, <1>2 DEF Init, Tidy, JobTidy, Settled, Absent

LEMMA NextTidy ==
  Undisturbed /\ TypeInv /\ TypeInv' /\ Ownership /\ Tidy /\ [Next]_vars => Tidy'
<1> SUFFICES ASSUME Undisturbed, TypeInv, TypeInv', Ownership, Tidy, [Next]_vars PROVE Tidy'
  OBVIOUS
<1>1. ASSUME NEW a \in Actors, Step(a) \/ StartBatch(a) PROVE Tidy'
  BY <1>1, ReadsTidy, MarksTidy, CreateRowTidy, MarkSyncedTidy, UpdateHashTidy, DeleteRowTidy,
     UnindexTidy, UploadTidy, ParseTidy, VisibilityUpdateTidy DEF Step
<1>2. CASE Crash
  BY <1>2, Answers DEF Crash
<1>3. CASE Restart \/ UNCHANGED vars
  BY <1>3, SameTidy DEF Restart, vars
<1> QED BY <1>1, <1>2, <1>3, UserTidy DEF Next

(* What the three properties need of the invariant. *)
LEMMA TidyMeans ==
  ASSUME TypeInv, Ownership, Undisturbed, Tidy
  PROVE  OneDocument /\ NoOrphan /\ SkipSound
<1>1. ASSUME NEW c \in Contents
      PROVE  \/ Settled(c)
             \/ Absent(c)
             \/ \E a \in Actors : Only(c, job[a].doc)
  <2>1. ASSUME NEW a \in Actors, Handled(job[a], c)
        PROVE  Absent(c) \/ Only(c, job[a].doc)
    <3>1. JobTidy(job[a])
      BY DEF Tidy
    <3> QED BY <2>1, <3>1 DEF JobTidy, Handled, Handling
  <2> QED BY <2>1 DEF Tidy
<1>2. \A i \in index : uploads[i].of \in Contents /\ i # 0
  <2>1. \A i \in index : i \in DOMAIN uploads /\ uploads[i] \in Document /\ i # 0
    BY DEF TypeInv, TypeOK
  <2> QED BY <2>1 DEF Document
<1>3. OneDocument
  <2>1. ASSUME NEW i \in index, NEW l \in index, uploads[i].of = uploads[l].of PROVE i = l
    BY <1>1, <1>2, <2>1 DEF Settled, Only, Absent
  <2> QED BY <2>1 DEF OneDocument
<1>4. NoOrphan
  <2>1. ASSUME NEW i \in index
        PROVE  \/ row[uploads[i].of] # None /\ row[uploads[i].of].doc = i
               \/ \E a \in Actors : job[a].doc = i
    BY <1>1, <1>2 DEF Settled, Only, Absent
  <2> QED BY <2>1 DEF NoOrphan
<1>5. SkipSound
  <2>1. ASSUME NEW c \in Contents, Unchanged(row[c], content[c].text), \A a \in Actors : At(a, "idle")
        PROVE  UpToDate(c)
    <3>1. Settled(c)
      BY <2>1 DEF Tidy, Handled, Handling, At
    <3>2. row[c].doc \in index /\ uploads[row[c].doc].text = content[c].text
      BY <2>1, <3>1 DEF Unchanged, Settled
    <3>3. uploads[row[c].doc].of = c
      BY <1>2, <2>1, <3>2 DEF Unchanged, Ownership, RowsOwned, DocOf
    <3> QED BY <3>2, <3>3 DEF UpToDate
  <2> QED BY <2>1 DEF SkipSound
<1> QED BY <1>3, <1>4, <1>5

(* One goroutine at a time and nothing failing, RAGFlow holds at most one    *)
(* document of a content, whatever is edited, detached, deleted and synced   *)
(* again (SyncMemo, SyncAttachment, DeleteMemoFromRAGFlow).                  *)
THEOREM OneDocumentEach ==
  ASSUME Undisturbed
  PROVE  Spec => []OneDocument
BY InitType, NextType, InitOwned, NextOwned, InitTidy, NextTidy, TidyMeans, PTL DEF Spec

(* Likewise every document of the index can still be found and deleted.      *)
THEOREM NothingIsOrphaned ==
  ASSUME Undisturbed
  PROVE  Spec => []NoOrphan
BY InitType, NextType, InitOwned, NextOwned, InitTidy, NextTidy, TidyMeans, PTL DEF Spec

(* Likewise a content that SyncMemo skips as unchanged has its text in the   *)
(* index.                                                                    *)
THEOREM SkippingIsSound ==
  ASSUME Undisturbed
  PROVE  Spec => []SkipSound
BY InitType, NextType, InitOwned, NextOwned, InitTidy, NextTidy, TidyMeans, PTL DEF Spec

-----------------------------------------------------------------------------
(* One goroutine at a time, nothing fails: the index mirrors the contents *)

USE DEF ResetStage

(* What a goroutine holds is current. *)
JobAligned(j) == JobStaged(j) /\ JobListed(j) /\ JobCurrent(j)

LEMMA AlignedHere ==
  ASSUME Aligned, NEW a \in Actors
  PROVE  JobStaged(job[a]) /\ JobListed(job[a]) /\ JobCurrent(job[a])
BY DEF Aligned

(* The one goroutine that runs, after a step that makes it k. *)
LEMMA AlignedBecomes ==
  ASSUME TypeInv, Undisturbed, NEW a \in Actors, NEW k, Become(a, k), JobAligned(k)',
         LinkedIsSynced', OnlyParseable'
  PROVE  Aligned'
<1>1. \A b \in Actors : b = a /\ job'[b] = k
  BY DEF Undisturbed, TypeInv, TypeOK, Become
<1>2. \A b \in Actors : JobStaged(job[b])' /\ JobListed(job[b])' /\ JobCurrent(job[b])'
  BY <1>1 DEF JobAligned, JobStaged, JobListed, JobCurrent
<1> QED BY <1>2 DEF Aligned

LEMMA IdleAligned == JobAligned(Idle) /\ JobAligned(Idle)'
BY DEF JobAligned, JobStaged, JobListed, JobCurrent, Idle

LEMMA RestFields ==
  ASSUME TypeInv, NEW a \in Actors, NEW pc
  PROVE  /\ Rest(a, pc).pc = pc /\ Rest(a, pc).phase = job[a].phase
         /\ Rest(a, pc).todo = job[a].todo
         /\ job[a].phase = OfAttachments => Rest(a, pc).vis = job[a].vis
         /\ LET k == [Rest(a, pc) EXCEPT !.item = job[a].item] IN
              /\ k.pc = pc /\ k.phase = job[a].phase /\ k.todo = job[a].todo
              /\ k.item = job[a].item
              /\ job[a].phase = OfAttachments => k.vis = job[a].vis
BY DEF Rest, Idle

(* A loop that is done with an item goes on with what it has listed. *)
LEMMA DoneAligned ==
  ASSUME TypeInv, Aligned, NEW a \in Actors, Done(a), UNCHANGED content,
         \A c \in Contents : c # Cur(a) => row'[c] = row[c],
         job[a].pc \notin Resting
  PROVE  \E k : Become(a, k) /\ JobAligned(k)'
<1> DEFINE j == job[a]
<1>0. j \in Job /\ JobStaged(j) /\ JobListed(j) /\ JobCurrent(j)
  BY Here, AlignedHere
<1>1. CASE j.phase = 0
  BY <1>1, IdleAligned DEF Done
<1>2. CASE j.phase # 0
  <2> PICK k : k = Rest(a, "next")
    OBVIOUS
  <2>1. /\ k.pc = "next" /\ k.phase = j.phase /\ k.todo = j.todo
        /\ j.phase = OfAttachments => k.vis = j.vis
    BY RestFields
  <2>2. Become(a, k)
    BY <1>2 DEF Done
  <2>3. JobStaged(k)'
    BY <1>0, <2>1 DEF JobStaged
  <2>4. JobListed(k)'
    <3>1. ASSUME j.phase \in 3..LastStage, NEW t \in j.todo PROVE Unlinked(t.of)'
      <4>1. Unlinked(t.of) /\ t.of # Cur(a) /\ t.of \in Contents
        BY <1>0, <3>1 DEF JobListed, Cur, Job, Ticket
      <4> QED BY <4>1 DEF Unlinked
    <3> QED BY <1>0, <2>1, <3>1 DEF JobListed
  <2>5. JobCurrent(k)'
    BY <1>0, <2>1 DEF JobCurrent, Host
  <2> QED BY <2>2, <2>3, <2>4, <2>5 DEF JobAligned
<1> QED BY <1>1, <1>2

(* Steps that change nothing that matters here but the goroutine. *)
LEMMA OnlyJobAligned ==
  ASSUME TypeInv, Undisturbed, Aligned, UNCHANGED <<content, row>>, OnlyParseable',
         NEW a \in Actors, NEW k, Become(a, k), JobAligned(k)
  PROVE  Aligned'
<1>1. JobAligned(k)'
  BY DEF JobAligned, JobStaged, JobListed, JobCurrent, Unlinked, Host
<1>2. LinkedIsSynced'
  BY DEF Aligned, LinkedIsSynced
<1> QED BY <1>1, <1>2, AlignedBecomes

LEMMA SameAligned ==
  ASSUME Aligned, UNCHANGED <<content, row, uploads, job>>
  PROVE  Aligned'
BY DEF Aligned, LinkedIsSynced, OnlyParseable, JobStaged, JobListed, JobCurrent, Unlinked, Host

LEMMA UploadsParseable ==
  ASSUME Aligned, UNCHANGED uploads
  PROVE  OnlyParseable'
BY DEF Aligned, OnlyParseable

(* What a cycle lists to sync, reset or fail names no document, and each     *)
(* content once.                                                             *)
LEMMA ListingsAligned ==
  ASSUME TypeInv, Ownership, Aligned, NEW p \in 3..LastStage, NEW todo \in Listings(p)
  PROVE  /\ \A t \in todo : Unlinked(t.of)
         /\ \A s, t \in todo : s.of = t.of => s = t
<1> DEFINE Unsynced == {r \in Rows : r.status # "synced"}
<1>1. ASSUME NEW r \in Rows
      PROVE  r \in Row /\ r.of \in Contents /\ row[r.of] = r
  <2>1. PICK c \in Contents : r = row[c] /\ r # None
    BY DEF Rows
  <2>2. r \in Row
    BY <2>1 DEF TypeInv, TypeOK
  <2> QED BY <2>1, <2>2 DEF Ownership, RowsOwned
<1>2. \A r \in Row : TicketOf(r).of = r.of
  BY DEF TicketOf
<1>3. ASSUME NEW S \in SUBSET Unsynced, todo = {TicketOf(r) : r \in S}
      PROVE  /\ \A t \in todo : Unlinked(t.of)
             /\ \A s, t \in todo : s.of = t.of => s = t
  <2>1. ASSUME NEW t \in todo PROVE \E r \in S : t = TicketOf(r) /\ t.of = r.of /\ row[t.of] = r
    BY <1>1, <1>2, <1>3
  <2>2. ASSUME NEW t \in todo PROVE Unlinked(t.of)
    BY <1>1, <2>1 DEF Unlinked, Aligned, LinkedIsSynced
  <2>3. ASSUME NEW s \in todo, NEW t \in todo, s.of = t.of PROVE s = t
    BY <2>1, <2>3
  <2> QED BY <2>2, <2>3
<1>4. CASE p = 3
  <2>1. Resettable \in SUBSET Unsynced
    BY DEF Resettable, WithStatus
  <2>2. todo = {TicketOf(r) : r \in Resettable}
    BY <1>4 DEF Listings
  <2> QED BY <1>3, <2>1, <2>2
<1>5. ASSUME NEW S, todo = Pending(S)
      PROVE  /\ \A t \in todo : Unlinked(t.of)
             /\ \A s, t \in todo : s.of = t.of => s = t
  <2> DEFINE T == {q \in Newest(WithStatus("pending")) : q.of \in S}
  <2>1. T \in SUBSET Unsynced
    BY DEF Newest, WithStatus
  <2>2. todo = {TicketOf(r) : r \in T}
    BY <1>5 DEF Pending
  <2> QED BY <1>3, <2>1, <2>2
<1>6. CASE p \in {4, 5}
  BY <1>5, <1>6 DEF Listings
<1>7. CASE p = 6
  <2>1. PICK S \in SUBSET Retryable : todo = {TicketOf(r) : r \in S}
    BY <1>7 DEF Listings
  <2>2. S \in SUBSET Unsynced
    BY DEF Retryable, Newest, WithStatus
  <2> QED BY <1>3, <2>1, <2>2
<1> QED BY <1>4, <1>6, <1>7

LEMMA ReadsAligned ==
  ASSUME TypeInv, Ownership, Undisturbed, Tidy, Aligned, NEW a \in Actors,
         \/ EnsureRead(a) \/ Gate(a) \/ Resolve(a) \/ ReadContent(a) \/ ReadState(a)
         \/ Reread(a) \/ DeleteRead(a) \/ VisibilityRead(a) \/ ListAttachments(a)
         \/ List(a) \/ NextItem(a) \/ StartBatch(a)
  PROVE  Aligned'
<1> DEFINE j == job[a]
<1>0. JobStaged(j) /\ JobListed(j) /\ JobCurrent(j)
  BY AlignedHere
<1>1. j \in Job /\ Shape(j)
  BY Here
<1>2. UNCHANGED <<content, row, uploads, index>> \/ Reread(a)
  BY DEF EnsureRead, Gate, Resolve, ReadContent, ReadState, Reread, DeleteRead, VisibilityRead,
     ListAttachments, List, NextItem, StartBatch, OthersUnchanged
<1>3. UNCHANGED <<content, row, uploads, index>>
  BY <1>2 DEF Reread
<1>4. OnlyParseable' /\ LinkedIsSynced'
  BY <1>3, UploadsParseable DEF Aligned, LinkedIsSynced
<1>5. ASSUME NEW k, Become(a, k), JobAligned(k) PROVE Aligned'
  BY <1>3, <1>4, <1>5, OnlyJobAligned
<1>6. ASSUME Done(a), j.pc \notin Resting PROVE Aligned'
  BY <1>3, <1>4, <1>6, DoneAligned, AlignedBecomes
<1> USE Answers
<1>7. CASE EnsureRead(a)
  <2>1. j.pc = "ensure"
    BY <1>7 DEF EnsureRead, At
  <2>2. CASE Done(a)
    BY <1>6, <2>1, <2>2
  <2>3. ASSUME NEW pc \in {"insert", "gate"}, Goto(a, pc), pc = "gate" => j.phase = 0
        PROVE  Aligned'
    <3> PICK k : k = [j EXCEPT !.pc = pc]
      OBVIOUS
    <3>1. k.pc = pc /\ k.phase = j.phase /\ k.todo = j.todo /\ k.item = j.item /\ k.vis = j.vis
      BY <1>1 DEF Job
    <3>2. JobAligned(k)
      BY <1>0, <2>1, <2>3, <3>1 DEF JobAligned, JobStaged, JobListed, JobCurrent
    <3> QED BY <1>5, <2>3, <3>2 DEF Goto
  <2> QED BY <1>7, <2>2, <2>3 DEF EnsureRead, Ensured
<1>8. CASE Gate(a)
  <2>1. CASE Become(a, Idle)
    BY <1>5, <2>1, IdleAligned
  <2>2. ASSUME NEW pc, Goto(a, pc),
               <<j.pc, pc>> \in {<<"gate", "resolve">>, <<"dgate", "dread">>,
                                 <<"vgate", "vread">>, <<"bgate", "list">>}
        PROVE  Aligned'
    <3> PICK k : k = [j EXCEPT !.pc = pc]
      OBVIOUS
    <3>1. k.pc = pc /\ k.phase = j.phase /\ k.todo = j.todo /\ k.item = j.item /\ k.vis = j.vis
      BY <1>1 DEF Job
    <3>2. JobStaged(k) /\ JobCurrent(k)
      BY <1>0, <2>2, <3>1 DEF JobStaged, JobCurrent
    <3>3. JobListed(k)
      BY <1>0, <2>2, <3>1 DEF JobStaged, JobListed
    <3> QED BY <1>5, <2>2, <3>2, <3>3 DEF Goto, JobAligned
  <2>3. \/ Become(a, Idle) \/ \E pc : Goto(a, pc) /\
          <<j.pc, pc>> \in {<<"gate", "resolve">>, <<"dgate", "dread">>,
                           <<"vgate", "vread">>, <<"bgate", "list">>}
    BY <1>8 DEF Gate
  <2> QED BY <2>1, <2>2, <2>3
<1>9. CASE Resolve(a)
  <2>1. j.pc = "resolve"
    BY <1>9 DEF Resolve, At
  <2>2. CASE Done(a)
    BY <1>6, <2>1, <2>2
  <2>3. CASE content[Cur(a)].life = "live" /\ Become(a, [j EXCEPT !.pc = "read", !.ds = Home(Cur(a))])
    <3> PICK k : k = [j EXCEPT !.pc = "read", !.ds = Home(Cur(a))]
      OBVIOUS
    <3>1. k.pc = "read" /\ k.phase = j.phase /\ k.todo = j.todo /\ k.item = j.item /\ k.vis = j.vis
      BY <1>1 DEF Job
    <3>2. JobAligned(k)
      BY <1>0, <2>1, <2>3, <3>1 DEF JobAligned, JobStaged, JobListed, JobCurrent, Cur
    <3> QED BY <1>5, <2>3, <3>2
  <2> QED BY <1>9, <2>2, <2>3 DEF Resolve, Homed, Present
<1>10. CASE ReadContent(a)
  <2>1. j.pc = "read" /\ Cur(a) = j.item.of
    BY <1>10 DEF ReadContent, At, Cur
  <2>2. CASE Fail(a)
    <3>1. CASE j.phase = 0
      BY <1>5, <2>2, <3>1, IdleAligned DEF Fail
    <3>2. CASE j.phase # 0
      <4> PICK k : k = [Rest(a, "markFailed") EXCEPT !.item = job[a].item]
        OBVIOUS
      <4>1. k.pc = "markFailed" /\ k.phase = j.phase /\ k.todo = j.todo /\ k.item = j.item
        BY RestFields
      <4>2. j.phase \in 4..6
        BY <1>0, <2>1, <3>2 DEF JobStaged
      <4>3. JobStaged(k) /\ JobListed(k) /\ JobCurrent(k)
        BY <1>0, <2>1, <4>1, <4>2 DEF JobStaged, JobListed, JobCurrent
      <4> QED BY <1>5, <2>2, <3>2, <4>3 DEF Fail, JobAligned
    <3> QED BY <3>1, <3>2
  <2>3. CASE Become(a, [j EXCEPT !.pc = "state", !.text = content[Cur(a)].text,
                          !.vis = IF Cur(a) \in Files THEN None ELSE content[Cur(a)].vis])
    <3> PICK v : v = IF Cur(a) \in Files THEN None ELSE content[Cur(a)].vis
      OBVIOUS
    <3> PICK k : k = [j EXCEPT !.pc = "state", !.text = content[Cur(a)].text, !.vis = v]
      OBVIOUS
    <3>1. /\ k.pc = "state" /\ k.phase = j.phase /\ k.todo = j.todo /\ k.item = j.item
          /\ k.vis = v /\ k.text = content[Cur(a)].text
      BY <1>1 DEF Job
    <3>2. j.phase \in {0} \cup 4..6
      BY <1>0, <2>1 DEF JobStaged
    <3>3. JobStaged(k) /\ JobListed(k) /\ JobCurrent(k)
      BY <1>0, <2>1, <3>1, <3>2 DEF JobStaged, JobListed, JobCurrent
    <3> QED BY <1>5, <2>3, <3>3 DEF JobAligned
  <2> QED BY <1>10, <2>2, <2>3 DEF ReadContent
<1>11. CASE ReadState(a)
  <2> DEFINE r == row[Cur(a)]
  <2>1. j.pc = "state" /\ Cur(a) = j.item.of
    BY <1>11 DEF ReadState, At, Cur
  <2>2. CASE Done(a)
    BY <1>6, <2>1, <2>2
  <2>3. ASSUME NEW pc \in {"unindex", "upload", "skip"},
               Become(a, [j EXCEPT !.snap = r, !.pc = pc]),
               pc = "skip" <=> Cur(a) \notin Parseable,
               pc = "unindex" => r.doc # 0 /\ ~Unchanged(r, j.text)
        PROVE  Aligned'
    <3> PICK k : k = [j EXCEPT !.snap = r, !.pc = pc]
      OBVIOUS
    <3>1. /\ k.pc = pc /\ k.phase = j.phase /\ k.todo = j.todo /\ k.item = j.item
          /\ k.vis = j.vis /\ k.text = j.text /\ k.snap = r
      BY <1>1 DEF Job
    <3>2. JobStaged(k)
      BY <1>0, <2>1, <2>3, <3>1 DEF JobStaged
    <3>3. JobListed(k) /\ JobCurrent(k)
      BY <1>0, <2>1, <3>1 DEF JobListed, JobCurrent
    <3> QED BY <1>5, <2>3, <3>2, <3>3 DEF JobAligned
  <2> QED BY <1>11, <2>2, <2>3 DEF ReadState
<1>12. CASE Reread(a)
  <2>1. j.pc = "reread"
    BY <1>12 DEF Reread, At
  <2>2. row[Cur(a)] # None
    BY <2>1, TidyHere DEF JobTidy, Cur
  <2> PICK k : k = [j EXCEPT !.snap = row[Cur(a)], !.pc = "mark"]
    OBVIOUS
  <2>3. Become(a, k)
    BY <1>12, <2>2 DEF Reread
  <2>4. k.pc = "mark" /\ k.phase = j.phase /\ k.todo = j.todo /\ k.item = j.item /\ k.vis = j.vis
    BY <1>1 DEF Job
  <2>5. JobAligned(k)
    BY <1>0, <2>1, <2>4 DEF JobAligned, JobStaged, JobListed, JobCurrent
  <2> QED BY <1>5, <2>3, <2>5
<1>13. CASE DeleteRead(a)
  <2> DEFINE r == row[Cur(a)]
  <2>1. j.pc = "dread"
    BY <1>13 DEF DeleteRead, At
  <2>2. CASE Done(a)
    BY <1>6, <2>1, <2>2
  <2>3. ASSUME NEW pc \in {"ddoc", "drow"}, Become(a, [j EXCEPT !.snap = r, !.pc = pc]),
               pc = "ddoc" => Indexed(r)
        PROVE  Aligned'
    <3> PICK k : k = [j EXCEPT !.snap = r, !.pc = pc]
      OBVIOUS
    <3>1. k.pc = pc /\ k.phase = j.phase /\ k.todo = j.todo /\ k.item = j.item /\ k.vis = j.vis /\ k.snap = r
      BY <1>1 DEF Job
    <3>2. JobStaged(k) /\ JobListed(k) /\ JobCurrent(k)
      BY <1>0, <2>1, <2>3, <3>1 DEF JobStaged, JobListed, JobCurrent
    <3> QED BY <1>5, <2>3, <3>2 DEF JobAligned
  <2> QED BY <1>13, <2>2, <2>3 DEF DeleteRead
<1>14. CASE VisibilityRead(a)
  <2> DEFINE r == row[Cur(a)]
  <2>1. j.pc = "vread" /\ Cur(a) = j.item.of
    BY <1>14 DEF VisibilityRead, At, Cur
  <2>2. CASE Done(a)
    BY <1>6, <2>1, <2>2
  <2>3. CASE j.phase = 0 /\ Goto(a, "vlist")
    <3> PICK k : k = [j EXCEPT !.pc = "vlist"]
      OBVIOUS
    <3>1. k.pc = "vlist" /\ k.phase = j.phase /\ k.todo = j.todo /\ k.item = j.item /\ k.vis = j.vis
      BY <1>1 DEF Job
    <3>2. JobStaged(k) /\ JobListed(k) /\ JobCurrent(k)
      BY <1>0, <2>1, <2>3, <3>1 DEF JobStaged, JobListed, JobCurrent
    <3> QED BY <1>5, <2>3, <3>2 DEF JobAligned, Goto
  <2>4. CASE Relabelable(r) /\ Become(a, [j EXCEPT !.snap = r, !.pc = "vupd"])
    <3> PICK k : k = [j EXCEPT !.snap = r, !.pc = "vupd"]
      OBVIOUS
    <3>1. k.pc = "vupd" /\ k.phase = j.phase /\ k.todo = j.todo /\ k.item = j.item /\ k.vis = j.vis /\ k.snap = r
      BY <1>1 DEF Job
    <3>2. JobStaged(k) /\ JobListed(k) /\ JobCurrent(k)
      BY <1>0, <2>1, <2>4, <3>1 DEF JobStaged, JobListed, JobCurrent
    <3> QED BY <1>5, <2>4, <3>2 DEF JobAligned
  <2> QED BY <1>14, <2>2, <2>3, <2>4 DEF VisibilityRead
<1>15. CASE ListAttachments(a)
  <2>1. j.pc = "vlist" /\ Cur(a) = j.item.of
    BY <1>15 DEF ListAttachments, At, Cur
  <2>2. CASE Done(a)
    BY <1>6, <2>1, <2>2
  <2>3. ASSUME NEW F \in ListedAttachments(Attachments(Cur(a))),
               Become(a, [Idle EXCEPT !.pc = "next", !.phase = OfAttachments, !.vis = job[a].vis,
                                      !.todo = {Ticketed(f) : f \in F}])
        PROVE  Aligned'
    <3> PICK S : S = {Ticketed(f) : f \in F}
      OBVIOUS
    <3> PICK k : k = [Idle EXCEPT !.pc = "next", !.phase = OfAttachments, !.vis = job[a].vis,
                              !.todo = S]
      OBVIOUS
    <3>1. k.pc = "next" /\ k.phase = 7 /\ k.vis = j.vis /\ k.todo = S
      BY DEF Idle
    <3>2. F \subseteq Files
      BY ListedAre DEF Attachments
    <3>3. \A t \in S : t.of \in Files
      BY <3>2 DEF Ticketed
    <3>4. j.vis # None
      BY <1>0, <2>1 DEF JobCurrent
    <3>5. JobStaged(k) /\ JobListed(k) /\ JobCurrent(k)
      BY <3>1, <3>3, <3>4 DEF JobStaged, JobListed, JobCurrent
    <3> QED BY <1>5, <2>3, <3>5 DEF JobAligned
  <2> QED BY <1>15, <2>2, <2>3 DEF ListAttachments
<1>16. CASE List(a)
  <2>1. j.pc = "list" /\ j.phase \in 1..6
    BY <1>1, <1>16 DEF List, At, Shape
  <2>2. PICK S \in Listings(j.phase) : Become(a, [j EXCEPT !.todo = S, !.pc = "next"])
    BY <1>16 DEF List
  <2> PICK k : k = [j EXCEPT !.todo = S, !.pc = "next"]
    OBVIOUS
  <2>3. k.pc = "next" /\ k.phase = j.phase /\ k.todo = S
    BY <1>1 DEF Job
  <2>4. JobListed(k)
    <3>1. CASE j.phase \in 3..6
      BY <2>3, <3>1, ListingsAligned DEF JobListed
    <3>2. CASE j.phase \notin 3..6
      BY <2>3, <3>2 DEF JobListed
    <3> QED BY <3>1, <3>2
  <2>5. JobStaged(k) /\ JobCurrent(k)
    BY <2>1, <2>3 DEF JobStaged, JobCurrent
  <2> QED BY <1>5, <2>2, <2>4, <2>5 DEF JobAligned
<1>17. CASE NextItem(a)
  <2>1. j.pc = "next" /\ j.phase \in 1..7
    <3>1. j.pc = "next" /\ j.phase \in 0..7
      BY <1>1, <1>17 DEF NextItem, At, Job, Phases
    <3> QED BY <1>1, <3>1 DEF Shape
  <2>2. ASSUME NEW t \in j.todo,
               Become(a, [j EXCEPT !.pc = First(j.phase), !.item = t, !.todo = @ \ {t}])
        PROVE  Aligned'
    <3> PICK k : k = [j EXCEPT !.pc = First(j.phase), !.item = t, !.todo = @ \ {t}]
      OBVIOUS
    <3>1. /\ k.pc = First(j.phase) /\ k.phase = j.phase /\ k.todo = j.todo \ {t} /\ k.item = t
          /\ k.vis = j.vis
      BY <1>1 DEF Job
    <3>2. /\ j.phase \in 1..2 => First(j.phase) = "ensure"
          /\ j.phase = 3 => First(j.phase) = "reset"
          /\ j.phase \in 4..6 => First(j.phase) = "resolve"
          /\ j.phase = 7 => First(j.phase) = "vread"
      BY DEF First
    <3>3. JobStaged(k)
      BY <1>0, <2>1, <3>1, <3>2 DEF JobStaged
    <3>4. JobListed(k)
      BY <1>0, <2>1, <3>1, <3>2 DEF JobListed
    <3>5. JobCurrent(k)
      BY <1>0, <2>1, <3>1, <3>2 DEF JobCurrent
    <3> QED BY <1>5, <2>2, <3>3, <3>4, <3>5 DEF JobAligned
  <2>3. CASE j.todo = {} /\ j.phase < LastStage /\ Become(a, [j EXCEPT !.pc = "list", !.phase = @ + 1])
    <3> PICK k : k = [j EXCEPT !.pc = "list", !.phase = @ + 1]
      OBVIOUS
    <3>1. k.pc = "list" /\ k.phase = j.phase + 1 /\ k.todo = {}
      BY <1>1, <2>3 DEF Job
    <3>2. JobStaged(k) /\ JobListed(k) /\ JobCurrent(k)
      BY <2>1, <2>3, <3>1 DEF JobStaged, JobListed, JobCurrent
    <3> QED BY <1>5, <2>3, <3>2 DEF JobAligned
  <2>4. CASE Become(a, Idle)
    BY <1>5, <2>4, IdleAligned
  <2> QED BY <1>17, <2>2, <2>3, <2>4 DEF NextItem
<1>18. CASE StartBatch(a)
  <2> PICK k : k = [Idle EXCEPT !.pc = "bgate", !.phase = 1]
    OBVIOUS
  <2>1. k.pc = "bgate" /\ k.phase = 1 /\ k.todo = {}
    BY DEF Idle
  <2>2. JobStaged(k) /\ JobListed(k) /\ JobCurrent(k)
    BY <2>1 DEF JobStaged, JobListed, JobCurrent
  <2> QED BY <1>5, <1>18, <2>2 DEF StartBatch, JobAligned
<1> QED BY <1>7, <1>8, <1>9, <1>10, <1>11, <1>12, <1>13, <1>14, <1>15, <1>16, <1>17, <1>18

(* The row of the content in hand is the only one a goroutine changes. *)
LEMMA LinkedStays ==
  ASSUME Aligned, NEW x,
         \A c \in Contents : c # x => row'[c] = row[c],
         row'[x] # None /\ row'[x].doc # 0 => row'[x].status = "synced"
  PROVE  LinkedIsSynced'
BY DEF Aligned, LinkedIsSynced

LEMMA DoneRowAligned ==
  ASSUME TypeInv, Undisturbed, Aligned, UNCHANGED content, OnlyParseable', NEW a \in Actors, Done(a),
         job[a].pc \notin Resting, NEW x, x = Cur(a),
         \A c \in Contents : c # x => row'[c] = row[c],
         row'[x] # None /\ row'[x].doc # 0 => row'[x].status = "synced"
  PROVE  Aligned'
BY LinkedStays, DoneAligned, AlignedBecomes

LEMMA InsertedRow ==
  ASSUME TypeInv, NEW x \in Contents, NEW h \in Texts \cup {None}, InsertRow(x, h)
  PROVE  /\ row'[x] # None /\ row'[x].doc = 0
         /\ \A c \in Contents : c # x => row'[c] = row[c]
<1> DEFINE r == [id |-> NextId, of |-> x, status |-> "pending", ds |-> None, doc |-> 0,
                 hash |-> h, retry |-> 0, due |-> FALSE]
<1>1. r \in Row /\ r.doc = 0
  BY DEF NextId, TypeInv, TypeOK, Row
<1> HIDE DEF r
<1>2. row' = [row EXCEPT ![x] = r]
  BY DEF InsertRow, r
<1> QED BY <1>1, <1>2, ConstantsOK DEF TypeInv, TypeOK

(* The statements that record nothing of a document. *)
LEMMA MarksAligned ==
  ASSUME TypeInv, Ownership, Undisturbed, Tidy, Aligned, NEW a \in Actors,
         EnsureInsert(a) \/ MarkSkipped(a) \/ ResetRow(a) \/ MarkFailed(a)
  PROVE  Aligned'
<1> DEFINE j == job[a]
<1> PICK x : x = j.item.of
  OBVIOUS
<1>1. /\ j \in Job /\ x \in Contents /\ Cur(a) = x /\ j.item \in Ticket /\ row[x] \in Row \cup {None}
      /\ j.pc \in {"insert", "skip", "reset", "markFailed"} /\ j.pc \notin Resting
  BY Here DEF EnsureInsert, MarkSkipped, ResetRow, MarkFailed, At, Cur
<1>2. JobStaged(j) /\ JobListed(j) /\ JobCurrent(j) /\ JobOwned(j)
  BY AlignedHere DEF Ownership
<1>3. UNCHANGED <<content, uploads>> /\ OnlyParseable'
  BY UploadsParseable DEF EnsureInsert, MarkSkipped, ResetRow, MarkFailed
<1>4. ASSUME UNCHANGED row PROVE LinkedIsSynced'
  BY <1>4 DEF Aligned, LinkedIsSynced
<1>5. ASSUME Done(a),
             \A c \in Contents : c # x => row'[c] = row[c],
             row'[x] # None /\ row'[x].doc # 0 => row'[x].status = "synced"
      PROVE  Aligned'
  BY <1>1, <1>3, <1>5, DoneRowAligned
<1>6. ASSUME Done(a), UNCHANGED row PROVE Aligned'
  BY <1>1, <1>3, <1>4, <1>6, DoneAligned, AlignedBecomes
<1>7. ASSUME NEW id, IdOf(id, x), NEW c \in Contents, c # x, row[c] # None PROVE row[c].id # id
  BY <1>1, <1>7, SameContent
<1> USE Answers
<1>8. CASE EnsureInsert(a)
  <2>1. /\ LinkedIsSynced' /\ \A c \in Contents : c # x => row'[c] = row[c]
        /\ row'[x] # None /\ row'[x].doc # 0 => row'[x].status = "synced"
    <3>1. CASE InsertRow(x, None)
      BY <1>1, <3>1, InsertedRow, LinkedStays
    <3>2. CASE UNCHANGED row
      BY <1>1, <1>4, <3>2 DEF Aligned, LinkedIsSynced
    <3> QED BY <1>1, <1>8, <3>1, <3>2 DEF EnsureInsert
  <2>2. CASE Done(a)
    BY <1>5, <2>1, <2>2
  <2>3. CASE j.phase = 0 /\ Goto(a, "gate")
    <3> PICK k : k = [j EXCEPT !.pc = "gate"]
      OBVIOUS
    <3>1. k.pc = "gate" /\ k.phase = 0
      BY <1>1, <2>3 DEF Job
    <3>2. JobAligned(k)'
      BY <3>1 DEF JobAligned, JobStaged, JobListed, JobCurrent
    <3> QED BY <1>3, <2>1, <2>3, <3>2, AlignedBecomes DEF Goto
  <2> QED BY <1>8, <2>2, <2>3 DEF EnsureInsert, Ensured
<1>9. CASE MarkSkipped(a)
  <2>1. j.pc = "skip" /\ Done(a) /\ j.snap \in Row /\ j.snap # None
    BY <1>1, <1>9, Here DEF MarkSkipped, At, Shape, Job
  <2>2. IdOf(j.snap.id, x)
    BY <1>2, <2>1 DEF JobOwned
  <2>3. row[x] # None => row[x].doc = 0
    <3>1. x \notin Parseable
      BY <1>2, <2>1 DEF JobStaged
    <3>2. row[x] # None => DocOf(row[x].doc, x)
      BY <1>1 DEF Ownership, RowsOwned
    <3> QED BY <3>1, <3>2 DEF DocOf, Aligned, OnlyParseable
  <2>4. CASE UNCHANGED row
    BY <1>6, <2>1, <2>4
  <2>5. CASE UpdateRow(j.snap.id, LAMBDA r : [r EXCEPT !.status = "skipped"])
    <3>1. \A c \in Contents : c # x => row'[c] = row[c]
      BY <1>7, <2>2, <2>5 DEF UpdateRow
    <3>2. row'[x] = row[x] \/ (row[x] # None /\ row'[x] = [row[x] EXCEPT !.status = "skipped"])
      BY <1>1, <2>5 DEF UpdateRow
    <3>3. row'[x] # None /\ row'[x].doc # 0 => row'[x].status = "synced"
      BY <1>1, <2>3, <3>2, RowForms, ZenonT(60)
    <3> QED BY <1>5, <2>1, <3>1, <3>3
  <2> QED BY <1>9, <2>4, <2>5 DEF MarkSkipped
<1>10. CASE ResetRow(a)
  <2>1. j.pc = "reset" /\ Done(a) /\ j.item # None /\ j.item.hash \in Texts \cup {None}
    BY <1>1, <1>10, Here DEF ResetRow, At, Shape, Ticket
  <2>2. IdOf(j.item.id, x)
    BY <1>2, <2>1 DEF JobOwned
  <2>3. row[x] # None => row[x].doc = 0
    BY <1>2, <2>1 DEF JobStaged, JobListed, Unlinked
  <2>4. CASE UNCHANGED row
    BY <1>6, <2>1, <2>4
  <2>5. CASE UpdateRow(j.item.id, LAMBDA r : Reset(r, j.item.hash))
    <3>1. \A c \in Contents : c # x => row'[c] = row[c]
      BY <1>7, <2>2, <2>5 DEF UpdateRow
    <3>2. row'[x] = row[x] \/ (row[x] # None /\ row'[x] = Reset(row[x], j.item.hash))
      BY <1>1, <2>5 DEF UpdateRow
    <3>3. row'[x] # None /\ row'[x].doc # 0 => row'[x].status = "synced"
      BY <1>1, <2>1, <2>3, <3>2, RowForms
    <3> QED BY <1>5, <2>1, <3>1, <3>3
  <2> QED BY <1>10, <2>4, <2>5 DEF ResetRow
<1>11. CASE MarkFailed(a)
  <2>1. j.pc = "markFailed" /\ Done(a) /\ j.item # None /\ j.item.retry \in Nat
    BY <1>1, <1>11, Here DEF MarkFailed, At, Shape, Ticket
  <2>2. IdOf(j.item.id, x)
    BY <1>2, <2>1 DEF JobOwned
  <2>3. row[x] # None => row[x].doc = 0
    BY <1>2, <2>1 DEF JobStaged, JobListed, Unlinked
  <2>4. CASE UNCHANGED row
    BY <1>6, <2>1, <2>4
  <2>5. CASE UpdateRow(j.item.id, LAMBDA r : Failed(r, j.item.retry))
    <3>1. \A c \in Contents : c # x => row'[c] = row[c]
      BY <1>7, <2>2, <2>5 DEF UpdateRow
    <3>2. row'[x] = row[x] \/ (row[x] # None /\ row'[x] = Failed(row[x], j.item.retry))
      BY <1>1, <2>5 DEF UpdateRow
    <3>3. row'[x] # None /\ row'[x].doc # 0 => row'[x].status = "synced"
      BY <1>1, <2>1, <2>3, <3>2, RowForms
    <3> QED BY <1>5, <2>1, <3>1, <3>3
  <2> QED BY <1>11, <2>4, <2>5 DEF MarkFailed
<1> QED BY <1>8, <1>9, <1>10, <1>11

(* A goroutine that goes on with the document it has uploaded or deleted. *)
LEMMA RecordAligned ==
  ASSUME TypeInv, Undisturbed, Aligned, UNCHANGED content, OnlyParseable', NEW a \in Actors,
         NEW pc \in {"parse", "create", "reread", "mark", "hash", "upload", "drow"},
         NEW k, Become(a, k), k.pc = pc, k.phase = job[a].phase, k.todo = job[a].todo,
         k.item = job[a].item, k.vis = job[a].vis, k.text = job[a].text,
         job[a].pc \in {"unindex", "upload", "parse", "create", "reread", "mark", "hash", "ddoc"},
         pc = "upload" => job[a].pc = "unindex", pc = "drow" => job[a].pc = "ddoc",
         pc # "drow" => job[a].pc # "ddoc",
         NEW x, x = Cur(a),
         \A c \in Contents : c # x => row'[c] = row[c],
         row'[x] # None /\ row'[x].doc # 0 => row'[x].status = "synced"
  PROVE  Aligned'
<1> DEFINE j == job[a]
<1>0. j \in Job /\ JobStaged(j) /\ JobListed(j) /\ JobCurrent(j)
  BY Here, AlignedHere
<1>1. ASSUME j.phase \in 3..LastStage, NEW t \in j.todo PROVE Unlinked(t.of)'
  <2>1. Unlinked(t.of) /\ t.of # x /\ t.of \in Contents
    BY <1>0, <1>1 DEF JobListed, Cur, Job, Ticket
  <2> QED BY <2>1 DEF Unlinked
<1>2. JobStaged(k)'
  BY <1>0 DEF JobStaged
<1>3. JobListed(k)'
  BY <1>0, <1>1 DEF JobListed
<1>4. JobCurrent(k)'
  BY <1>0 DEF JobCurrent, Host
<1> QED BY <1>2, <1>3, <1>4, LinkedStays, AlignedBecomes DEF JobAligned

LEMMA RecordsAligned ==
  ASSUME TypeInv, Ownership, Undisturbed, Tidy, Aligned, NEW a \in Actors,
         CreateRow(a) \/ MarkSynced(a) \/ UpdateHash(a) \/ DeleteRow(a)
  PROVE  Aligned'
<1> DEFINE j == job[a]
<1> PICK x : x = j.item.of
  OBVIOUS
<1>1. /\ j \in Job /\ x \in Contents /\ Cur(a) = x /\ row[x] \in Row \cup {None}
      /\ j.pc \in {"create", "mark", "hash", "drow"} /\ j.pc \notin Resting
  BY Here DEF CreateRow, MarkSynced, UpdateHash, DeleteRow, At, Cur
<1>2. JobTidy(j) /\ JobOwned(j)
  BY TidyHere DEF Ownership
<1>3. UNCHANGED <<content, uploads>> /\ OnlyParseable'
  BY UploadsParseable DEF CreateRow, MarkSynced, UpdateHash, DeleteRow
<1>4. ASSUME NEW id, IdOf(id, x), NEW c \in Contents, c # x, row[c] # None PROVE row[c].id # id
  BY <1>1, <1>4, SameContent
<1> USE Answers
<1>5. CASE CreateRow(a)
  <2>1. j.pc = "create" /\ row[x] = None /\ j.text \in Texts
    BY <1>1, <1>2, <1>5, Here DEF CreateRow, At, JobTidy, Shape, Job
  <2> PICK k : k = [j EXCEPT !.pc = "reread"]
    OBVIOUS
  <2>2. InsertRow(x, j.text) /\ Become(a, k)
    BY <1>1, <1>5, <2>1 DEF CreateRow, UpsertPending, Goto
  <2>3. /\ k.pc = "reread" /\ k.item = j.item /\ k.phase = j.phase /\ k.todo = j.todo
        /\ k.vis = j.vis /\ k.text = j.text
    BY <1>1 DEF Job
  <2>4. row'[x].doc = 0 /\ \A c \in Contents : c # x => row'[c] = row[c]
    BY <1>1, <2>1, <2>2, InsertedRow
  <2> PICK pc : pc = "reread"
    OBVIOUS
  <2>5. /\ pc \in {"parse", "create", "reread", "mark", "hash", "upload", "drow"}
        /\ k.pc = pc /\ pc # "upload" /\ pc # "drow" /\ job[a].pc # "ddoc"
        /\ job[a].pc \in {"unindex", "upload", "parse", "create", "reread", "mark", "hash", "ddoc"}
    BY <2>1, <2>3
  <2>6. row'[x] # None /\ row'[x].doc # 0 => row'[x].status = "synced"
    BY <2>4
  <2> QED BY <1>1, <1>3, <2>2, <2>3, <2>4, <2>5, <2>6, RecordAligned, ZenonT(60)
<1>6. CASE MarkSynced(a)
  <2>1. j.pc = "mark" /\ row[x] = j.snap /\ j.snap \in Row /\ j.snap # None
    BY <1>1, <1>2, <1>6, Here DEF MarkSynced, At, JobTidy, Shape, Job
  <2> PICK k : k = [j EXCEPT !.pc = "hash"]
    OBVIOUS
  <2>2. UpdateRow(j.snap.id, LAMBDA r : Synced(r, j.ds, j.doc)) /\ Become(a, k)
    BY <1>6 DEF MarkSynced, Goto
  <2>3. /\ k.pc = "hash" /\ k.item = j.item /\ k.phase = j.phase /\ k.todo = j.todo
        /\ k.vis = j.vis /\ k.text = j.text
    BY <1>1 DEF Job
  <2>4. IdOf(j.snap.id, x)
    BY <1>1, <2>1 DEF Ownership, RowsOwned
  <2>5. \A c \in Contents : c # x => row'[c] = row[c]
    BY <1>4, <2>2, <2>4 DEF UpdateRow
  <2>6. row'[x] = Synced(row[x], j.ds, j.doc)
    BY <1>1, <2>1, <2>2 DEF UpdateRow
  <2>7. row'[x].status = "synced"
    BY <2>1, <2>6 DEF Synced, Row
  <2> PICK pc : pc = "hash"
    OBVIOUS
  <2>8. /\ pc \in {"parse", "create", "reread", "mark", "hash", "upload", "drow"}
        /\ k.pc = pc /\ pc # "upload" /\ pc # "drow" /\ job[a].pc # "ddoc"
        /\ job[a].pc \in {"unindex", "upload", "parse", "create", "reread", "mark", "hash", "ddoc"}
    BY <2>1, <2>3
  <2> QED BY <1>1, <1>3, <2>2, <2>3, <2>5, <2>7, <2>8, RecordAligned, ZenonT(60)
<1>7. CASE UpdateHash(a)
  <2>1. j.pc = "hash" /\ row[x] # None /\ row[x] \in Row /\ Done(a) /\ row[x].id = j.snap.id
    BY <1>1, <1>2, <1>7 DEF UpdateHash, At, JobTidy
  <2>2. UpdateRow(j.snap.id, LAMBDA r : [r EXCEPT !.hash = j.text])
    BY <1>7 DEF UpdateHash
  <2>3. IdOf(j.snap.id, x)
    BY <1>1, <2>1 DEF Ownership, RowsOwned
  <2>4. \A c \in Contents : c # x => row'[c] = row[c]
    BY <1>4, <2>2, <2>3 DEF UpdateRow
  <2>5. row'[x] = [row[x] EXCEPT !.hash = j.text]
    BY <1>1, <2>1, <2>2 DEF UpdateRow
  <2>6. row'[x].doc = row[x].doc /\ row'[x].status = row[x].status
    BY <2>1, <2>5 DEF Row
  <2>7. row'[x].doc # 0 => row'[x].status = "synced"
    BY <1>1, <2>1, <2>6 DEF Aligned, LinkedIsSynced
  <2> QED BY <1>1, <1>3, <2>1, <2>4, <2>7, DoneRowAligned
<1>8. CASE DeleteRow(a)
  <2>1. row' = [row EXCEPT ![x] = None] /\ Done(a)
    BY <1>1, <1>8 DEF DeleteRow
  <2>2. row'[x] = None /\ \A c \in Contents : c # x => row'[c] = row[c]
    BY <1>1, <2>1 DEF TypeInv, TypeOK
  <2> QED BY <1>1, <1>3, <2>1, <2>2, DoneRowAligned
<1> QED BY <1>5, <1>6, <1>7, <1>8

(* The steps over the index. *)
LEMMA IndexAligned ==
  ASSUME TypeInv, Ownership, Undisturbed, Tidy, Aligned, NEW a \in Actors,
         DeleteOld(a) \/ DeleteDoc(a) \/ Upload(a) \/ Parse(a) \/ VisibilityUpdate(a)
  PROVE  Aligned'
<1> DEFINE j == job[a]
<1> PICK x : x = j.item.of
  OBVIOUS
<1>1. /\ j \in Job /\ x \in Contents /\ Cur(a) = x /\ row[x] \in Row \cup {None}
      /\ j.pc \in {"unindex", "ddoc", "upload", "parse", "vupd"} /\ j.pc \notin Resting
  BY Here DEF DeleteOld, DeleteDoc, Upload, Parse, VisibilityUpdate, At, Cur
<1>2. JobStaged(j) /\ JobListed(j) /\ JobCurrent(j) /\ JobTidy(j)
  BY AlignedHere, TidyHere
<1>3. UNCHANGED <<content, row>>
  BY DEF DeleteOld, DeleteDoc, Upload, Parse, VisibilityUpdate
<1>4. row'[x] # None /\ row'[x].doc # 0 => row'[x].status = "synced"
  BY <1>1, <1>3 DEF Aligned, LinkedIsSynced
<1>5. \A i \in DOMAIN uploads : uploads[i] \in Document
  BY DEF TypeInv, TypeOK
<1>6. index \subseteq DOMAIN uploads
  BY DEF TypeInv, TypeOK
<1> USE Answers
<1>7. OnlyParseable'
  <2>1. CASE UNCHANGED uploads
    BY <2>1, UploadsParseable
  <2>2. CASE Upload(a)
    <3>1. x \in Parseable
      BY <1>2, <2>2 DEF JobStaged, Upload, At
    <3>2. AcceptUpload(a)
      BY <2>2 DEF Upload
    <3> QED BY <1>1, <3>1, <3>2 DEF AcceptUpload, Aligned, OnlyParseable, TypeInv, TypeOK
  <2>3. CASE Parse(a) \/ VisibilityUpdate(a)
    BY <1>5, <1>6, <2>1, <2>3 DEF Parse, VisibilityUpdate, Aligned, OnlyParseable, Document
  <2> QED BY <2>1, <2>2, <2>3 DEF DeleteOld, DeleteDoc
<1>8. CASE VisibilityUpdate(a)
  <2>1. j.pc = "vupd" /\ j.phase \in {0, 7}
    BY <1>2, <1>8 DEF VisibilityUpdate, At, JobStaged
  <2>2. CASE Done(a)
    BY <1>1, <1>3, <1>4, <1>7, <2>2, DoneRowAligned
  <2>3. CASE j.phase = 0 /\ Goto(a, "vlist")
    <3> PICK k : k = [j EXCEPT !.pc = "vlist"]
      OBVIOUS
    <3>1. k.pc = "vlist" /\ k.phase = 0 /\ k.item = j.item /\ k.vis = j.vis
      BY <1>1, <2>3 DEF Job
    <3>2. JobStaged(k)' /\ JobListed(k)'
      BY <1>2, <2>1, <2>3, <3>1 DEF JobStaged, JobListed
    <3>3. JobCurrent(k)'
      BY <1>2, <1>3, <2>1, <3>1, SMTT(60) DEF JobCurrent, Host
    <3>4. LinkedIsSynced'
      BY <1>3 DEF Aligned, LinkedIsSynced
    <3> QED BY <1>7, <2>3, <3>2, <3>3, <3>4, AlignedBecomes DEF Goto, JobAligned
  <2> QED BY <1>8, <2>2, <2>3 DEF VisibilityUpdate
<1>9. ASSUME NEW pc, Goto(a, pc),
             <<j.pc, pc>> \in {<<"unindex", "upload">>, <<"ddoc", "drow">>,
                               <<"parse", "create">>, <<"parse", "mark">>}
      PROVE  Aligned'
  <2> PICK k : k = [j EXCEPT !.pc = pc]
    OBVIOUS
  <2>1. /\ k.pc = pc /\ k.item = j.item /\ k.phase = j.phase /\ k.todo = j.todo
        /\ k.vis = j.vis /\ k.text = j.text
    BY <1>1 DEF Job
  <2> QED BY <1>1, <1>3, <1>4, <1>7, <1>9, <2>1, RecordAligned DEF Goto
<1>10. CASE Upload(a)
  <2> PICK d : d = Len(uploads) + 1
    OBVIOUS
  <2> PICK k : k = [j EXCEPT !.doc = d, !.pc = "parse"]
    OBVIOUS
  <2>1. Become(a, k) /\ j.pc = "upload"
    BY <1>10 DEF Upload, At
  <2>2. /\ k.pc = "parse" /\ k.item = j.item /\ k.phase = j.phase /\ k.todo = j.todo
        /\ k.vis = j.vis /\ k.text = j.text
    BY <1>1 DEF Job
  <2> QED BY <1>1, <1>3, <1>4, <1>7, <2>1, <2>2, RecordAligned
<1> QED BY <1>1, <1>8, <1>9, <1>10 DEF DeleteOld, DeleteDoc, Parse, At

(* What users make of a content, whether they announce it or not. *)
LEMMA UserWrites ==
  ASSUME TypeInv, User, NEW c \in Contents
  PROVE  /\ content[c].life = "gone" => content'[c].life = "gone"
         /\ content'[c].life = "new" => content[c].life = "new"
         /\ content[c].life = "new" => content'[c].life # "gone"
         /\ content'[c].text # content[c].text => content[c].life = "live" /\ content'[c].life = "live"
<1>0. content[c] \in Content /\ (\A m \in Contents : content[m] \in Content)
  BY DEF TypeInv, TypeOK
<1> DEFINE Writes1 == /\ content[c].life = "gone" => content'[c].life = "gone"
                      /\ content'[c].life = "new" => content[c].life = "new"
                      /\ content[c].life = "new" => content'[c].life # "gone"
                      /\ content'[c].text # content[c].text =>
                           content[c].life = "live" /\ content'[c].life = "live"
<1>1. ASSUME NEW y \in Contents, NEW l, content' = [content EXCEPT ![y].life = l],
             content[y].life # "gone", l # "new", l = "gone" => content[y].life # "new"
      PROVE  Writes1
  <2>1. CASE c = y
    <3>1. content'[c] = [content[c] EXCEPT !.life = l]
      BY <1>1, <2>1 DEF TypeInv, TypeOK
    <3> QED BY <1>0, <1>1, <2>1, <3>1 DEF Content
  <2>2. CASE c # y
    BY <1>1, <2>2 DEF TypeInv, TypeOK
  <2> QED BY <2>1, <2>2
<1>2. ASSUME NEW m \in Contents, NEW t, NEW v, Live(m),
             content' = [content EXCEPT ![m].text = t, ![m].vis = v]
      PROVE  Writes1
  <2>1. CASE c = m
    <3>1. content'[c].life = content[c].life
      BY <1>2, <2>1 DEF TypeInv, TypeOK, Content
    <3> QED BY <1>2, <2>1, <3>1 DEF Live
  <2>2. CASE c # m
    BY <1>2, <2>2 DEF TypeInv, TypeOK
  <2> QED BY <2>1, <2>2
<1>3. ASSUME NEW S, Remove(S), c \in S => content[c].life # "new" PROVE Writes1
  <2>1. CASE c \in S
    <3>1. content'[c] = [content[c] EXCEPT !.life = "gone"]
      BY <1>3, <2>1 DEF Remove
    <3> QED BY <1>0, <1>3, <2>1, <3>1 DEF Content
  <2>2. CASE c \notin S
    BY <1>3, <2>2 DEF Remove
  <2> QED BY <2>1, <2>2
<1>4. ASSUME content'[c].life = content[c].life, content'[c].text = content[c].text
      PROVE  Writes1
  BY <1>4
<1> HIDE DEF Writes1
<1>5. ASSUME NEW a \in Actors, NEW y \in Contents, Create(a, y) \/ Attach(a, y) PROVE Writes1
  <2>1. content' = [content EXCEPT ![y].life = "live"] /\ content[y].life \in {"new", "loose"}
    BY <1>5 DEF Create, Attach
  <2> QED BY <1>1, <2>1
<1>6. ASSUME NEW y \in Contents, UploadLoose(y) \/ Detach(y) \/ CreateSilently(y) PROVE Writes1
  <2>1. CASE UploadLoose(y)
    <3>1. content' = [content EXCEPT ![y].life = "loose"] /\ content[y].life = "new"
      BY <2>1 DEF UploadLoose
    <3> QED BY <1>1, <3>1
  <2>2. CASE Detach(y)
    <3>1. content' = [content EXCEPT ![y].life = "gone"] /\ content[y].life = "live"
      BY <2>2 DEF Detach
    <3> QED BY <1>1, <3>1
  <2>3. CASE CreateSilently(y)
    <3>1. content' = [content EXCEPT ![y].life = "live"] /\ content[y].life = "new"
      BY <2>3 DEF CreateSilently
    <3> QED BY <1>1, <3>1
  <2> QED BY <1>6, <2>1, <2>2, <2>3
<1>7. ASSUME NEW a \in Actors, NEW y \in Contents, Update(a, y) PROVE Writes1
  BY <1>2, <1>7 DEF Update
<1>8. ASSUME NEW y \in Contents, UpdateSilently(y) PROVE Writes1
  BY <1>2, <1>8 DEF UpdateSilently
<1>9. ASSUME NEW y \in Contents, Move(y) PROVE Writes1
  <2>1. content'[c].life = content[c].life /\ content'[c].text = content[c].text
    BY <1>9 DEF Move, TypeInv, TypeOK, Content
  <2> QED BY <1>4, <2>1
<1>10. ASSUME NEW a \in Actors, NEW y \in Contents, DeleteAgain(a, y) PROVE Writes1
  <2>1. content'[c].life = content[c].life /\ content'[c].text = content[c].text
    BY <1>10 DEF DeleteAgain, TypeInv, TypeOK, Content
  <2> QED BY <1>4, <2>1
<1>11. ASSUME NEW a \in Actors, NEW y \in Contents, Delete(a, y) PROVE Writes1
  <2>1. PICK S \in Deleted(y) : Remove(S)
    BY <1>11 DEF Delete
  <2>2. c \in S => content[c].life # "new"
    BY <1>11, <2>1 DEF Delete, Deletable, Deleted, Attachments
  <2> QED BY <1>3, <2>1, <2>2
<1>12. ASSUME NEW m \in Contents, DeleteSilently(m) PROVE Writes1
  <2>1. PICK F \in ListedAttachments(Attachments(m)) : Remove({m} \cup F)
    BY <1>12 DEF DeleteSilently
  <2>2. F \subseteq Attachments(m)
    BY <2>1, ListedAre
  <2>3. c \in {m} \cup F => content[c].life # "new"
    BY <1>12, <2>2 DEF DeleteSilently, Live, Attachments
  <2> QED BY <1>3, <2>1, <2>3
<1>13. Writes1
  BY <1>5, <1>6, <1>7, <1>8, <1>9, <1>10, <1>11, <1>12 DEF User
<1> QED BY <1>13 DEF Writes1

(* A visibility event is of a memo, and of a label; a delete event is of a   *)
(* content that is gone.                                                     *)
LEMMA UserAnnounces ==
  ASSUME TypeInv, Undisturbed, User, ~UNCHANGED job
  PROVE  \E a \in Actors, pc \in {"ensure", "vgate", "dgate"}, c \in Contents : \E vis :
           /\ Launch(a, pc, c, vis)
           /\ pc = "vgate" => c \notin Files /\ vis # None /\ vis = content'[c].vis
           /\ pc = "dgate" => content'[c].life = "gone"
<1>1. ASSUME NEW a \in Actors, NEW pc, NEW c \in Contents, NEW vis, Spawn(a, pc, c, vis)
      PROVE  Launch(a, pc, c, vis)
  BY <1>1, Answers DEF Spawn
<1>2. ASSUME NEW a \in Actors, NEW c \in Contents, Create(a, c) \/ Attach(a, c)
      PROVE  Launch(a, "ensure", c, None)
  BY <1>1, <1>2 DEF Create, Attach
<1>3. ASSUME NEW a \in Actors, NEW m \in Contents, Update(a, m)
      PROVE  \/ Launch(a, "ensure", m, None)
             \/ m \notin Files /\ \E v : Launch(a, "vgate", m, v) /\ v # None /\ v = content'[m].vis
  <2> PICK t \in Texts, v \in Visibilities :
        /\ content' = [content EXCEPT ![m].text = t, ![m].vis = v]
        /\ Spawn(a, "ensure", m, None) \/ Spawn(a, "vgate", m, v)
    BY <1>3 DEF Update
  <2>1. content'[m].vis = v /\ m \notin Files /\ v # None
    BY <1>3, ConstantsOK DEF TypeInv, TypeOK, Content, Update, Live
  <2> QED BY <1>1, <2>1
<1>4. ASSUME NEW a \in Actors, NEW c \in Contents, Delete(a, c)
      PROVE  Launch(a, "dgate", c, None) /\ content'[c].life = "gone"
  <2>1. PICK S \in Deleted(c) : Remove(S)
    BY <1>4 DEF Delete
  <2>2. content'[c] = [content[c] EXCEPT !.life = "gone"]
    BY <2>1 DEF Deleted, Remove
  <2> QED BY <1>4, <2>2 DEF Delete, TypeInv, TypeOK, Content
<1>5. ASSUME NEW a \in Actors, NEW c \in Contents, DeleteAgain(a, c)
      PROVE  Launch(a, "dgate", c, None) /\ content'[c].life = "gone"
  BY <1>5 DEF DeleteAgain, TypeInv, TypeOK, Content
<1>6. ASSUME NEW c \in Contents, UploadLoose(c) \/ Detach(c) \/ Move(c) \/ Silently(c)
      PROVE  UNCHANGED job
  BY <1>6 DEF UploadLoose, Detach, Move, Silently, CreateSilently, UpdateSilently,
              DeleteSilently, Silent
<1> QED BY <1>2, <1>3, <1>4, <1>5, <1>6 DEF User, Silently

LEMMA UserAligned ==
  ASSUME TypeInv, Undisturbed, Aligned, User
  PROVE  Aligned'
<1>1. UNCHANGED <<row, uploads>>
  BY UserTouches
<1>2. LinkedIsSynced' /\ OnlyParseable'
  BY <1>1 DEF Aligned, LinkedIsSynced, OnlyParseable
<1>3. CASE UNCHANGED job
  <2>1. ASSUME NEW a \in Actors PROVE JobStaged(job[a])' /\ JobListed(job[a])' /\ JobCurrent(job[a])'
    <3>1. JobStaged(job[a]) /\ JobListed(job[a]) /\ JobCurrent(job[a])
      BY AlignedHere
    <3>2. job[a].pc \notin Resting => job[a].item.of \in Contents
      BY Here DEF Cur
    <3>3. JobStaged(job[a])' /\ JobListed(job[a])'
      BY <1>1, <1>3, <3>1 DEF JobStaged, JobListed, Unlinked
    <3>4. JobCurrent(job[a])'
      BY <1>1, <1>3, <3>1, <3>2, UserWrites DEF JobCurrent
    <3> QED BY <3>3, <3>4
  <2> QED BY <1>2, <2>1 DEF Aligned
<1>4. ASSUME NEW a \in Actors, NEW pc \in {"ensure", "vgate", "dgate"}, NEW c \in Contents, NEW vis,
             Launch(a, pc, c, vis),
             pc = "vgate" => c \notin Files /\ vis # None,
             pc = "dgate" => content'[c].life = "gone"
      PROVE  Aligned'
  <2>1. PICK k : k = [Idle EXCEPT !.pc = pc, !.item = Ticketed(c), !.vis = vis]
    OBVIOUS
  <2>2. k.pc = pc /\ k.phase = 0 /\ k.item.of = c /\ k.vis = vis
    BY <2>1 DEF Idle, Ticketed
  <2>3. JobStaged(k)' /\ JobListed(k)'
    BY <1>4, <2>2 DEF JobStaged, JobListed
  <2>4. JobCurrent(k)'
    BY <1>4, <2>2 DEF JobCurrent
  <2> QED BY <1>2, <1>4, <2>1, <2>3, <2>4, AlignedBecomes DEF Launch, JobAligned
<1> QED BY <1>3, <1>4, UserAnnounces

LEMMA InitAligned == Init => Aligned
<1> SUFFICES ASSUME Init PROVE Aligned
  OBVIOUS
<1>1. \A a \in Actors : job[a] = Idle
  BY DEF Init
<1>2. \A a \in Actors : JobAligned(job[a])
  BY <1>1, IdleAligned
<1>3. \A c \in Contents : row[c] = None
  BY DEF Init
<1>4. DOMAIN uploads = {}
  BY DEF Init
<1> QED BY <1>2, <1>3, <1>4 DEF Aligned, LinkedIsSynced, OnlyParseable, JobAligned

LEMMA NextAligned ==
  Undisturbed /\ TypeInv /\ Ownership /\ Tidy /\ Aligned /\ [Next]_vars => Aligned'
<1> SUFFICES ASSUME Undisturbed, TypeInv, Ownership, Tidy, Aligned, [Next]_vars PROVE Aligned'
  OBVIOUS
<1>1. ASSUME NEW a \in Actors, Step(a) \/ StartBatch(a) PROVE Aligned'
  BY <1>1, ReadsAligned, MarksAligned, RecordsAligned, IndexAligned DEF Step
<1>2. CASE Crash
  BY <1>2, Answers DEF Crash
<1>3. CASE Restart \/ UNCHANGED vars
  BY <1>3, SameAligned DEF Restart, vars
<1> QED BY <1>1, <1>2, <1>3, UserAligned DEF Next

-----------------------------------------------------------------------------
(* What readers see *)

LEMMA NothingShown == \A c : (Absent(c) => Version(c) = None) /\ (Absent(c)' => Version(c)' = None)
BY DEF Absent, Version

(* The one document of a content is its version, before a step and after. *)
LEMMA VersionIs ==
  ASSUME NEW c, NEW i \in index, uploads[i].of = c, Only(c, i)
  PROVE  Version(c) = [text |-> uploads[i].text, label |-> uploads[i].vis]
<1>1. (CHOOSE l \in index : uploads[l].of = c) = i
  BY DEF Only
<1> QED BY <1>1 DEF Version

LEMMA VersionBecomes ==
  ASSUME NEW c, NEW i \in index', uploads'[i].of = c, Only(c, i)'
  PROVE  Version(c)' = [text |-> uploads'[i].text, label |-> uploads'[i].vis]
<1>1. (CHOOSE l \in index' : uploads'[l].of = c) = i
  BY DEF Only
<1> QED BY <1>1 DEF Version

(* A content of whose documents a step changes nothing that readers see. *)
LEMMA VersionStays ==
  ASSUME OneDocument, NEW c,
         \A i \in index' : uploads'[i].of = c => i \in index /\ uploads[i].of = c,
         \A i \in index : uploads[i].of = c =>
           /\ i \in index' /\ uploads'[i].of = c
           /\ uploads'[i].text = uploads[i].text /\ uploads'[i].vis = uploads[i].vis
  PROVE  Version(c)' = Version(c)
<1>1. CASE Absent(c)
  <2>1. Absent(c)'
    BY <1>1 DEF Absent
  <2> QED BY <1>1, <2>1, NothingShown
<1>2. CASE ~Absent(c)
  <2>1. PICK i \in index : uploads[i].of = c
    BY <1>2 DEF Absent
  <2>2. Only(c, i)
    BY <2>1 DEF OneDocument, Only
  <2>3. i \in index' /\ uploads'[i].of = c
    BY <2>1
  <2>4. Only(c, i)'
    BY <2>2 DEF Only
  <2>5. Version(c)' = [text |-> uploads'[i].text, label |-> uploads'[i].vis]
    BY <2>3, <2>4, VersionBecomes
  <2>6. Version(c) = [text |-> uploads[i].text, label |-> uploads[i].vis]
    BY <2>1, <2>2, VersionIs
  <2> QED BY <2>1, <2>5, <2>6
<1> QED BY <1>1, <1>2

LEMMA ShownStays ==
  ASSUME OneDocument, index' = index,
         \A i \in index : uploads'[i].of = uploads[i].of
           /\ uploads'[i].text = uploads[i].text /\ uploads'[i].vis = uploads[i].vis
  PROVE  ShownNow' = ShownNow
<1>1. \A c \in Contents : Version(c)' = Version(c)
  BY VersionStays
<1> QED BY <1>1 DEF ShownNow

LEMMA ShownBecomes ==
  ASSUME NEW x \in Contents, \A c \in Contents \ {x} : Version(c)' = Version(c)
  PROVE  ShownNow' = [ShownNow EXCEPT ![x] = Version(x)']
BY DEF ShownNow

LEMMA NoteStays ==
  ASSUME UNCHANGED content
  PROVE  NoteNow' = NoteNow
BY DEF NoteNow, Host

LEMMA NoteIs ==
  ASSUME TypeInv, NEW c \in Contents
  PROVE  /\ NoteNow[c].text = content[c].text /\ NoteNow[c].label = content[Host(c)].vis
         /\ content[c].life \in {"loose", "live"} => NoteNow[c].life = "there"
         /\ content[c].life \notin {"loose", "live"} => NoteNow[c].life = content[c].life
BY DEF NoteNow

(* What the one goroutine that runs has taken up and what it is asked for,   *)
(* before a step and after.                                                  *)
Asking == {"vgate", "vread", "vupd", "vlist"}
JobTakes(j, c) == j.pc \in Taking /\ j.item.of = c
JobAsks(j, c) ==
  \/ j.phase = 0 /\ j.pc \in Asking /\ j.item.of = Host(c)
  \/ j.phase = OfAttachments /\ ((\E t \in j.todo : t.of = c) \/ (j.item # None /\ j.item.of = c))

JobTaken(j) == [c \in Contents |-> IF JobTakes(j, c) THEN [text |-> j.text, label |-> j.vis] ELSE None]
JobAsked(j) == [c \in Contents |-> IF JobAsks(j, c) THEN j.vis ELSE None]

LEMMA TakenIs ==
  ASSUME Undisturbed, NEW a \in Actors
  PROVE  TakenNow = JobTaken(job[a]) /\ AskedNow = JobAsked(job[a])
<1>1. \A b \in Actors : b = a
  BY DEF Undisturbed
<1>2. ASSUME NEW c \in Contents
      PROVE  /\ (\E b \in Actors : Takes(b, c)) <=> JobTakes(job[a], c)
             /\ JobTakes(job[a], c) => (CHOOSE b \in Actors : Takes(b, c)) = a
             /\ (\E b \in Actors : Asks(b, c)) <=> JobAsks(job[a], c)
             /\ JobAsks(job[a], c) => (CHOOSE b \in Actors : Asks(b, c)) = a
  <2>1. \A b \in Actors : Takes(b, c) <=> JobTakes(job[b], c)
    BY DEF Takes, JobTakes
  <2>2. \A b \in Actors : Asks(b, c) <=> JobAsks(job[b], c)
    BY DEF Asks, JobAsks, Asking
  <2> QED BY <1>1, <2>1, <2>2
<1>3. TakenNow = JobTaken(job[a])
  BY <1>2 DEF TakenNow, JobTaken
<1>4. AskedNow = JobAsked(job[a])
  BY <1>2 DEF AskedNow, JobAsked
<1> QED BY <1>3, <1>4

LEMMA TakenBecomes ==
  ASSUME TypeInv, Undisturbed, NEW a \in Actors, NEW k, Become(a, k)
  PROVE  TakenNow' = JobTaken(k) /\ AskedNow' = JobAsked(k)
<1>0. job'[a] = k
  BY DEF Become, TypeInv, TypeOK
<1>1. \A b \in Actors : b = a
  BY DEF Undisturbed
<1>2. ASSUME NEW c \in Contents
      PROVE  /\ (\E b \in Actors : Takes(b, c)') <=> JobTakes(k, c)
             /\ JobTakes(k, c) => (CHOOSE b \in Actors : Takes(b, c)') = a
             /\ (\E b \in Actors : Asks(b, c)') <=> JobAsks(k, c)
             /\ JobAsks(k, c) => (CHOOSE b \in Actors : Asks(b, c)') = a
  <2>1. Takes(a, c)' <=> JobTakes(k, c)
    BY <1>0 DEF Takes, JobTakes
  <2>2. Asks(a, c)' <=> JobAsks(k, c)
    BY <1>0 DEF Asks, JobAsks, Asking, Host
  <2> QED BY <1>1, <2>1, <2>2
<1>3. TakenNow' = JobTaken(k)
  BY <1>0, <1>2 DEF TakenNow, JobTaken
<1>4. AskedNow' = JobAsked(k)
  BY <1>0, <1>2 DEF AskedNow, JobAsked
<1> QED BY <1>3, <1>4

LEMMA TakenStays ==
  ASSUME UNCHANGED job
  PROVE  TakenNow' = TakenNow /\ AskedNow' = AskedNow
BY DEF TakenNow, AskedNow, Takes, Asks, Host

LEMMA AskedType ==
  ASSUME TypeInv
  PROVE  AskedNow \in [Contents -> Visibilities \cup {None}]
<1>1. ASSUME NEW c \in Contents, NEW a \in Actors PROVE job[a].vis \in Visibilities \cup {None}
  BY DEF TypeInv, TypeOK, Job
<1> QED BY <1>1 DEF AskedNow

LEMMA NothingTaken == \A j : j.pc \notin Taking => JobTaken(j) = [c \in Contents |-> None]
BY DEF JobTaken, JobTakes

LEMMA NothingAsked ==
  \A j : (j.phase = 0 /\ j.pc \notin Asking) \/ j.phase \in 1..LastStage =>
    JobAsked(j) = [c \in Contents |-> None]
BY DEF JobAsked, JobAsks

LEMMA InitRefines == Init => Mirrored!Init
<1> SUFFICES ASSUME Init PROVE Mirrored!Init
  OBVIOUS
<1>1. \A a \in Actors : job[a].pc = "idle" /\ job[a].phase = 0
  BY DEF Init, Idle
<1>2. TakenNow = [c \in Contents |-> None] /\ AskedNow = [c \in Contents |-> None]
  BY <1>1 DEF TakenNow, Takes, AskedNow, Asks, Taking
<1>3. ShownNow = [c \in Contents |-> None]
  <2>1. \A c \in Contents : Version(c) = None
    BY NothingShown DEF Init, Absent
  <2> QED BY <2>1 DEF ShownNow
<1>4. NoteNow \in [Contents -> [life: {"new", "there"}, text: Texts, label: Visibilities]]
  <2>1. \A c \in Contents : Host(c) \in Contents
    BY ConstantsOK DEF Host
  <2>2. \A c \in Contents : /\ content[c].life \in {"new", "live"} /\ content[c].text \in Texts
                            /\ content[Host(c)].vis \in Visibilities
    BY <2>1 DEF Init
  <2> QED BY <2>2 DEF NoteNow
<1> QED BY <1>2, <1>3, <1>4 DEF Mirrored!Init

-----------------------------------------------------------------------------
(* Every step is one of Mirror's, or none of its business *)

USE DEF Taking

(* A step after which the goroutine has no other version in hand than before *)
(* and is asked for no label that it was not asked for before.               *)
Quiet(j, k) ==
  /\ k.pc \in Taking => j.pc \in Taking /\ k.item = j.item /\ k.text = j.text /\ k.vis = j.vis
  /\ \A c \in Contents : JobAsks(k, c) => JobAsks(j, c) /\ k.vis = j.vis

LEMMA QuietPlain ==
  ASSUME NEW j, NEW k, k.pc \notin Taking,
         (k.phase = 0 /\ k.pc \notin Asking) \/ k.phase \in 1..LastStage
  PROVE  Quiet(j, k)
BY DEF Quiet, JobAsks

LEMMA QuietOn ==
  ASSUME NEW j, NEW k, k.phase = j.phase, k.item = j.item, k.todo = j.todo, k.vis = j.vis,
         k.pc \in Asking => j.pc \in Asking,
         k.pc \in Taking => j.pc \in Taking /\ k.text = j.text
  PROVE  Quiet(j, k)
BY DEF Quiet, JobAsks

LEMMA QuietDone ==
  ASSUME TypeInv, NEW a \in Actors, Done(a) \/ Fail(a)
  PROVE  \E k : Become(a, k) /\ Quiet(job[a], k)
<1> DEFINE j == job[a]
<1>1. CASE Become(a, Idle)
  BY <1>1, QuietPlain DEF Idle, Asking
<1>2. ASSUME NEW pc \in {"next", "markFailed"}, NEW k, j.phase # 0, k.pc = pc, k.phase = j.phase,
             k.todo = j.todo, k.item = None \/ k.item = j.item, j.phase = OfAttachments => k.vis = j.vis
      PROVE  Quiet(j, k)
  BY <1>2 DEF Quiet, JobAsks
<1>3. CASE j.phase # 0 /\ Become(a, Rest(a, "next"))
  <2>1. Rest(a, "next").item = None
    BY DEF Rest, Idle
  <2>2. Quiet(j, Rest(a, "next"))
    BY <1>2, <1>3, <2>1, RestFields
  <2> QED BY <1>3, <2>2
<1>4. CASE j.phase # 0 /\ Become(a, [Rest(a, "markFailed") EXCEPT !.item = job[a].item])
  <2> PICK k : k = [Rest(a, "markFailed") EXCEPT !.item = job[a].item]
    OBVIOUS
  <2>1. /\ k.pc = "markFailed" /\ k.phase = j.phase /\ k.todo = j.todo /\ k.item = j.item
        /\ j.phase = OfAttachments => k.vis = j.vis
    BY RestFields
  <2>2. Quiet(j, k)
    BY <1>2, <1>4, <2>1
  <2> QED BY <1>4, <2>2
<1> QED BY <1>1, <1>3, <1>4 DEF Done, Fail

LEMMA QuietForgets ==
  ASSUME TypeInv, Undisturbed, NEW a \in Actors, NEW k, Become(a, k), Quiet(job[a], k)
  PROVE  Mirrored!Forget
<1>1. AskedNow = JobAsked(job[a]) /\ AskedNow' = JobAsked(k)
  BY TakenIs, TakenBecomes
<1> PICK S : S = {c \in Contents : ~JobAsks(k, c)}
  OBVIOUS
<1>2. JobAsked(k) = [c \in Contents |-> IF c \in S THEN None ELSE JobAsked(job[a])[c]]
  BY DEF JobAsked, Quiet
<1> QED BY <1>1, <1>2 DEF Mirrored!Forget

LEMMA QuietRefines ==
  ASSUME TypeInv, Undisturbed, Aligned, NoteNow' = NoteNow, ShownNow' = ShownNow,
         NEW a \in Actors, NEW k, Become(a, k), Quiet(job[a], k)
  PROVE  [Mirrored!Next]_(Mirrored!mirrorVars)
<1> DEFINE j == job[a]
<1> PICK x : x = j.item.of
  OBVIOUS
<1>1. TakenNow = JobTaken(j) /\ TakenNow' = JobTaken(k) /\ AskedNow = JobAsked(j) /\ AskedNow' = JobAsked(k)
  BY TakenIs, TakenBecomes
<1>2. CASE j.pc \notin Taking
  <2>1. TakenNow' = TakenNow
    BY <1>1, <1>2, NothingTaken DEF Quiet
  <2>2. Mirrored!PassOver
    BY <2>1, QuietForgets DEF Mirrored!PassOver
  <2> QED BY <2>2 DEF Mirrored!Next
<1>3. CASE j.pc \in Taking
  <2>1. x \in Contents
    BY <1>3, Here DEF Cur
  <2>2. \A c \in Contents : ~JobAsks(j, c)
    BY <1>3, AlignedHere DEF JobStaged, Resolved, JobAsks, Asking
  <2>3. AskedNow' = AskedNow
    BY <1>1, <2>2 DEF Quiet, JobAsked
  <2>4. CASE k.pc \in Taking
    <3>1. TakenNow' = TakenNow
      BY <1>1, <2>4 DEF Quiet, JobTaken, JobTakes
    <3> QED BY <2>3, <3>1 DEF Mirrored!mirrorVars
  <2>5. CASE k.pc \notin Taking
    <3>1. TakenNow' = [TakenNow EXCEPT ![x] = None]
      BY <1>1, <2>5 DEF JobTaken, JobTakes
    <3> QED BY <2>1, <2>3, <3>1 DEF Mirrored!Next, Mirrored!Leave
  <2> QED BY <2>4, <2>5
<1> QED BY <1>2, <1>3

(* What every goroutine's step is that neither takes a content up nor        *)
(* changes what readers see.                                                 *)
LEMMA QuietSteps ==
  ASSUME TypeInv, Undisturbed, Tidy, Aligned, NEW a \in Actors,
         \/ EnsureRead(a) \/ EnsureInsert(a) \/ Gate(a) \/ Resolve(a) \/ ReadState(a)
         \/ MarkSkipped(a) \/ Parse(a) \/ CreateRow(a) \/ Reread(a) \/ MarkSynced(a)
         \/ UpdateHash(a) \/ DeleteRead(a) \/ DeleteRow(a) \/ VisibilityRead(a)
         \/ ListAttachments(a) \/ List(a) \/ NextItem(a) \/ ResetRow(a) \/ MarkFailed(a)
         \/ StartBatch(a)
  PROVE  \E k : Become(a, k) /\ Quiet(job[a], k)
<1> DEFINE j == job[a]
           Goes == \E k : Become(a, k) /\ Quiet(job[a], k)
<1> SUFFICES Goes
  OBVIOUS
<1>1. j \in Job /\ JobTidy(j) /\ JobStaged(j)
  BY Here, TidyHere, AlignedHere
<1>2. CASE Done(a) \/ Fail(a)
  BY <1>2, QuietDone
<1>3. ASSUME NEW pc, pc \in Asking => j.pc \in Asking, pc \notin Taking, Goto(a, pc) PROVE Goes
  <2> PICK k : k = [j EXCEPT !.pc = pc]
    OBVIOUS
  <2>1. k.pc = pc /\ k.phase = j.phase /\ k.item = j.item /\ k.todo = j.todo /\ k.vis = j.vis
    BY <1>1 DEF Job
  <2>2. Quiet(j, k)
    BY <1>3, <2>1, QuietOn
  <2> QED BY <1>3, <2>2 DEF Goto
<1>4. CASE Become(a, Idle)
  <2>1. Quiet(j, Idle)
    BY QuietPlain DEF Idle, Asking
  <2> QED BY <1>4, <2>1
<1>5. ASSUME NEW r, NEW pc, Become(a, [j EXCEPT !.snap = r, !.pc = pc]),
             pc \in Asking => j.pc \in Asking, pc \in Taking => j.pc \in Taking
      PROVE  Goes
  <2> PICK k : k = [j EXCEPT !.snap = r, !.pc = pc]
    OBVIOUS
  <2>1. /\ k.pc = pc /\ k.phase = j.phase /\ k.item = j.item /\ k.todo = j.todo
        /\ k.vis = j.vis /\ k.text = j.text
    BY <1>1 DEF Job
  <2>2. Quiet(j, k)
    BY <1>5, <2>1, QuietOn
  <2> QED BY <1>5, <2>2
<1> HIDE DEF Goes
<1>6. CASE EnsureRead(a) \/ EnsureInsert(a)
  BY <1>2, <1>3, <1>6 DEF EnsureRead, EnsureInsert, Ensured, Asking
<1>7. CASE Gate(a)
  <2>1. \/ Become(a, Idle)
        \/ Goto(a, "resolve") \/ Goto(a, "dread") \/ Goto(a, "list")
        \/ j.pc = "vgate" /\ Goto(a, "vread")
    BY <1>7 DEF Gate
  <2> QED BY <1>3, <1>4, <2>1 DEF Asking
<1>8. CASE Resolve(a)
  <2> PICK k : k = [j EXCEPT !.pc = "read", !.ds = Home(Cur(a))]
    OBVIOUS
  <2>1. k.pc = "read" /\ k.phase = j.phase /\ k.item = j.item /\ k.todo = j.todo /\ k.vis = j.vis
    BY <1>1 DEF Job
  <2>2. Quiet(j, k)
    BY <2>1, QuietOn DEF Asking
  <2>3. Done(a) \/ Become(a, k)
    BY <1>8 DEF Resolve
  <2> QED BY <1>2, <2>2, <2>3 DEF Goes
<1>9. CASE ReadState(a)
  <2>1. j.pc = "state"
    BY <1>9 DEF ReadState, At
  <2>2. \/ Done(a) \/ Fail(a)
        \/ \E r : \E pc \in {"skip", "unindex", "upload"} : Become(a, [j EXCEPT !.snap = r, !.pc = pc])
    BY <1>9 DEF ReadState
  <2> QED BY <1>2, <1>5, <2>1, <2>2 DEF Asking
<1>10. CASE MarkSkipped(a) \/ UpdateHash(a) \/ DeleteRow(a) \/ ResetRow(a) \/ MarkFailed(a)
  BY <1>2, <1>10 DEF MarkSkipped, UpdateHash, DeleteRow, ResetRow, MarkFailed
<1>11. CASE Parse(a) \/ CreateRow(a) \/ MarkSynced(a)
  BY <1>2, <1>3, <1>11 DEF Parse, CreateRow, MarkSynced, Asking
<1>12. CASE Reread(a)
  <2>1. row[Cur(a)] # None
    BY <1>1, <1>12 DEF JobTidy, Cur, Reread, At
  <2>2. Become(a, [j EXCEPT !.snap = row[Cur(a)], !.pc = "mark"])
    BY <1>12, <2>1, Answers DEF Reread
  <2> QED BY <1>5, <2>2 DEF Asking
<1>13. CASE DeleteRead(a) \/ VisibilityRead(a)
  <2>1. CASE DeleteRead(a)
    <3>1. \/ Done(a)
          \/ Become(a, [j EXCEPT !.snap = row[Cur(a)], !.pc = "ddoc"])
          \/ Become(a, [j EXCEPT !.snap = row[Cur(a)], !.pc = "drow"])
      BY <2>1 DEF DeleteRead
    <3> QED BY <1>2, <1>5, <3>1 DEF Asking
  <2>2. CASE VisibilityRead(a)
    <3>1. j.pc \in Asking
      BY <2>2 DEF VisibilityRead, At, Asking
    <3>2. \/ Done(a) \/ Goto(a, "vlist")
          \/ Become(a, [j EXCEPT !.snap = row[Cur(a)], !.pc = "vupd"])
      BY <2>2 DEF VisibilityRead
    <3> QED BY <1>2, <1>3, <1>5, <3>1, <3>2
  <2> QED BY <1>13, <2>1, <2>2
<1>15. CASE ListAttachments(a)
  <2>1. ASSUME NEW F \in ListedAttachments(Attachments(Cur(a))),
               Become(a, [Idle EXCEPT !.pc = "next", !.phase = OfAttachments, !.vis = job[a].vis,
                                      !.todo = {Ticketed(f) : f \in F}])
        PROVE  Goes
    <3> PICK k : k = [Idle EXCEPT !.pc = "next", !.phase = OfAttachments, !.vis = j.vis,
                                  !.todo = {Ticketed(f) : f \in F}]
      OBVIOUS
    <3>1. /\ k.pc = "next" /\ k.phase = OfAttachments /\ k.vis = j.vis /\ k.item = None
          /\ k.todo = {Ticketed(f) : f \in F}
      BY DEF Idle
    <3>2. \A t \in k.todo : Host(t.of) = Cur(a)
      <4>1. \A f \in F : Host(f) = Cur(a)
        BY ListedAre DEF Attachments, Host
      <4> QED BY <3>1, <4>1 DEF Ticketed
    <3>3. j.phase = 0 /\ j.pc = "vlist" /\ j.item.of = Cur(a)
      BY <1>1, <1>15 DEF ListAttachments, At, JobStaged, Cur
    <3>4. Quiet(j, k)
      BY <3>1, <3>2, <3>3 DEF Quiet, JobAsks, Asking
    <3> QED BY <2>1, <3>4 DEF Goes
  <2> QED BY <1>2, <1>15, <2>1 DEF ListAttachments
<1>16. CASE List(a)
  <2>1. j.phase \in 1..LastStage /\ j.pc = "list"
    BY <1>16, Here DEF List, At, Shape
  <2>2. ASSUME NEW S, Become(a, [j EXCEPT !.todo = S, !.pc = "next"]) PROVE Goes
    <3> PICK k : k = [j EXCEPT !.todo = S, !.pc = "next"]
      OBVIOUS
    <3>1. k.pc = "next" /\ k.phase = j.phase
      BY <1>1 DEF Job
    <3>2. Quiet(j, k)
      BY <2>1, <3>1, QuietPlain
    <3> QED BY <2>2, <3>2 DEF Goes
  <2> QED BY <1>3, <1>16, <2>2 DEF List, Asking
<1>17. CASE NextItem(a)
  <2>0. j.pc = "next" /\ j.phase \in 1..7
    <3>1. j.pc = "next" /\ j.phase \in 0..7
      BY <1>1, <1>17 DEF NextItem, At, Job, Phases
    <3>2. j.phase # 0
      BY <3>1, Here DEF Shape
    <3> QED BY <3>1, <3>2
  <2>1. ASSUME NEW t \in j.todo,
               Become(a, [j EXCEPT !.pc = First(j.phase), !.item = t, !.todo = @ \ {t}])
        PROVE  Goes
    <3> PICK k : k = [j EXCEPT !.pc = First(j.phase), !.item = t, !.todo = @ \ {t}]
      OBVIOUS
    <3>1. /\ k.pc = First(j.phase) /\ k.phase = j.phase /\ k.item = t /\ k.todo = j.todo \ {t}
          /\ k.vis = j.vis
      BY <1>1 DEF Job
    <3>2. First(j.phase) \notin Taking
      BY <2>0 DEF First
    <3>3. Quiet(j, k)
      BY <2>0, <3>1, <3>2 DEF Quiet, JobAsks
    <3> QED BY <2>1, <3>3 DEF Goes
  <2>2. CASE j.phase < LastStage /\ Become(a, [j EXCEPT !.pc = "list", !.phase = @ + 1])
    <3> PICK k : k = [j EXCEPT !.pc = "list", !.phase = @ + 1]
      OBVIOUS
    <3>1. k.pc = "list" /\ k.phase = j.phase + 1
      BY <1>1 DEF Job
    <3>2. k.phase \in 1..LastStage
      BY <2>0, <2>2, <3>1
    <3>3. Quiet(j, k)
      BY <3>1, <3>2, QuietPlain
    <3> QED BY <2>2, <3>3 DEF Goes
  <2> QED BY <1>4, <1>17, <2>1, <2>2 DEF NextItem
<1>18. CASE StartBatch(a)
  <2> PICK k : k = [Idle EXCEPT !.pc = "bgate", !.phase = 1]
    OBVIOUS
  <2>1. k.pc = "bgate" /\ k.phase \in 1..LastStage
    BY DEF Idle
  <2>2. Quiet(j, k)
    BY <2>1, QuietPlain
  <2> QED BY <1>18, <2>2 DEF StartBatch, Goes
<1> QED BY <1>6, <1>7, <1>8, <1>9, <1>10, <1>11, <1>12, <1>13, <1>15, <1>16, <1>17, <1>18

LEMMA QuietShown ==
  ASSUME TypeInv, OneDocument, UNCHANGED <<content, index>>, NEW a \in Actors,
         Parse(a) \/ UNCHANGED uploads
  PROVE  NoteNow' = NoteNow /\ ShownNow' = ShownNow
<1>1. \A i \in index : i \in DOMAIN uploads /\ uploads[i] \in Document
  BY DEF TypeInv, TypeOK
<1>2. \A i \in index : uploads'[i].of = uploads[i].of
        /\ uploads'[i].text = uploads[i].text /\ uploads'[i].vis = uploads[i].vis
  BY <1>1 DEF Parse, Document
<1> QED BY <1>2, ShownStays, NoteStays

(* A content is taken up while it is there. *)
LEMMA TakeRefines ==
  ASSUME TypeInv, Undisturbed, Aligned, OneDocument, NEW a \in Actors, ReadContent(a)
  PROVE  [Mirrored!Next]_(Mirrored!mirrorVars)
<1> DEFINE j == job[a]
<1> PICK x : x = j.item.of
  OBVIOUS
<1>1. j \in Job /\ j.pc = "read" /\ x \in Contents /\ Cur(a) = x /\ content[x] \in Content
  BY Here DEF ReadContent, At, Cur
<1>2. NoteNow' = NoteNow /\ ShownNow' = ShownNow
  <2>1. UNCHANGED <<content, index, uploads>>
    BY DEF ReadContent, OthersUnchanged
  <2> QED BY <2>1, QuietShown
<1>3. CASE Fail(a)
  BY <1>2, <1>3, QuietDone, QuietRefines
<1>4. ASSUME content[x].life # "gone", NEW v \in {None, content[Host(x)].vis},
             Become(a, [j EXCEPT !.pc = "state", !.text = content[x].text, !.vis = v])
      PROVE  Mirrored!Next
  <2> PICK k : k = [j EXCEPT !.pc = "state", !.text = content[x].text, !.vis = v]
    OBVIOUS
  <2>1. /\ k.pc = "state" /\ k.item = j.item /\ k.text = content[x].text /\ k.vis = v
        /\ k.phase = j.phase
    BY <1>1 DEF Job
  <2>2. NoteNow[x].life = "there"
    <3>1. content[x].life # "new"
      BY <1>1, AlignedHere DEF JobCurrent
    <3> QED BY <1>1, <1>4, <3>1, NoteIs DEF Content
  <2>3. TakenNow = [c \in Contents |-> None]
    BY <1>1, TakenIs, NothingTaken
  <2>4. TakenNow' = [TakenNow EXCEPT ![x] = [text |-> NoteNow[x].text, label |-> v]]
    <3>1. JobTaken(k) = [TakenNow EXCEPT ![x] = [text |-> content[x].text, label |-> v]]
      BY <1>1, <2>1, <2>3 DEF JobTaken, JobTakes
    <3> QED BY <1>1, <1>4, <3>1, NoteIs, TakenBecomes
  <2>5. AskedNow' = AskedNow
    <3>1. j.phase \in {0} \cup 1..LastStage
      BY <1>1, AlignedHere DEF JobStaged, Resolved
    <3>2. JobAsked(j) = [c \in Contents |-> None] /\ JobAsked(k) = [c \in Contents |-> None]
      BY <1>1, <2>1, <3>1, NothingAsked DEF Asking
    <3> QED BY <1>4, <3>2, TakenIs, TakenBecomes
  <2>6. v \in {NoteNow[x].label, None}
    BY <1>1, NoteIs
  <2>7. Mirrored!Take(x)
    BY <1>2, <2>2, <2>4, <2>5, <2>6 DEF Mirrored!Take
  <2> QED BY <1>1, <2>7 DEF Mirrored!Next
<1>5. \/ Fail(a)
      \/ /\ content[x].life # "gone"
         /\ \E v \in {None, content[Host(x)].vis} :
              Become(a, [j EXCEPT !.pc = "state", !.text = content[x].text, !.vis = v])
  <2>1. x \notin Files => Host(x) = x
    BY DEF Host
  <2> QED BY <1>1, <2>1 DEF ReadContent
<1> QED BY <1>3, <1>4, <1>5

(* The document that a row names is what readers see of its content. *)
LEMMA LinkedVersion ==
  ASSUME TypeInv, Ownership, Aligned, OneDocument, NEW x \in Contents, Settled(x),
         row[x] # None, row[x].doc # 0
  PROVE  /\ row[x].doc \in index /\ uploads[row[x].doc].of = x
         /\ uploads[row[x].doc].text = row[x].hash /\ row[x].status = "synced"
         /\ Version(x) = [text |-> uploads[row[x].doc].text, label |-> uploads[row[x].doc].vis]
         /\ Version(x) # None
<1>1. row[x].status = "synced"
  BY DEF Aligned, LinkedIsSynced
<1>2. row[x].doc \in index /\ uploads[row[x].doc].text = row[x].hash
  BY <1>1 DEF Settled
<1>3. uploads[row[x].doc].of = x
  BY DEF Ownership, RowsOwned, DocOf
<1>4. Only(x, row[x].doc)
  BY DEF Settled
<1>5. Version(x) = [text |-> uploads[row[x].doc].text, label |-> uploads[row[x].doc].vis]
  BY <1>2, <1>3, <1>4, VersionIs
<1>6. uploads[row[x].doc] \in Document
  BY <1>2 DEF TypeInv, TypeOK
<1>7. Version(x) \in [text: Texts, label: Visibilities \cup {None}]
  BY <1>5, <1>6 DEF Document
<1> QED BY <1>1, <1>2, <1>3, <1>5, <1>7, ConstantsOK

(* A document is deleted when its content is gone, or another text of it is  *)
(* in hand.                                                                  *)
LEMMA HideRefines ==
  ASSUME TypeInv, TypeInv', Ownership, Undisturbed, Tidy, Aligned, OneDocument, NEW a \in Actors,
         DeleteOld(a) \/ DeleteDoc(a)
  PROVE  Mirrored!Next
<1> DEFINE j == job[a]
<1> PICK x : x = j.item.of
  OBVIOUS
<1> PICK k : k = [j EXCEPT !.pc = IF j.pc = "unindex" THEN "upload" ELSE "drow"]
  OBVIOUS
<1>1. /\ j \in Job /\ j.pc \in {"unindex", "ddoc"} /\ x \in Contents
      /\ j.snap \in Row /\ j.snap # None
  BY Here DEF DeleteOld, DeleteDoc, At, Cur, Shape, Job
<1>2. JobTidy(j) /\ Settled(x) /\ JobStaged(j) /\ JobCurrent(j)
  BY <1>1, TidyHere, AlignedHere DEF Handled, Handling
<1>3. row[x] = j.snap
  BY <1>1, <1>2 DEF JobTidy
<1>4. UNCHANGED <<content, row, uploads>> /\ Become(a, k)
  BY DEF DeleteOld, DeleteDoc, At, Goto
<1>5. row[x].doc # 0
  BY <1>1, <1>2, <1>3 DEF JobStaged, Indexed
<1>6. Only(x, row[x].doc) /\ row[x].ds = Home(x) /\ uploads[row[x].doc].ds = Home(x)
  BY <1>1, <1>2, <1>3, <1>5 DEF Settled
<1>7. \E ds : Unindex(row[x].doc, ds) /\ uploads[row[x].doc].ds = ds
  <2>1. CASE DeleteOld(a)
    BY <1>2, <1>3, <1>6, <2>1, Answers DEF DeleteOld, At, JobTidy
  <2>2. CASE DeleteDoc(a)
    BY <1>3, <1>6, <2>2, Answers DEF DeleteDoc, Undisturbed
  <2> QED BY <2>1, <2>2
<1>8. Absent(x)' /\ ElsewhereSame(x)
  BY <1>1, <1>3, <1>4, <1>6, <1>7, UnindexClears
<1>9. index \subseteq DOMAIN uploads /\ index' \subseteq DOMAIN uploads'
  BY DEF TypeInv, TypeOK
<1>10. ASSUME NEW c \in Contents \ {x} PROVE Version(c)' = Version(c)
  BY <1>4, <1>8, <1>9, VersionStays DEF ElsewhereSame
<1>11. ShownNow' = [ShownNow EXCEPT ![x] = None]
  BY <1>1, <1>8, <1>10, NothingShown, ShownBecomes
<1>12. Version(x) # None /\ Version(x).text = row[x].hash /\ row[x].status = "synced"
  BY <1>1, <1>2, <1>3, <1>5, LinkedVersion
<1>13. ShownNow[x] = Version(x)
  BY <1>1 DEF ShownNow
<1>14. TakenNow = JobTaken(j)
  BY TakenIs
<1>15. NoteNow[x].life = "gone" \/ (TakenNow[x] # None /\ ShownNow[x].text # TakenNow[x].text)
  <2>1. CASE j.pc = "ddoc"
    BY <1>1, <1>2, <2>1, NoteIs DEF JobCurrent
  <2>2. CASE j.pc = "unindex"
    <3>1. row[x].hash # j.text
      BY <1>1, <1>2, <1>3, <1>12, <2>2 DEF JobStaged, Unchanged
    <3>2. TakenNow[x] = [text |-> j.text, label |-> j.vis]
      BY <1>1, <1>14, <2>2 DEF JobTaken, JobTakes
    <3>3. TakenNow[x] # None
      <4>1. j.text \in Texts /\ j.vis \in Visibilities \cup {None}
        BY <1>1, <2>2, Here DEF Shape, TextRead, Resolved, Job
      <4> QED BY <3>2, <4>1, ConstantsOK
    <3> QED BY <1>12, <1>13, <3>1, <3>2, <3>3
  <2> QED BY <1>1, <2>1, <2>2
<1>16. TakenNow' = TakenNow /\ AskedNow' = AskedNow
  <2>1. /\ k.pc = (IF j.pc = "unindex" THEN "upload" ELSE "drow") /\ k.item = j.item
        /\ k.phase = j.phase /\ k.todo = j.todo /\ k.text = j.text /\ k.vis = j.vis
    BY <1>1 DEF Job
  <2>2. \A c \in Contents : (JobTakes(k, c) <=> JobTakes(j, c)) /\ (JobAsks(k, c) <=> JobAsks(j, c))
    BY <1>1, <2>1 DEF JobTakes, JobAsks, Asking
  <2>3. JobTaken(k) = JobTaken(j) /\ JobAsked(k) = JobAsked(j)
    BY <2>1, <2>2 DEF JobTaken, JobAsked
  <2> QED BY <1>4, <2>3, TakenIs, TakenBecomes
<1>17. Mirrored!Hide(x)
  BY <1>4, <1>11, <1>12, <1>13, <1>15, <1>16, NoteStays DEF Mirrored!Hide
<1> QED BY <1>1, <1>17 DEF Mirrored!Next

(* What is uploaded is what was read of the content when it was taken up. *)
LEMMA ShowRefines ==
  ASSUME TypeInv, TypeInv', Ownership, Undisturbed, Tidy, Aligned, OneDocument, NEW a \in Actors,
         Upload(a)
  PROVE  Mirrored!Next
<1> DEFINE j == job[a]
<1> PICK x : x = j.item.of
  OBVIOUS
<1> PICK d : d = Len(uploads) + 1
  OBVIOUS
<1> PICK k : k = [j EXCEPT !.doc = d, !.pc = "parse"]
  OBVIOUS
<1>1. j \in Job /\ j.pc = "upload" /\ x \in Contents /\ Cur(a) = x
  BY Here DEF Upload, At, Cur
<1>2. Absent(x) /\ JobStaged(j)
  BY <1>1, TidyHere, AlignedHere DEF JobTidy
<1>3. AcceptUpload(a) /\ Become(a, k) /\ UNCHANGED <<content, row>>
  BY Answers DEF Upload
<1>4. k.pc = "parse" /\ k.phase = j.phase
  BY <1>1 DEF Job
<1>5. /\ \A i \in DOMAIN uploads : i # d /\ uploads'[i] = uploads[i]
      /\ uploads'[d].of = x /\ uploads'[d].text = j.text /\ uploads'[d].vis = j.vis
      /\ index' = index \cup {d}
  BY <1>1, <1>3 DEF AcceptUpload, TypeInv, TypeOK
<1>6. index \subseteq DOMAIN uploads
  BY DEF TypeInv, TypeOK
<1>7. Only(x, d)'
  BY <1>2, <1>5, <1>6 DEF Only, Absent
<1>8. ASSUME NEW c \in Contents \ {x} PROVE Version(c)' = Version(c)
  BY <1>5, <1>6, VersionStays
<1>9. Version(x)' = [text |-> j.text, label |-> j.vis]
  BY <1>5, <1>7, VersionBecomes
<1>10. ShownNow' = [ShownNow EXCEPT ![x] = [text |-> j.text, label |-> j.vis]]
  BY <1>1, <1>8, <1>9, ShownBecomes
<1>11. ShownNow[x] = None
  BY <1>1, <1>2, NothingShown DEF ShownNow
<1>12. TakenNow = [[c \in Contents |-> None] EXCEPT ![x] = [text |-> j.text, label |-> j.vis]]
  <2>1. JobTaken(j) = [[c \in Contents |-> None] EXCEPT ![x] = [text |-> j.text, label |-> j.vis]]
    BY <1>1 DEF JobTaken, JobTakes
  <2> QED BY <2>1, TakenIs
<1>13. TakenNow[x] = [text |-> j.text, label |-> j.vis] /\ TakenNow[x] # None
  <2>1. j.text \in Texts /\ j.vis \in Visibilities \cup {None}
    BY <1>1, Here DEF Shape, TextRead, Resolved, Job
  <2>2. TakenNow[x] = [text |-> j.text, label |-> j.vis]
    BY <1>1, <1>12
  <2> QED BY <2>1, <2>2, ConstantsOK
<1>14. TakenNow' = [TakenNow EXCEPT ![x] = None]
  <2>1. TakenNow' = [c \in Contents |-> None]
    BY <1>3, <1>4, TakenBecomes, NothingTaken
  <2> QED BY <1>12, <2>1
<1>15. AskedNow' = AskedNow
  <2>1. j.phase \in {0} \cup 1..LastStage
    BY <1>1, <1>2 DEF JobStaged, Resolved
  <2>2. JobAsked(j) = [c \in Contents |-> None] /\ JobAsked(k) = [c \in Contents |-> None]
    BY <1>1, <1>4, <2>1, NothingAsked DEF Asking
  <2> QED BY <1>3, <2>2, TakenIs, TakenBecomes
<1>16. Mirrored!Show(x)
  BY <1>3, <1>10, <1>11, <1>13, <1>14, <1>15, NoteStays DEF Mirrored!Show
<1> QED BY <1>1, <1>16 DEF Mirrored!Next

(* The label a document is given is the one that was asked for. *)
LEMMA RelabelRefines ==
  ASSUME TypeInv, TypeInv', Ownership, Undisturbed, Tidy, Aligned, OneDocument, NEW a \in Actors,
         VisibilityUpdate(a)
  PROVE  [Mirrored!Next]_(Mirrored!mirrorVars)
<1> DEFINE j == job[a]
<1> PICK x : x = j.item.of
  OBVIOUS
<1> PICK d : d = j.snap.doc
  OBVIOUS
<1>1. j \in Job /\ j.pc = "vupd" /\ x \in Contents /\ j.snap # None
  BY Here DEF VisibilityUpdate, At, Cur, Shape
<1>2. Settled(x) /\ JobStaged(j) /\ JobCurrent(j)
  BY <1>1, TidyHere, AlignedHere DEF Handled, Handling
<1>3. row[x] = j.snap /\ row[x] # None /\ row[x].doc = d /\ d # 0 /\ j.vis # None
  BY <1>1, <1>2 DEF JobStaged, JobCurrent, Relabelable, Indexed
<1>4. d \in index /\ uploads[d].of = x /\ Version(x) # None
      /\ Version(x) = [text |-> uploads[d].text, label |-> uploads[d].vis]
  BY <1>1, <1>2, <1>3, LinkedVersion
<1>5. uploads' = [uploads EXCEPT ![d].vis = j.vis] /\ UNCHANGED <<content, row, index>>
  BY <1>4, Answers DEF VisibilityUpdate
<1>6. \A i \in index : i \in DOMAIN uploads /\ uploads[i] \in Document
  BY DEF TypeInv, TypeOK
<1>7. /\ \A i \in index : uploads'[i].of = uploads[i].of /\ uploads'[i].text = uploads[i].text
      /\ \A i \in index \ {d} : uploads'[i].vis = uploads[i].vis
      /\ uploads'[d].vis = j.vis
  <2>1. uploads[d] \in Document /\ d \in DOMAIN uploads
    BY <1>4, <1>6
  <2>2. uploads'[d] = [uploads[d] EXCEPT !.vis = j.vis]
    BY <1>5, <2>1
  <2>3. \A i \in index \ {d} : uploads'[i] = uploads[i]
    BY <1>5, <1>6
  <2>4. /\ uploads'[d].of = uploads[d].of /\ uploads'[d].text = uploads[d].text
        /\ uploads'[d].vis = j.vis
    BY <2>1, <2>2 DEF Document
  <2> QED BY <2>3, <2>4
<1>8. ASSUME NEW c \in Contents \ {x} PROVE Version(c)' = Version(c)
  <2>1. /\ \A i \in index' : uploads'[i].of = c => i \in index /\ uploads[i].of = c
        /\ \A i \in index : uploads[i].of = c => i \in index' /\ uploads'[i].of = c
    BY <1>5, <1>7
  <2>2. \A i \in index : uploads[i].of = c =>
          uploads'[i].text = uploads[i].text /\ uploads'[i].vis = uploads[i].vis
    BY <1>4, <1>7
  <2> QED BY <2>1, <2>2, VersionStays
<1>9. Version(x)' = [text |-> uploads[d].text, label |-> j.vis]
  <2>1. Only(x, d)'
    <3>1. Only(x, d)
      BY <1>4 DEF OneDocument, Only
    <3>2. index' = index /\ \A i \in index : uploads'[i].of = uploads[i].of
      BY <1>5, <1>7
    <3> QED BY <3>1, <3>2 DEF Only
  <2>2. Version(x)' = [text |-> uploads'[d].text, label |-> uploads'[d].vis]
    <3>1. d \in index' /\ uploads'[d].of = x
      BY <1>4, <1>5, <1>7
    <3> QED BY <2>1, <3>1, VersionBecomes
  <2> QED BY <1>4, <1>7, <2>2
<1>10. ShownNow' = [ShownNow EXCEPT ![x] = Version(x)']
  BY <1>1, <1>8, ShownBecomes
<1>11. ShownNow[x] = Version(x) /\ x \in DOMAIN ShownNow
  BY <1>1 DEF ShownNow
<1>12. AskedNow[x] = j.vis
  <2>1. JobAsks(j, x)
    <3>1. x \notin Files => Host(x) = x
      BY DEF Host
    <3>2. j.item # None
      BY <1>1, Here DEF Shape
    <3> QED BY <1>1, <1>2, <3>1, <3>2 DEF JobStaged, JobAsks, Asking
  <2> QED BY <1>1, <2>1, TakenIs DEF JobAsked
<1>13. ShownNow' = [ShownNow EXCEPT ![x].label = AskedNow[x]]
  <2>1. [ShownNow[x] EXCEPT !.label = AskedNow[x]] = [text |-> uploads[d].text, label |-> j.vis]
    <3>1. ShownNow[x] = [text |-> uploads[d].text, label |-> uploads[d].vis]
      BY <1>4, <1>11
    <3> QED BY <1>12, <3>1
  <2> QED BY <1>9, <1>10, <2>1
<1>14. PICK k : Become(a, k) /\ Quiet(j, k)
  <2>1. CASE Done(a)
    BY <2>1, QuietDone
  <2>2. CASE Goto(a, "vlist")
    <3> PICK k : k = [j EXCEPT !.pc = "vlist"]
      OBVIOUS
    <3>1. k.pc = "vlist" /\ k.phase = j.phase /\ k.item = j.item /\ k.todo = j.todo /\ k.vis = j.vis
      BY <1>1 DEF Job
    <3>2. Quiet(j, k)
      BY <1>1, <3>1, QuietOn DEF Asking
    <3> QED BY <2>2, <3>2 DEF Goto
  <2> QED BY <2>1, <2>2 DEF VisibilityUpdate
<1>15. Mirrored!Forget
  BY <1>14, QuietForgets
<1>16. TakenNow' = TakenNow
  BY <1>1, <1>14, TakenIs, TakenBecomes, NothingTaken DEF Quiet
<1>17. Mirrored!Relabel(x)
  BY <1>3, <1>4, <1>5, <1>11, <1>12, <1>13, <1>15, <1>16, NoteStays DEF Mirrored!Relabel
<1> QED BY <1>1, <1>17 DEF Mirrored!Next

(* Whatever users do, a content comes once, goes once and is edited between. *)
LEMMA WriteRefines ==
  ASSUME TypeInv, TypeInv', Undisturbed, Aligned, OneDocument, User
  PROVE  Mirrored!Next
<1>1. UNCHANGED <<uploads, index>>
  BY UserTouches
<1>2. ShownNow' = ShownNow
  BY <1>1, ShownStays
<1>3. \A c \in Contents : content[c] \in Content /\ content'[c] \in Content /\ Host(c) \in Contents
  BY ConstantsOK DEF TypeInv, TypeOK, Host
<1>4. NoteNow' \in [Contents -> [life: {"new", "there", "gone"}, text: Texts, label: Visibilities]]
  <2>1. \A c \in Contents : /\ content'[c].life \in {"new", "loose", "live", "gone"}
                            /\ content'[c].text \in Texts /\ content'[Host(c)].vis \in Visibilities
    BY <1>3 DEF Content
  <2> QED BY <2>1 DEF NoteNow, Host
<1>5. ASSUME NEW c \in Contents PROVE Mirrored!Evolves(NoteNow[c], NoteNow'[c])
  <2> DEFINE Life(l) == IF l \in {"loose", "live"} THEN "there" ELSE l
  <2>1. /\ NoteNow[c].life = Life(content[c].life) /\ NoteNow[c].text = content[c].text
        /\ NoteNow'[c].life = Life(content'[c].life) /\ NoteNow'[c].text = content'[c].text
    BY DEF NoteNow
  <2>2. /\ content[c].life \in {"new", "loose", "live", "gone"}
        /\ content'[c].life \in {"new", "loose", "live", "gone"}
    BY <1>3 DEF Content
  <2> QED BY <2>1, <2>2, UserWrites DEF Mirrored!Evolves
<1>6. /\ TakenNow' = TakenNow
      /\ AskedNow' \in [Contents -> Visibilities \cup {None}]
      /\ \A c \in Contents : AskedNow'[c] \in {AskedNow[c], NoteNow'[c].label}
  <2>1. CASE UNCHANGED job
    BY <2>1, TakenStays, AskedType
  <2>2. CASE ~UNCHANGED job
    <3>1. PICK a \in Actors, pc \in {"ensure", "vgate", "dgate"}, y \in Contents : \E vis :
            Launch(a, pc, y, vis) /\ (pc = "vgate" => vis = content'[y].vis)
      BY <2>2, UserAnnounces
    <3>2. PICK vis : Launch(a, pc, y, vis) /\ (pc = "vgate" => vis = content'[y].vis)
      BY <3>1
    <3>3. PICK k : k = [Idle EXCEPT !.pc = pc, !.item = Ticketed(y), !.vis = vis]
      OBVIOUS
    <3>4. k.pc = pc /\ k.phase = 0 /\ k.item.of = y /\ k.vis = vis
      BY <3>3 DEF Idle, Ticketed
    <3>5. Become(a, k) /\ job[a].pc = "idle" /\ job[a].phase = 0
      BY <3>2, <3>3, AlignedHere DEF Launch, At, JobStaged
    <3>6. TakenNow = JobTaken(job[a]) /\ AskedNow = JobAsked(job[a])
          /\ TakenNow' = JobTaken(k) /\ AskedNow' = JobAsked(k)
      BY <3>5, TakenIs, TakenBecomes
    <3>7. TakenNow' = TakenNow
      BY <3>4, <3>5, <3>6, NothingTaken
    <3>8. AskedNow = [c \in Contents |-> None]
      BY <3>5, <3>6, NothingAsked DEF Asking
    <3>9. ASSUME NEW c \in Contents
          PROVE  \/ AskedNow'[c] = None
                 \/ AskedNow'[c] = NoteNow'[c].label /\ AskedNow'[c] \in Visibilities
      <4>1. CASE pc = "vgate" /\ y = Host(c)
        <5>1. AskedNow'[c] = content'[Host(c)].vis
          BY <3>2, <3>4, <3>6, <4>1 DEF JobAsked, JobAsks, Asking
        <5>2. NoteNow'[c].label = content'[Host(c)].vis
          BY DEF NoteNow, Host
        <5> QED BY <1>3, <5>1, <5>2 DEF Content
      <4>2. CASE ~(pc = "vgate" /\ y = Host(c))
        <5>1. ~JobAsks(k, c)
          BY <3>4, <4>2 DEF JobAsks, Asking
        <5> QED BY <3>6, <5>1 DEF JobAsked
      <4> QED BY <4>1, <4>2
    <3>10. AskedNow' \in [Contents -> Visibilities \cup {None}]
      BY <3>9 DEF AskedNow
    <3> QED BY <3>7, <3>8, <3>9, <3>10
  <2> QED BY <2>1, <2>2
<1> QED BY <1>2, <1>4, <1>5, <1>6 DEF Mirrored!Next, Mirrored!Write

LEMMA StepRefines ==
  Undisturbed /\ TypeInv /\ TypeInv' /\ Ownership /\ Tidy /\ Aligned /\ [Next]_vars
    => [Mirrored!Next]_(Mirrored!mirrorVars)
<1> SUFFICES ASSUME Undisturbed, TypeInv, TypeInv', Ownership, Tidy, Aligned, [Next]_vars
             PROVE  [Mirrored!Next]_(Mirrored!mirrorVars)
  OBVIOUS
<1>1. OneDocument
  BY TidyMeans
<1>2. ASSUME NEW a \in Actors,
             \/ EnsureRead(a) \/ EnsureInsert(a) \/ Gate(a) \/ Resolve(a) \/ ReadState(a)
             \/ MarkSkipped(a) \/ Parse(a) \/ CreateRow(a) \/ Reread(a) \/ MarkSynced(a)
             \/ UpdateHash(a) \/ DeleteRead(a) \/ DeleteRow(a) \/ VisibilityRead(a)
             \/ ListAttachments(a) \/ List(a) \/ NextItem(a) \/ ResetRow(a) \/ MarkFailed(a)
             \/ StartBatch(a)
      PROVE  [Mirrored!Next]_(Mirrored!mirrorVars)
  <2>1. UNCHANGED <<content, index>> /\ (Parse(a) \/ UNCHANGED uploads)
    BY <1>2 DEF EnsureRead, EnsureInsert, Gate, Resolve, ReadState, MarkSkipped, Parse, CreateRow,
       Reread, MarkSynced, UpdateHash, DeleteRead, DeleteRow, VisibilityRead, ListAttachments, List,
       NextItem, ResetRow, MarkFailed, StartBatch, OthersUnchanged
  <2>2. NoteNow' = NoteNow /\ ShownNow' = ShownNow
    BY <1>1, <2>1, QuietShown
  <2>3. PICK k : Become(a, k) /\ Quiet(job[a], k)
    BY <1>2, QuietSteps
  <2> QED BY <2>2, <2>3, QuietRefines
<1>3. ASSUME NEW a \in Actors, Step(a) \/ StartBatch(a)
      PROVE  [Mirrored!Next]_(Mirrored!mirrorVars)
  BY <1>1, <1>2, <1>3, TakeRefines, HideRefines, ShowRefines, RelabelRefines DEF Step
<1>4. CASE User
  BY <1>1, <1>4, WriteRefines
<1>5. CASE Crash
  BY <1>5, Answers DEF Crash
<1>6. CASE Restart \/ UNCHANGED vars
  <2>1. UNCHANGED <<content, uploads, index, job>>
    BY <1>6 DEF Restart, vars
  <2>2. NoteNow' = NoteNow /\ ShownNow' = ShownNow
    BY <1>1, <2>1, ShownStays, NoteStays
  <2>3. TakenNow' = TakenNow /\ AskedNow' = AskedNow
    BY <2>1, TakenStays
  <2> QED BY <2>2, <2>3 DEF Mirrored!mirrorVars
<1> QED BY <1>3, <1>4, <1>5, <1>6 DEF Next

(* While one goroutine works at a time and nothing fails, the syncers        *)
(* implement Mirror, although users may write, announced when that goroutine *)
(* is done and silently between any two of its steps: SyncMemo and           *)
(* DeleteMemoFromRAGFlow (and their twins for attachments) take a document   *)
(* away only when its content is gone or another text of it was read, upload *)
(* what was read of a content that was there, and VisibilityUpdateHandler    *)
(* sets only a label that a change of the memo announced.                    *)
THEOREM IndexMirrorsContents ==
  ASSUME Undisturbed
  PROVE  Spec => ImplementsMirror
BY InitType, NextType, InitOwned, NextOwned, InitTidy, NextTidy, InitAligned, NextAligned,
   InitRefines, StepRefines, PTL DEF Spec, ImplementsMirror, Mirrored!Spec
=============================================================================
