----------------------------- MODULE MemoGraph -----------------------------
(***************************************************************************)
(* What hangs on a memo: its comments, its references to other memos and   *)
(* its attachments (memo_service.go, memo_relation_service.go,             *)
(* memo_attachment_service.go, attachment_service.go, tools_memo.go,       *)
(* store/memo.go).                                                         *)
(*                                                                         *)
(* Foreign keys are off and no handler uses a transaction: each is a list  *)
(* of statements, any of which may be its last. A request is modelled as   *)
(* the statements it still has to carry out; one that reads a list puts    *)
(* what has to be done about it in its own place.                          *)
(***************************************************************************)
EXTENDS Naturals, Sequences, FiniteSets

CONSTANTS
  Procs,        \* bound: requests at a time
  Alone,        \* do requests that make links run with no other beside them
  MaxMemos,     \* bound: memos ever made
  Attachments,  \* bound: uids of attachments
  ListLimit,    \* the limit ListAttachments sets where a caller sets none
  FaultKinds,   \* what may go wrong: "db", "crash"
  MaxFaults,    \* bound: how often something goes wrong
  None          \* no such attachment

ASSUME ConstantsOK ==
  /\ Alone \in BOOLEAN /\ MaxMemos \in Nat /\ ListLimit \in Nat \ {0}
  /\ MaxFaults \in Nat /\ None \notin Nat

VARIABLES
  memos,      \* ids in the memo table
  made,       \* memos made so far; their ids are 1..made (AUTOINCREMENT)
  relations,  \* the memo_relation table
  owner,      \* memo_id of each attachment, 0 for none; None without a row
  job,        \* what each request still has to do, and whether it makes links
  under,      \* history: the memo each memo was made a comment of, 0 for none,
              \* None if that was a comment itself
  whole,      \* history: no request broke off
  faults

vars == <<memos, made, relations, owner, job, under, whole, faults>>

Ids == 1..MaxMemos
Loose == 0
Kinds == {"COMMENT", "REFERENCE"}

(* memo: the memo a statement is about; on: the contents it has to be carried *)
(* out for, one after the other.                                             *)
Statement == [do: {"insert", "upload", "listed", "attach", "unrefer", "refer", "comment",
                   "comments", "from", "to", "attachments", "remove", "row"},
              memo: Nat, on: SUBSET (Nat \cup Attachments)]
Idle == [todo |-> <<>>, links |-> FALSE]

Init ==
  /\ memos = {} /\ made = 0 /\ relations = {} /\ owner = [a \in Attachments |-> None]
  /\ job = [p \in Procs |-> Idle] /\ under = [m \in Ids |-> 0]
  /\ whole = TRUE /\ faults = 0

-----------------------------------------------------------------------------
Busy(p) == job[p].todo # <<>>
AllIdle == \A p \in Procs : ~Busy(p)
Now(p) == Head(job[p].todo)
At(p, do) == Busy(p) /\ Now(p).do = do
Rest(p) == Tail(job[p].todo)

Do(do, m, on) == [do |-> do, memo |-> m, on |-> on]
If(on, todo) == IF on = {} THEN <<>> ELSE todo

Continue(p, todo) ==
  job' = [job EXCEPT ![p] = IF todo = <<>> THEN Idle ELSE [@ EXCEPT !.todo = todo]]
GoOn(p) == Continue(p, Rest(p))
(* An error, or a panic the interceptor recovers from, ends the request. *)
BreakOff(p) == Continue(p, <<>>) /\ whole' = FALSE

(* The statement is done for x; it comes again for the others. *)
Others(p, x) ==
  LET on == Now(p).on \ {x} IN If(on, <<[Now(p) EXCEPT !.on = on]>>) \o Rest(p)

Begin(p, links, todo) ==
  /\ ~Busy(p) /\ todo # <<>>
  /\ Alone => AllIdle \/ ~(links \/ \E q \in Procs : job[q].links)
  /\ job' = [job EXCEPT ![p] = [todo |-> todo, links |-> links]]
  /\ UNCHANGED <<memos, relations, owner, whole, faults>>

-----------------------------------------------------------------------------
(* Requests *)

(* The memo named by uid exists when the handler looks it up; what else it   *)
(* names, a client may have made up.                                         *)
SetMemoAttachments(m, as) == <<Do("listed", m, as)>> \o If(as, <<Do("attach", m, as)>>)
SetMemoRelations(m, ms) == <<Do("unrefer", m, {})>> \o If(ms \ {m}, <<Do("refer", m, ms \ {m})>>)

New == made + 1
CreateMemoBody(as, ms) ==
  <<Do("insert", New, {})>>
    \o If(as, SetMemoAttachments(New, as)) \o If(ms, SetMemoRelations(New, ms))

CreateMemo(p) ==
  /\ made < MaxMemos /\ made' = New
  /\ \E as \in SUBSET Attachments, ms \in SUBSET (1..made) :
       Begin(p, TRUE, CreateMemoBody(as, ms))
  /\ UNCHANGED under

CreateMemoComment(p, m) ==
  /\ m \in memos /\ made < MaxMemos /\ made' = New
  /\ \E as \in SUBSET Attachments, ms \in SUBSET (1..made) :
       Begin(p, TRUE, CreateMemoBody(as, ms) \o <<Do("comment", New, {m})>>)
  /\ UNCHANGED under

(* UpdateMemo as well, which sets what its mask names. *)
SetMemo(p, m) ==
  /\ m \in memos
  /\ \/ \E as \in SUBSET Attachments : Begin(p, TRUE, SetMemoAttachments(m, as))
     \/ \E ms \in SUBSET (1..made) : Begin(p, TRUE, SetMemoRelations(m, ms))
  /\ UNCHANGED <<made, under>>

CreateAttachment(p, a, m) ==
  /\ owner[a] = None /\ m \in memos \cup {Loose}
  /\ Begin(p, TRUE, <<Do("upload", m, {a})>>)
  /\ UNCHANGED <<made, under>>

DeleteAttachment(p, a) ==
  /\ owner[a] # None /\ Begin(p, FALSE, <<Do("remove", 0, {a})>>)
  /\ UNCHANGED <<made, under>>

(* store.DeleteMemo: the row goes last. *)
RowFirst(m) ==
  <<Do("row", m, {}), Do("from", m, {}), Do("to", m, {}), Do("attachments", m, {})>>
StoreDeleteMemo(m) ==
  <<Do("from", m, {}), Do("to", m, {}), Do("attachments", m, {}), Do("row", m, {})>>

CommentsLast(m) == StoreDeleteMemo(m) \o <<Do("comments", m, {})>>
WithComments(m) == <<Do("comments", m, {})>> \o StoreDeleteMemo(m)

DeleteMemo(p, m) ==
  /\ m \in memos /\ Begin(p, FALSE, WithComments(m))
  /\ UNCHANGED <<made, under>>

(* The delete_memo tool leaves comments behind, as memos of their own. *)
DeleteMemoByMCP(p, m) ==
  /\ m \in memos /\ Begin(p, FALSE, StoreDeleteMemo(m))
  /\ under' = [c \in Ids |-> IF under[c] = m THEN 0 ELSE under[c]]
  /\ UNCHANGED made

-----------------------------------------------------------------------------
(* Statements *)

Min(x, y) == IF x < y THEN x ELSE y

(* ListAttachments returns up to ListLimit of the attachments of a memo. *)
Listings(m) ==
  LET own == {a \in Attachments : owner[a] = m}
  IN {L \in SUBSET own : Cardinality(L) = Min(ListLimit, Cardinality(own))}

InsertMemo(p) ==
  /\ At(p, "insert") /\ memos' = memos \cup {Now(p).memo} /\ GoOn(p)
  /\ UNCHANGED <<made, relations, owner, under, whole, faults>>

InsertAttachment(p) == \E a \in Now(p).on :
  /\ At(p, "upload")
  /\ \/ owner[a] = None /\ owner' = [owner EXCEPT ![a] = Now(p).memo] /\ GoOn(p) /\ UNCHANGED whole
     \/ owner[a] # None /\ UNCHANGED owner /\ BreakOff(p)
  /\ UNCHANGED <<memos, made, relations, under, faults>>

(* What the memo has and the new list does not name is to be removed. *)
ListForUpdate(p) == \E L \in Listings(Now(p).memo) :
  /\ At(p, "listed")
  /\ Continue(p, If(L \ Now(p).on, <<Do("remove", 0, L \ Now(p).on)>>) \o Rest(p))
  /\ UNCHANGED <<memos, made, relations, owner, under, whole, faults>>

(* An attachment may be taken from another memo. *)
UpdateAttachment(p) == \E a \in Now(p).on :
  /\ At(p, "attach")
  /\ \/ /\ owner[a] # None /\ owner' = [owner EXCEPT ![a] = Now(p).memo]
        /\ Continue(p, Others(p, a)) /\ UNCHANGED whole
     \/ owner[a] = None /\ UNCHANGED owner /\ BreakOff(p)
  /\ UNCHANGED <<memos, made, relations, under, faults>>

DeleteReferences(p) ==
  /\ At(p, "unrefer")
  /\ relations' = {r \in relations : r[1] # Now(p).memo \/ r[3] # "REFERENCE"}
  /\ GoOn(p)
  /\ UNCHANGED <<memos, made, owner, under, whole, faults>>

(* A related memo that is gone is dereferenced all the same. *)
InsertReference(p) == \E m \in Now(p).on :
  /\ At(p, "refer")
  /\ \/ /\ m \in memos /\ relations' = relations \cup {<<Now(p).memo, m, "REFERENCE">>}
        /\ Continue(p, Others(p, m)) /\ UNCHANGED whole
     \/ m \notin memos /\ UNCHANGED relations /\ BreakOff(p)
  /\ UNCHANGED <<memos, made, owner, under, faults>>

(* The new memo is looked up again, the one it comments on is not. *)
InsertComment(p) == LET c == Now(p).memo IN \E m \in Now(p).on :
  /\ At(p, "comment")
  /\ \/ /\ c \in memos /\ relations' = relations \cup {<<c, m, "COMMENT">>}
        /\ under' = [under EXCEPT ![c] = IF under[m] = 0 THEN m ELSE None]
        /\ GoOn(p) /\ UNCHANGED whole
     \/ c \notin memos /\ UNCHANGED <<relations, under>> /\ BreakOff(p)
  /\ UNCHANGED <<memos, made, owner, faults>>

(* DeleteMemo's loop: each comment is deleted as listed, first to last. *)
Comments(m) == {r[1] : r \in {q \in relations : q[2] = m /\ q[3] = "COMMENT"}}

ListComments(p) == LET cs == Comments(Now(p).memo) IN
  /\ At(p, "comments") /\ Now(p).on = {}
  /\ Continue(p, If(cs, <<[Now(p) EXCEPT !.on = cs]>>) \o Rest(p))
  /\ UNCHANGED <<memos, made, relations, owner, under, whole, faults>>

DeleteComment(p) == \E c \in Now(p).on :
  /\ At(p, "comments") /\ Continue(p, StoreDeleteMemo(c) \o Others(p, c))
  /\ UNCHANGED <<memos, made, relations, owner, under, whole, faults>>

DeleteRelations(p) == LET m == Now(p).memo IN
  /\ \/ At(p, "from") /\ relations' = {r \in relations : r[1] # m}
     \/ At(p, "to") /\ relations' = {r \in relations : r[2] # m}
  /\ GoOn(p)
  /\ UNCHANGED <<memos, made, owner, under, whole, faults>>

ListForDelete(p) == \E L \in Listings(Now(p).memo) :
  /\ At(p, "attachments")
  /\ Continue(p, If(L, <<Do("remove", 0, L)>>) \o Rest(p))
  /\ UNCHANGED <<memos, made, relations, owner, under, whole, faults>>

(* store.DeleteAttachment: one that somebody else deleted first is an error. *)
RemoveAttachment(p) == \E a \in Now(p).on :
  /\ At(p, "remove")
  /\ \/ /\ owner[a] # None /\ owner' = [owner EXCEPT ![a] = None]
        /\ Continue(p, Others(p, a)) /\ UNCHANGED whole
     \/ owner[a] = None /\ UNCHANGED owner /\ BreakOff(p)
  /\ UNCHANGED <<memos, made, relations, under, faults>>

DeleteRow(p) ==
  /\ At(p, "row") /\ memos' = memos \ {Now(p).memo} /\ GoOn(p)
  /\ UNCHANGED <<made, relations, owner, under, whole, faults>>

Fault(kind) == kind \in FaultKinds /\ faults < MaxFaults /\ faults' = faults + 1

StatementFails(p) ==
  /\ Busy(p) /\ Fault("db") /\ BreakOff(p)
  /\ UNCHANGED <<memos, made, relations, owner, under>>

Crash ==
  /\ ~AllIdle /\ Fault("crash") /\ job' = [p \in Procs |-> Idle] /\ whole' = FALSE
  /\ UNCHANGED <<memos, made, relations, owner, under>>

-----------------------------------------------------------------------------
Request(p) ==
  \/ CreateMemo(p)
  \/ \E m \in memos :
       CreateMemoComment(p, m) \/ SetMemo(p, m) \/ DeleteMemo(p, m) \/ DeleteMemoByMCP(p, m)
  \/ \E a \in Attachments :
       DeleteAttachment(p, a) \/ \E m \in memos \cup {Loose} : CreateAttachment(p, a, m)

Execute(p) ==
  /\ Busy(p)
  /\ \/ InsertMemo(p) \/ InsertAttachment(p) \/ ListForUpdate(p) \/ UpdateAttachment(p)
     \/ DeleteReferences(p) \/ InsertReference(p) \/ InsertComment(p)
     \/ ListComments(p) \/ DeleteComment(p) \/ DeleteRelations(p)
     \/ ListForDelete(p) \/ RemoveAttachment(p) \/ DeleteRow(p) \/ StatementFails(p)

Next == Crash \/ \E p \in Procs : Request(p) \/ Execute(p)

Spec == Init /\ [][Next]_vars

-----------------------------------------------------------------------------
(* Properties *)

(* Every variable holds what the code can store in it. *)
TypeOK ==
  /\ memos \subseteq 1..made /\ made \in 0..MaxMemos
  /\ relations \subseteq Ids \X Ids \X Kinds
  /\ owner \in [Attachments -> (0..MaxMemos) \cup {None}]
  /\ \A p \in Procs : \A i \in DOMAIN job[p].todo : job[p].todo[i] \in Statement
  /\ under \in [Ids -> (0..MaxMemos) \cup {None}]

(* No relation and no attachment points at a memo that is gone, whichever    *)
(* statement of a deletion was the last, and however deletions overlap       *)
(* (store.DeleteMemo). Foreign keys do not see to it.                        *)
LinksAlive ==
  /\ \A r \in relations : r[1] \in memos /\ r[2] \in memos
  /\ \A a \in Attachments : owner[a] \in memos \cup {Loose, None}

(* A comment does not outlive the memo it was made on, nor does it turn into *)
(* a memo of its own, whatever else was set, deleted or moved between the    *)
(* two (DeleteMemo). Comments on comments do.                                *)
CommentsGo ==
  whole /\ AllIdle =>
    \A c \in memos : under[c] \notin {0, None} => c \in Comments(under[c])

(* A broken-off deletion leaves comments gone, or comments (DeleteMemo).     *)
CommentsStayComments ==
  AllIdle => \A c \in memos : under[c] \in memos => c \in Comments(under[c])
=============================================================================
