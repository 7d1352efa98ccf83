---------------------------- MODULE ContentSync ----------------------------
(***************************************************************************)
(* Synchronisation of memos and attachments with the RAGFlow index         *)
(* (plugin/sync, server/runner/ragflowsync, store/content_sync_state.go).  *)
(*                                                                         *)
(* Three stores are involved and nothing makes a step over two of them     *)
(* atomic: the local contents, the content_sync_state table (one row per   *)
(* content) and the remote index, which the code reaches only by HTTP.     *)
(* Every event spawns a goroutine of its own and batch cycles run beside   *)
(* them; an actor below is one such goroutine, and each of its steps is    *)
(* one query that changes a row, one remote call, or the reads that come   *)
(* before it.                                                              *)
(***************************************************************************)
EXTENDS Naturals, Sequences, FiniteSets

CONSTANTS
  Contents,      \* content_uid values
  Files,         \* the contents that are attachments; the others are memos
  Parseable,     \* the contents RAGFlow can parse: memos, parseable attachments
  Parent,        \* the memo an attachment is uploaded for or a comment is made on
  Homeless,      \* the memos that no notebook is ever given
  Texts,         \* content; a hash is represented by the text it is taken of
  Visibilities, Datasets,
  Actors,        \* bound: goroutines alive at a time
  BatchSize,     \* orchestrator.batchSize, the LIMIT of a batch's queries
  MaxRetries,    \* StateTracker.maxRetries
  ListLimit,     \* how many attachments Store.ListAttachments returns at most
  UserOps,       \* what the users of this instance do
  FaultKinds,    \* what may go wrong in it: "db", "rag", "gate", "crash"
  MaxFaults,     \* bound: how often something goes wrong
  MaxEdits,      \* bound: edits, visibility changes and moves
  BotMayDelete,  \* does RAGFlow let the system bot's key delete a user's document
  None           \* no row, no hash, no dataset

VARIABLES
  content,   \* the memo and attachment tables
  row,       \* content_sync_state, by (content_type, content_uid)
  owners,    \* owners[i]: the content that row id i was given to (AUTOINCREMENT)
  uploads,   \* every document RAGFlow ever accepted; a document's id is its place
  index,     \* ids of the documents RAGFlow still holds
  job,       \* what each goroutine is doing
  proc,      \* the server process
  faults, edits

vars == <<content, row, owners, uploads, index, job, proc, faults, edits>>

(* A goroutine's phase: 0 handles an event, 1 to 6 are the stages of a batch   *)
(* cycle, 7 is the loop of a visibility event over the memo's attachments.     *)
Phases == <<"scanMemos", "scanFiles", "reset", "memos", "files", "retry", "attachments">>
LastStage == 6
OfAttachments == 7

(* twice is history: a second request deleted a content that was gone. *)
Content == [life: {"new", "loose", "live", "gone"}, text: Texts,
            vis: Visibilities, ds: Datasets, twice: BOOLEAN]
Row == [id: Nat \ {0}, of: Contents, status: {"pending", "synced", "failed", "skipped"},
        ds: Datasets \cup {None}, doc: Nat, hash: Texts \cup {None},
        retry: Nat, due: BOOLEAN]
Document == [of: Contents, text: Texts, vis: Visibilities \cup {None}, ds: Datasets,
             parsed: BOOLEAN]

(* What a goroutine has in hand: the content of an event, or a row a batch   *)
(* cycle listed (its id, retry count and hash as they were listed).          *)
Ticket == [of: Contents, id: Nat, retry: Nat, hash: Texts \cup {None}]
PC == {"idle", "ensure", "insert", "gate", "resolve", "read", "state", "skip", "unindex",
       "upload", "parse", "create", "reread", "mark", "hash", "markFailed",
       "dgate", "dread", "ddoc", "drow", "vgate", "vread", "vupd", "vlist",
       "bgate", "list", "next", "reset"}
Job == [pc: PC, phase: 0..Len(Phases), item: Ticket \cup {None}, todo: SUBSET Ticket,
        text: Texts \cup {None}, vis: Visibilities \cup {None}, ds: Datasets \cup {None},
        snap: Row \cup {None}, doc: Nat]

Idle == [pc |-> "idle", phase |-> 0, item |-> None, todo |-> {}, text |-> None,
         vis |-> None, ds |-> None, snap |-> None, doc |-> 0]

ASSUME ConstantsOK ==
  /\ Files \subseteq Contents
  /\ Parent \in [Contents -> (Contents \ Files) \cup {None}]
  /\ \A f \in Files : Parent[f] # None
  /\ Contents \ Files \subseteq Parseable
  /\ Homeless \subseteq Contents \ Files
  /\ BatchSize \in Nat \ {0} /\ MaxRetries \in Nat \ {0} /\ ListLimit \in Nat \ {0}
  /\ MaxFaults \in Nat /\ MaxEdits \in Nat
  /\ BotMayDelete \in BOOLEAN
  /\ None \notin Texts \cup Visibilities \cup Datasets
  /\ None \notin Row /\ None \notin Ticket
  /\ None \notin [text: Texts, label: Visibilities \cup {None}]

(* An attachment has no visibility and no dataset of its own, only its memo's: *)
(* what content[f] says of them is never read, nor a homeless memo's dataset. *)
Init ==
  /\ content \in [Contents -> [life: {"new", "live"}, text: Texts,
                               vis: Visibilities, ds: Datasets, twice: {FALSE}]]
  /\ \A c \in Contents : content[c].life = "live" /\ Parent[c] # None =>
       content[Parent[c]].life = "live"
  /\ \A f \in Files : content[f].vis = content[Parent[f]].vis /\ content[f].ds = content[Parent[f]].ds
  /\ row = [c \in Contents |-> None]
  /\ owners = <<>>
  /\ uploads = <<>>
  /\ index = {}
  /\ job = [a \in Actors |-> Idle]
  /\ proc = "up"
  /\ faults = 0
  /\ edits = 0

-----------------------------------------------------------------------------
(* The environment: what fails, and what a goroutine does after a step.      *)

Fault(kind) == kind \in FaultKinds /\ faults < MaxFaults /\ faults' = faults + 1
NoFault == faults' = faults

At(a, pc) == job[a].pc = pc
Cur(a) == job[a].item.of
OthersUnchanged == UNCHANGED <<content, row, owners, uploads, index, proc, edits>>
Become(a, j) == job' = [job EXCEPT ![a] = j]
Goto(a, pc) == Become(a, [job[a] EXCEPT !.pc = pc])

(* Between two items a goroutine keeps only what is left to do. *)
Rest(a, pc) == [Idle EXCEPT !.pc = pc, !.phase = job[a].phase, !.todo = job[a].todo,
                            !.vis = IF job[a].phase = OfAttachments THEN job[a].vis ELSE None]

(* An event's goroutine ends; a loop goes on to its next item. *)
Done(a) == Become(a, IF job[a].phase = 0 THEN Idle ELSE Rest(a, "next"))

(* SyncMemo or SyncAttachment returned an error: the batch cycle records it  *)
(* in the row, the event's handler only in the circuit breaker.              *)
Fail(a) ==
  Become(a, IF job[a].phase = 0 THEN Idle
            ELSE [Rest(a, "markFailed") EXCEPT !.item = job[a].item])

Ticketed(c) == [of |-> c, id |-> 0, retry |-> 0, hash |-> None]

Launch(a, pc, c, vis) ==
  /\ proc = "up"
  /\ At(a, "idle")
  /\ Become(a, [Idle EXCEPT !.pc = pc, !.item = Ticketed(c), !.vis = vis])

(* Between its commit and its event a handler still queries the database:    *)
(* when that fails it returns early, and the event is never sent.            *)
Spawn(a, pc, c, vis) ==
  \/ NoFault /\ Launch(a, pc, c, vis)
  \/ Fault("db") /\ proc = "up" /\ UNCHANGED job

-----------------------------------------------------------------------------
(* content_sync_state                                                        *)

Rows == {row[c] : c \in Contents} \ {None}
WithStatus(s) == {r \in Rows : r.status = s}

(* INSERT of a pending row under an id that no row ever had (AUTOINCREMENT). *)
NextIdReused == 1 + Cardinality(Rows)
NextId == Len(owners) + 1

InsertRow(c, hash) ==
  /\ owners' = Append(owners, c)
  /\ row' = [row EXCEPT ![c] =
       [id |-> NextId, of |-> c, status |-> "pending", ds |-> None, doc |-> 0,
        hash |-> hash, retry |-> 0, due |-> FALSE]]

(* UPDATE ... WHERE id = ?: a row that is no longer there is no error. *)
UpdateRow(id, New(_)) ==
  /\ row' = [c \in Contents |->
               IF row[c] # None /\ row[c].id = id THEN New(row[c]) ELSE row[c]]
  /\ UNCHANGED owners

(* INSERT ... ON CONFLICT DO UPDATE: an existing row forgets its document. *)
OverwrittenKeepsStatus(r, hash) ==
  [r EXCEPT !.ds = None, !.doc = 0, !.hash = hash, !.retry = 0, !.due = FALSE]
Overwritten(r, hash) ==
  [r EXCEPT !.status = "pending", !.ds = None, !.doc = 0, !.hash = hash, !.retry = 0, !.due = FALSE]

UpsertExisting(c, hash) ==
  IF row[c] = None THEN UNCHANGED <<row, owners>>
  ELSE UpdateRow(row[c].id, LAMBDA r : Overwritten(r, hash))
UpsertPending(c, hash) ==
  IF row[c] = None THEN InsertRow(c, hash)
  ELSE UpdateRow(row[c].id, LAMBDA r : Overwritten(r, hash))

(* The UPDATEs of MarkAsSynced, ResetForResync and MarkAsFailed. Past the    *)
(* last retry the time of the next one is left as it was.                    *)
SyncedKeepsDoc(r, ds, doc) == [r EXCEPT !.status = "synced", !.ds = ds]
Synced(r, ds, doc) == [r EXCEPT !.status = "synced", !.ds = ds, !.doc = doc]

ResetKeepsRetry(r, hash) == [r EXCEPT !.status = "pending", !.hash = hash]
ResetNewHash(r, hash) ==
  [r EXCEPT !.status = "pending", !.hash = content[r.of].text, !.retry = 0]
Reset(r, hash) == [r EXCEPT !.status = "pending", !.hash = hash, !.retry = 0]

Failed(r, retry) ==
  [r EXCEPT !.status = "failed", !.retry = retry + 1, !.due = @ \/ retry + 1 < MaxRetries]

(* ORDER BY created_ts DESC LIMIT BatchSize; ids grow with created_ts. *)
Newest(S) == {r \in S : Cardinality({q \in S : q.id > r.id}) < BatchSize}

(* Store.ListAttachments returns the newest of them: any, since the model    *)
(* does not follow the time of an attachment's last change.                  *)
ListedAttachments(S) ==
  {T \in SUBSET S : Cardinality(T) = ListLimit \/ (T = S /\ Cardinality(T) < ListLimit)}

TicketOf(r) == [of |-> r.of, id |-> r.id, retry |-> r.retry, hash |-> r.hash]

-----------------------------------------------------------------------------
(* What users do. Each operation commits to the content tables and then,    *)
(* mostly, spawns the goroutine of its event.                                *)

Host(c) == IF c \in Files THEN Parent[c] ELSE c
Attachable(c) == Parent[c] # None => content[Parent[c]].life = "live"
Attachments(m) == {f \in Files : Parent[f] = m /\ content[f].life = "live"}
Live(m) == m \notin Files /\ content[m].life = "live"
Present(c) == content[c].life = "live" /\ content[Host(c)].life = "live"

Create(a, c) ==
  /\ "create" \in UserOps /\ content[c].life = "new" /\ Attachable(c)
  /\ content' = [content EXCEPT ![c].life = "live"]
  /\ Spawn(a, "ensure", c, None)
  /\ UNCHANGED <<row, owners, uploads, index, proc, edits>>

(* An attachment uploaded for no memo yet: no event before it has one. *)
UploadLoose(f) ==
  /\ "create" \in UserOps /\ f \in Files /\ content[f].life = "new" /\ proc = "up"
  /\ content' = [content EXCEPT ![f].life = "loose"]
  /\ UNCHANGED <<row, owners, uploads, index, job, proc, faults, edits>>

(* CreateMemo sends the event of an attachment it is saved with, UpdateMemo  *)
(* (SetMemoAttachments) does not.                                            *)
Attach(a, f) ==
  /\ "create" \in UserOps /\ content[f].life = "loose" /\ Attachable(f)
  /\ content' = [content EXCEPT ![f].life = "live"]
  /\ Spawn(a, "ensure", f, None) \/ (proc = "up" /\ NoFault /\ UNCHANGED job)
  /\ UNCHANGED <<row, owners, uploads, index, proc, edits>>

(* SetMemoAttachments deletes what a memo's new list leaves out: no event. *)
Detach(f) ==
  /\ "detach" \in UserOps /\ f \in Files /\ content[f].life = "live" /\ proc = "up"
  /\ content' = [content EXCEPT ![f].life = "gone"]
  /\ UNCHANGED <<row, owners, uploads, index, job, proc, faults, edits>>

(* One UpdateMemo sends one event, that of the first of the two paths        *)
(* "content" and "visibility" in its mask.                                   *)
Update(a, m) ==
  /\ Live(m) /\ edits < MaxEdits
  /\ \E t \in Texts, v \in Visibilities :
       /\ <<t, v>> # <<content[m].text, content[m].vis>>
       /\ t # content[m].text => "edit" \in UserOps
       /\ v # content[m].vis => "vis" \in UserOps
       /\ t # content[m].text /\ v # content[m].vis => "both" \in UserOps
       /\ content' = [content EXCEPT ![m].text = t, ![m].vis = v]
       /\ \/ t # content[m].text /\ Spawn(a, "ensure", m, None)
          \/ v # content[m].vis /\ Spawn(a, "vgate", m, v)
  /\ edits' = edits + 1
  /\ UNCHANGED <<row, owners, uploads, index, proc>>

(* DeleteNotebook gives the memos of a notebook to the default notebook. *)
Move(m) ==
  /\ "move" \in UserOps /\ Live(m) /\ edits < MaxEdits /\ proc = "up"
  /\ \E d \in Datasets \ {content[m].ds} : content' = [content EXCEPT ![m].ds = d]
  /\ edits' = edits + 1
  /\ UNCHANGED <<row, owners, uploads, index, job, proc, faults>>

(* A memo takes its comments and the listed attachments of each along; the   *)
(* one event names only what the user asked to delete.                       *)
Deleted(c) ==
  LET memos == {c} \cup {m \in Contents \ Files : Parent[m] = c /\ content[m].life = "live"}
  IN {memos \cup F : F \in {G \in SUBSET UNION {Attachments(m) : m \in memos} :
                              \A m \in memos : G \cap Attachments(m) \in ListedAttachments(Attachments(m))}}

Remove(S) ==
  content' = [x \in Contents |-> IF x \in S THEN [content[x] EXCEPT !.life = "gone"] ELSE content[x]]

Deletable(c) == content[c].life \in {"loose", "live"}

Delete(a, c) ==
  /\ "delete" \in UserOps /\ Deletable(c)
  /\ \E S \in Deleted(c) : Remove(S)
  /\ Launch(a, "dgate", c, None)
  /\ UNCHANGED <<row, owners, uploads, index, proc, faults, edits>>

(* A request that found the content before another one deleted it: deleting  *)
(* no row is no error, and the content is announced as deleted once more.    *)
(* Bound: one such request for each content.                                 *)
DeleteAgain(a, c) ==
  /\ "redelete" \in UserOps /\ content[c].life = "gone" /\ ~content[c].twice
  /\ content' = [content EXCEPT ![c].twice = TRUE]
  /\ Launch(a, "dgate", c, None)
  /\ UNCHANGED <<row, owners, uploads, index, proc, faults, edits>>

(* The MCP tools go straight to the store: no event, no notebook for a memo  *)
(* they create, and whatever goroutines run meanwhile.                       *)
Silent == proc = "up" /\ UNCHANGED <<row, owners, uploads, index, job, proc, faults>>

CreateSilently(m) ==
  /\ "createSilently" \in UserOps /\ m \in Homeless /\ content[m].life = "new" /\ Attachable(m)
  /\ content' = [content EXCEPT ![m].life = "live"]
  /\ Silent /\ UNCHANGED edits

UpdateSilently(m) ==
  /\ "updateSilently" \in UserOps /\ Live(m) /\ edits < MaxEdits
  /\ \E t \in Texts, v \in Visibilities :
       /\ <<t, v>> # <<content[m].text, content[m].vis>>
       /\ content' = [content EXCEPT ![m].text = t, ![m].vis = v]
  /\ edits' = edits + 1
  /\ Silent

DeleteSilently(m) ==
  /\ "deleteSilently" \in UserOps /\ Live(m)
  /\ \E F \in ListedAttachments(Attachments(m)) : Remove({m} \cup F)
  /\ Silent /\ UNCHANGED edits

Crash ==
  /\ proc = "up" /\ Fault("crash")
  /\ proc' = "crashed"
  /\ job' = [a \in Actors |-> Idle]
  /\ UNCHANGED <<content, row, owners, uploads, index, edits>>

Restart ==
  /\ proc # "up"
  /\ proc' = "up"
  /\ UNCHANGED <<content, row, owners, uploads, index, job, faults, edits>>

-----------------------------------------------------------------------------
(* A create or update event, and the body it shares with the batch cycle.    *)

Ensured(a) == IF job[a].phase = 0 THEN Goto(a, "gate") ELSE Done(a)

(* EnsurePendingState reads the row... *)
EnsureRead(a) ==
  /\ At(a, "ensure")
  /\ \/ NoFault /\ row[Cur(a)] = None /\ Goto(a, "insert")
     \/ NoFault /\ row[Cur(a)] # None /\ Ensured(a)
     \/ Fault("db") /\ Ensured(a)
  /\ OthersUnchanged

(* ...and inserts one if there was none; losing the race to another insert   *)
(* is an error of the UNIQUE constraint, which the caller only logs.         *)
EnsureInsert(a) ==
  /\ At(a, "insert")
  /\ \/ row[Cur(a)] = None /\ NoFault /\ InsertRow(Cur(a), None)
     \/ row[Cur(a)] # None /\ NoFault /\ UNCHANGED <<row, owners>>
     \/ Fault("db") /\ UNCHANGED <<row, owners>>
  /\ Ensured(a)
  /\ UNCHANGED <<content, uploads, index, proc, edits>>

(* healthChecker.IsHealthy, asked once by every event and every cycle. *)
Gate(a) ==
  LET open == [gate |-> "resolve", dgate |-> "dread", vgate |-> "vread", bgate |-> "list"] IN
  /\ job[a].pc \in DOMAIN open
  /\ \/ NoFault /\ Goto(a, open[job[a].pc])
     \/ Fault("gate") /\ Become(a, Idle)
  /\ OthersUnchanged

(* The owner's client and the dataset of the content's notebook, for an      *)
(* attachment its memo's. Without them, or without a notebook, the content   *)
(* is passed over: its row stays as it is.                                   *)
Home(c) == content[Host(c)].ds
Homed(c) == Present(c) /\ Host(c) \notin Homeless

Resolve(a) ==
  /\ At(a, "resolve")
  /\ \/ /\ Homed(Cur(a)) /\ NoFault
        /\ Become(a, [job[a] EXCEPT !.pc = "read", !.ds = Home(Cur(a))])
     \/ /\ (~Homed(Cur(a)) /\ NoFault) \/ Fault("rag")
        /\ Done(a)
  /\ OthersUnchanged

ReadContent(a) ==
  /\ At(a, "read")
  /\ \/ /\ content[Cur(a)].life # "gone" /\ NoFault
        /\ Become(a, [job[a] EXCEPT !.pc = "state", !.text = content[Cur(a)].text,
             !.vis = IF Cur(a) \in Files THEN None ELSE content[Cur(a)].vis])
     \/ /\ (content[Cur(a)].life = "gone" /\ NoFault) \/ Fault("db")
        /\ Fail(a)
  /\ OthersUnchanged

(* The row as read here decides whether and how the content is uploaded. *)
UnchangedIfSynced(r, text) == r # None /\ r.status = "synced"
Unchanged(r, text) == r # None /\ r.status = "synced" /\ r.hash = text

ReadState(a) ==
  LET r == row[Cur(a)] IN
  /\ At(a, "state")
  /\ \/ /\ NoFault /\ Cur(a) \in Parseable /\ ~Unchanged(r, job[a].text)
        /\ Become(a, [job[a] EXCEPT !.snap = r,
             !.pc = IF r # None /\ r.doc # 0 THEN "unindex" ELSE "upload"])
     \/ NoFault /\ Cur(a) \in Parseable /\ Unchanged(r, job[a].text) /\ Done(a)
     \/ Fault("db") /\ IF Cur(a) \in Parseable THEN Fail(a) ELSE Done(a)
     \/ /\ NoFault /\ Cur(a) \notin Parseable /\ r # None
        /\ Become(a, [job[a] EXCEPT !.snap = r, !.pc = "skip"])
     \/ NoFault /\ Cur(a) \notin Parseable /\ r = None /\ Done(a)
  /\ OthersUnchanged

MarkSkipped(a) ==
  /\ At(a, "skip")
  /\ \/ NoFault /\ UpdateRow(job[a].snap.id, LAMBDA r : [r EXCEPT !.status = "skipped"])
     \/ Fault("db") /\ UNCHANGED <<row, owners>>
  /\ Done(a)
  /\ UNCHANGED <<content, uploads, index, proc, edits>>

(* The old document is looked for in the dataset just resolved, and a        *)
(* failure to delete it is only logged.                                      *)
UnindexNone(d, ds) == UNCHANGED index
UnindexAll(d, ds) == index' = {i \in index : uploads[i].ds # ds}
Unindex(d, ds) == index' = index \ {i \in {d} : i \in DOMAIN uploads /\ uploads[i].ds = ds}

DeleteOld(a) ==
  /\ At(a, "unindex")
  /\ \/ NoFault /\ Unindex(job[a].snap.doc, job[a].ds)
     \/ Fault("rag") /\ UNCHANGED index
  /\ Goto(a, "upload")
  /\ UNCHANGED <<content, row, owners, uploads, proc, edits>>

(* RAGFlow takes the document under a new id. *)
AcceptUpload(a) ==
  /\ uploads' = Append(uploads, [of |-> Cur(a), text |-> job[a].text,
                                 vis |-> job[a].vis, ds |-> job[a].ds, parsed |-> FALSE])
  /\ index' = index \cup {Len(uploads) + 1}

(* A call that times out may have been carried out or not. *)
Upload(a) ==
  /\ At(a, "upload")
  /\ \/ /\ NoFault /\ AcceptUpload(a)
        /\ Become(a, [job[a] EXCEPT !.doc = Len(uploads) + 1, !.pc = "parse"])
     \/ Fault("rag") /\ Fail(a) /\ UNCHANGED <<uploads, index>>
     \/ Fault("rag") /\ Fail(a) /\ AcceptUpload(a)
  /\ UNCHANGED <<content, row, owners, proc, edits>>

(* Only a parsed document can be searched. The one call that asks for it may *)
(* fail, which is only logged.                                               *)
Parse(a) ==
  LET d == job[a].doc IN
  /\ At(a, "parse")
  /\ \/ NoFault /\ d \in index /\ uploads' = [uploads EXCEPT ![d].parsed = TRUE]
     \/ ((NoFault /\ d \notin index) \/ Fault("rag")) /\ UNCHANGED uploads
  /\ Goto(a, IF job[a].snap = None THEN "create" ELSE "mark")
  /\ UNCHANGED <<content, row, owners, index, proc, edits>>

CreateRow(a) ==
  /\ At(a, "create")
  /\ \/ NoFault /\ UpsertPending(Cur(a), job[a].text) /\ Goto(a, "reread")
     \/ Fault("db") /\ Fail(a) /\ UNCHANGED <<row, owners>>
  /\ UNCHANGED <<content, uploads, index, proc, edits>>

(* The row is read back with the error dropped: without it the next line     *)
(* dereferences nil, and a goroutine's panic ends the process.               *)
Reread(a) ==
  /\ At(a, "reread")
  /\ \/ /\ NoFault /\ row[Cur(a)] # None
        /\ Become(a, [job[a] EXCEPT !.snap = row[Cur(a)], !.pc = "mark"])
        /\ UNCHANGED proc
     \/ /\ (row[Cur(a)] = None /\ NoFault) \/ Fault("db")
        /\ job' = [b \in Actors |-> Idle]
        /\ proc' = "panicked"
  /\ UNCHANGED <<content, row, owners, uploads, index, edits>>

MarkSynced(a) ==
  /\ At(a, "mark")
  /\ \/ /\ NoFault /\ UpdateRow(job[a].snap.id, LAMBDA r : Synced(r, job[a].ds, job[a].doc))
        /\ Goto(a, "hash")
     \/ Fault("db") /\ Fail(a) /\ UNCHANGED <<row, owners>>
  /\ UNCHANGED <<content, uploads, index, proc, edits>>

UpdateHash(a) ==
  /\ At(a, "hash")
  /\ \/ NoFault /\ UpdateRow(job[a].snap.id, LAMBDA r : [r EXCEPT !.hash = job[a].text])
     \/ Fault("db") /\ UNCHANGED <<row, owners>>
  /\ Done(a)
  /\ UNCHANGED <<content, uploads, index, proc, edits>>

-----------------------------------------------------------------------------
(* A delete event                                                            *)

IndexedSwapped(r) == r.doc # 0 /\ r.ds = None
Indexed(r) == r.doc # 0 /\ r.ds # None

DeleteRead(a) ==
  LET r == row[Cur(a)] IN
  /\ At(a, "dread")
  /\ \/ /\ NoFault /\ r # None
        /\ Become(a, [job[a] EXCEPT !.snap = r, !.pc = IF Indexed(r) THEN "ddoc" ELSE "drow"])
     \/ ((r = None /\ NoFault) \/ Fault("db")) /\ Done(a)
  /\ OthersUnchanged

(* Delete events carry no user id, so the client is the system bot's. *)
DeleteDoc(a) ==
  /\ At(a, "ddoc")
  /\ \/ NoFault /\ BotMayDelete /\ Unindex(job[a].snap.doc, job[a].snap.ds)
     \/ NoFault /\ ~BotMayDelete /\ UNCHANGED index
     \/ Fault("rag") /\ UNCHANGED index
  /\ Goto(a, "drow")
  /\ UNCHANGED <<content, row, owners, uploads, proc, edits>>

DeleteRow(a) ==
  /\ At(a, "drow")
  /\ \/ NoFault /\ row' = [row EXCEPT ![Cur(a)] = None]
     \/ Fault("db") /\ UNCHANGED row
  /\ Done(a)
  /\ UNCHANGED <<content, owners, uploads, index, proc, edits>>

-----------------------------------------------------------------------------
(* A visibility event: the memo's document, then those of its attachments    *)

RelabelableUnlessSynced(r) == r # None /\ r.status # "synced" /\ Indexed(r)
Relabelable(r) == r # None /\ r.status = "synced" /\ Indexed(r)

VisibilityRead(a) ==
  LET r == row[Cur(a)]
      here == job[a].phase # 0 \/ content[Cur(a)].life # "gone"
  IN
  /\ At(a, "vread")
  /\ \/ /\ NoFault /\ here /\ Relabelable(r)
        /\ Become(a, [job[a] EXCEPT !.snap = r, !.pc = "vupd"])
     \/ NoFault /\ here /\ ~Relabelable(r) /\ job[a].phase = 0 /\ Goto(a, "vlist")
     \/ NoFault /\ here /\ ~Relabelable(r) /\ job[a].phase # 0 /\ Done(a)
     \/ ((NoFault /\ ~here) \/ Fault("db")) /\ Done(a)
  /\ OthersUnchanged

(* A memo whose document cannot be updated ends the event. *)
VisibilityUpdate(a) ==
  LET d == job[a].snap.doc IN
  /\ At(a, "vupd")
  /\ \/ /\ NoFault /\ d \in index /\ uploads' = [uploads EXCEPT ![d].vis = job[a].vis]
        /\ IF job[a].phase = 0 THEN Goto(a, "vlist") ELSE Done(a)
     \/ /\ ((NoFault /\ d \notin index) \/ Fault("rag")) /\ UNCHANGED uploads
        /\ Done(a)
  /\ UNCHANGED <<content, row, owners, index, proc, edits>>

ListAttachments(a) ==
  /\ At(a, "vlist")
  /\ \/ /\ NoFault /\ content[Cur(a)].life # "gone"
        /\ \E S \in ListedAttachments(Attachments(Cur(a))) :
             Become(a, [Idle EXCEPT !.pc = "next", !.phase = OfAttachments, !.vis = job[a].vis,
                                    !.todo = {Ticketed(f) : f \in S}])
     \/ ((NoFault /\ content[Cur(a)].life = "gone") \/ Fault("db")) /\ Done(a)
  /\ OthersUnchanged

-----------------------------------------------------------------------------
(* A batch cycle: the ticker's, the one at start-up, or TriggerSync's.       *)

StartBatch(a) ==
  /\ proc = "up" /\ At(a, "idle")
  /\ Become(a, [Idle EXCEPT !.pc = "bgate", !.phase = 1])
  /\ UNCHANGED <<content, row, owners, uploads, index, proc, faults, edits>>

(* What each phase works through: contents without regard to their rows (of  *)
(* the attachments those that ListAttachments returns), failed and skipped   *)
(* rows, a window of the pending rows cut down to one type, the failed rows  *)
(* whose retry is due (any of them may be, by now).                          *)
Existing(S) == {x \in S : content[x].life \in {"loose", "live"}}
Exists(S) == {Ticketed(c) : c \in Existing(S)}
Pending(S) == {TicketOf(r) : r \in {q \in Newest(WithStatus("pending")) : q.of \in S}}
ResettableAny == Rows \ WithStatus("pending")
ResettableSkipped == WithStatus("skipped")
Resettable == WithStatus("failed") \cup WithStatus("skipped")
Retryable == {r \in Newest(WithStatus("failed")) : r.retry < MaxRetries /\ r.due}

Listings(phase) ==
  CASE phase = 1 -> {Exists(Contents \ Files)}
    [] phase = 2 -> {Exists(S) : S \in ListedAttachments(Existing(Files))}
    [] phase = 3 -> {{TicketOf(r) : r \in Resettable}}
    [] phase = 4 -> {Pending(Contents \ Files)}
    [] phase = 5 -> {Pending(Files)}
    [] phase = 6 -> {{TicketOf(r) : r \in S} : S \in SUBSET Retryable}

List(a) ==
  /\ At(a, "list")
  /\ \/ NoFault /\ \E todo \in Listings(job[a].phase) :
          Become(a, [job[a] EXCEPT !.todo = todo, !.pc = "next"])
     \/ Fault("db") /\ Goto(a, "next")
  /\ OthersUnchanged

First(phase) ==
  <<"ensure", "ensure", "reset", "resolve", "resolve", "resolve", "vread">>[phase]

NextItem(a) ==
  /\ At(a, "next")
  /\ \/ \E t \in job[a].todo :
          Become(a, [job[a] EXCEPT !.pc = First(job[a].phase), !.item = t, !.todo = @ \ {t}])
     \/ /\ job[a].todo = {} /\ job[a].phase < LastStage
        /\ Become(a, [job[a] EXCEPT !.pc = "list", !.phase = @ + 1])
     \/ /\ job[a].todo = {} /\ job[a].phase >= LastStage
        /\ Become(a, Idle)
  /\ UNCHANGED <<content, row, owners, uploads, index, proc, faults, edits>>

(* Rows are updated by what was listed of them, not by what they hold now. *)
ResetRow(a) ==
  /\ At(a, "reset")
  /\ \/ NoFault /\ UpdateRow(job[a].item.id, LAMBDA r : Reset(r, job[a].item.hash))
     \/ Fault("db") /\ UNCHANGED <<row, owners>>
  /\ Done(a)
  /\ UNCHANGED <<content, uploads, index, proc, edits>>

MarkFailed(a) ==
  /\ At(a, "markFailed")
  /\ \/ NoFault /\ UpdateRow(job[a].item.id, LAMBDA r : Failed(r, job[a].item.retry))
     \/ Fault("db") /\ UNCHANGED <<row, owners>>
  /\ Done(a)
  /\ UNCHANGED <<content, uploads, index, proc, edits>>

-----------------------------------------------------------------------------
User ==
  \/ \E a \in Actors, c \in Contents : Create(a, c) \/ Attach(a, c) \/ Update(a, c)
                                     \/ Delete(a, c) \/ DeleteAgain(a, c)
  \/ \E c \in Contents : UploadLoose(c) \/ Detach(c) \/ Move(c)
                          \/ CreateSilently(c) \/ UpdateSilently(c) \/ DeleteSilently(c)

Step(a) ==
  \/ EnsureRead(a) \/ EnsureInsert(a) \/ Gate(a) \/ Resolve(a)
  \/ ReadContent(a) \/ ReadState(a) \/ MarkSkipped(a) \/ DeleteOld(a) \/ Upload(a)
  \/ Parse(a) \/ CreateRow(a) \/ Reread(a) \/ MarkSynced(a) \/ UpdateHash(a)
  \/ DeleteRead(a) \/ DeleteDoc(a) \/ DeleteRow(a)
  \/ VisibilityRead(a) \/ VisibilityUpdate(a) \/ ListAttachments(a)
  \/ List(a) \/ NextItem(a) \/ ResetRow(a) \/ MarkFailed(a)

Next == User \/ Crash \/ Restart \/ \E a \in Actors : Step(a) \/ StartBatch(a)

Spec == Init /\ [][Next]_vars

(* A goroutine that can go on does; the ticker fires again and again; a      *)
(* process that died is started again. Users owe nothing.                    *)
Fairness ==
  /\ \A a \in Actors : WF_vars(Step(a))
  /\ WF_vars(\E a \in Actors : StartBatch(a))
  /\ WF_vars(Restart)

FairSpec == Spec /\ Fairness

-----------------------------------------------------------------------------
(* Properties                                                                *)

(* Every variable holds what the code can store in it. *)
TypeOK ==
  /\ content \in [Contents -> Content]
  /\ row \in [Contents -> Row \cup {None}]
  /\ owners \in Seq(Contents)
  /\ uploads \in Seq(Document)
  /\ index \subseteq DOMAIN uploads
  /\ job \in [Actors -> Job]
  /\ proc \in {"up", "crashed", "panicked"}
  /\ faults \in Nat /\ edits \in Nat

(* Rows are updated by ids read earlier, over deletions, re-insertions and   *)
(* restarts: a row still never points at a document of another content       *)
(* (UpdateContentSyncState, MarkAsSynced).                                   *)
RowDocOwn ==
  \A c \in Contents : row[c] # None /\ row[c].doc # 0 =>
    row[c].doc \in DOMAIN uploads /\ uploads[row[c].doc].of = c

(* A synced row can be deleted again: it names its document and dataset,     *)
(* whatever upsert, reset or failure mark overtook the goroutine that synced *)
(* (CreatePendingState, MarkAsSynced).                                       *)
SyncedHasDoc ==
  \A c \in Contents : row[c] # None /\ row[c].status = "synced" =>
    row[c].doc # 0 /\ row[c].ds # None

(* A pending row starts its retries from zero and no row counts more than    *)
(* MaxRetries, although cycles count from stale copies (MarkAsFailed,        *)
(* ResetForResync, ListRetryableStates).                                     *)
RetriesBounded ==
  \A c \in Contents : row[c] # None =>
    (row[c].status = "pending" => row[c].retry = 0) /\ row[c].retry <= MaxRetries

(* The hash that makes SyncMemo skip a content is the hash of something that *)
(* was uploaded for it, never of a text RAGFlow has not seen.                *)
HashWasUploaded ==
  \A c \in Contents : row[c] # None /\ row[c].hash # None =>
    \E i \in DOMAIN uploads : uploads[i].of = c /\ uploads[i].text = row[c].hash

(* While no statement of the database fails, the syncer's row is gone when   *)
(* it is read back, and dereferenced, only when a content was deleted twice. *)
NoPanic == proc = "panicked" => \E c \in Contents : content[c].twice

(* Every document in the index can still be found by the code: a row or the  *)
(* goroutine that just uploaded it names it (SyncMemo, DeleteMemoFromRAGFlow). *)
NoOrphan ==
  \A i \in index :
    \/ row[uploads[i].of] # None /\ row[uploads[i].of].doc = i
    \/ \E a \in Actors : job[a].doc = i

(* RAGFlow holds at most one document of a content. *)
OneDocument == \A i, j \in index : uploads[i].of = uploads[j].of => i = j

UpToDate(c) == \E i \in index : uploads[i].of = c /\ uploads[i].text = content[c].text

(* Whenever SyncMemo may skip a content as unchanged, the index has its text. *)
SkipSound ==
  \A c \in Contents :
    content[c].life = "live" /\ Unchanged(row[c], content[c].text)
      /\ (\A a \in Actors : At(a, "idle")) => UpToDate(c)

(* Every content that exists is in the index in the end, unless it is        *)
(* deleted: a memo of a notebook, and an attachment of one that a cycle      *)
(* lists again and again (discoverUntrackedContent).                         *)
Listed(f) == \E a \in Actors : job[a].phase = 2 /\ \E t \in job[a].todo : t.of = f

EventuallyIndexed ==
  \A c \in Parseable : Host(c) \notin Homeless =>
    ((c \in Files => []<>Listed(c)) => (Present(c) ~> (UpToDate(c) \/ ~Present(c))))

Searchable(c) ==
  \E i \in index : uploads[i].of = c /\ uploads[i].text = content[c].text /\ uploads[i].parsed

(* Every such content can be searched in the end, unless it is deleted. *)
EventuallySearchable ==
  \A c \in Parseable : Host(c) \notin Homeless =>
    ((c \in Files => []<>Listed(c)) => (Present(c) ~> (Searchable(c) \/ ~Present(c))))

(* What users were told of: the goroutine of an event that has yet to begin. *)
Announced(pc, c) == \E a \in Actors : At(a, pc) /\ job[a].phase = 0 /\ Cur(a) = c

(* An announced creation or edit can be searched in the end, unless another  *)
(* commit overtook it: a closed gate or a skip by hash may not lose it       *)
(* (OnMemoCreated, OnMemoUpdated, OnAttachmentCreated).                      *)
EditsReachIndex ==
  \A c \in Parseable, t \in Texts : Host(c) \notin Homeless =>
    (Announced("ensure", c) /\ Present(c) /\ content[c].text = t)
      ~> (Searchable(c) \/ content[c].text # t \/ ~Present(c))

(* Nothing of a content stays in the index once its deletion was announced   *)
(* by its own name (OnMemoDeleted, OnAttachmentDeleted).                     *)
NamedDeletesReachIndex ==
  \A c \in Contents : Announced("dgate", c) ~> [](\A i \in index : uploads[i].of # c)

(* Nothing of a deleted content stays in the index; the code does not keep   *)
(* this for deletions nobody announced.                                      *)
DeletesReachIndex ==
  \A c \in Contents : []<>(content[c].life = "gone" => \A i \in index : uploads[i].of # c)

(* The index follows every edit, announced or not; the code does not keep    *)
(* this for silent ones.                                                     *)
SilentEditsReachIndex ==
  \A c \in Parseable : []<>(content[c].life = "live" => Searchable(c))

Labelled(c, v) == \A i \in index : uploads[i].of = c => uploads[i].vis \in {v, None}

(* An announced change of a memo's visibility reaches its document and those *)
(* of its attachments, as many as one list returns, unless another commit    *)
(* overtook it (OnMemoVisibilityChanged, HandleVisibilityChange).            *)
VisibilityReachesIndex ==
  \A c \in Parseable, v \in Visibilities :
    Cardinality({f \in Files : Parent[f] = Host(c)}) <= ListLimit =>
      (Announced("vgate", Host(c)) /\ content[Host(c)].vis = v)
        ~> (Labelled(c, v) \/ content[Host(c)].vis # v \/ content[Host(c)].life = "gone")

(* The document of c in the index as a reader finds it. *)
Version(c) ==
  IF \E i \in index : uploads[i].of = c
  THEN LET i == CHOOSE i \in index : uploads[i].of = c
       IN [text |-> uploads[i].text, label |-> uploads[i].vis]
  ELSE None

(* What readers and users see of each content, and the contents whose text a *)
(* goroutine has in hand to upload.                                          *)
NoteNow ==
  [c \in Contents |->
     [life |-> IF content[c].life \in {"loose", "live"} THEN "there" ELSE content[c].life,
      text |-> content[c].text, label |-> content[Host(c)].vis]]
ShownNow == [c \in Contents |-> Version(c)]
Taking == {"state", "unindex", "upload"}
Takes(a, c) == job[a].pc \in Taking /\ job[a].item.of = c
TakenNow ==
  [c \in Contents |->
     IF \E a \in Actors : Takes(a, c)
     THEN LET a == CHOOSE a \in Actors : Takes(a, c)
          IN [text |-> job[a].text, label |-> job[a].vis]
     ELSE None]

(* The label that a visibility event is about to give to c. *)
Asks(a, c) ==
  \/ job[a].phase = 0 /\ job[a].pc \in {"vgate", "vread", "vupd", "vlist"} /\ job[a].item.of = Host(c)
  \/ /\ job[a].phase = OfAttachments
     /\ (\E t \in job[a].todo : t.of = c) \/ (job[a].item # None /\ job[a].item.of = c)
AskedNow ==
  [c \in Contents |->
     IF \E a \in Actors : Asks(a, c) THEN job[CHOOSE a \in Actors : Asks(a, c)].vis ELSE None]

Mirrored == INSTANCE Mirror
  WITH Notes <- Contents, Labels <- Visibilities, note <- NoteNow, shown <- ShownNow,
       taken <- TakenNow, asked <- AskedNow

(* While one goroutine runs at a time, the syncers implement Mirror, whatever *)
(* silent commits fall between their steps: a document is deleted only when  *)
(* it differs from what was read to replace it or its content is gone, what  *)
(* is uploaded is what was read of a content that was there, and labels are  *)
(* those a change of visibility announced.                                   *)
ImplementsMirror == Mirrored!Spec
=============================================================================
