----------------------------- MODULE ChatHistory -----------------------------
(***************************************************************************)
(* The AI conversations of a user (server/router/api/v1/ai_service.go), the *)
(* streamed answer (ai_chat_stream.go) and the goroutine that parses it    *)
(* into a bounded channel (plugin/ragflow/openai.go).                      *)
(*                                                                         *)
(* A turn is a history query, an INSERT of the question, a call that takes *)
(* as long as the language model does and an INSERT of the answer, none of *)
(* them in a transaction: turns of one conversation, its deletion and the  *)
(* client hanging up come in between.                                      *)
(***************************************************************************)
EXTENDS Naturals, Sequences

CONSTANTS
  Procs,             \* bound: requests at a time
  MaxConversations,  \* bound: conversations ever made
  MaxTurns,          \* bound: questions ever asked
  MaxHistory,        \* maxHistoryMessages (20)
  MaxChunks,         \* bound: text chunks of a streamed answer
  ChannelCap,        \* the buffer of ChatCompletionStream's channel (100)
  FaultKinds,        \* what may go wrong: "db", "rag", "chunk", "cancel", "crash"
  MaxFaults          \* bound: how often something goes wrong

ASSUME ConstantsOK ==
  /\ MaxConversations \in Nat /\ MaxTurns \in Nat /\ MaxFaults \in Nat
  /\ MaxHistory \in Nat \ {0} /\ MaxChunks \in Nat /\ ChannelCap \in Nat \ {0}

VARIABLES
  conversations,  \* every ai_conversation row ever inserted, by its id
  messages,       \* for each of them its ai_message rows in the order of their insertion
  turns,          \* questions asked so far
  job,            \* what each request is doing
  stream,         \* the parser goroutine of each request and its channel
  calm,           \* no fault but RAGFlow's and no two requests at a time up to now
  lost,           \* turns whose request met a fault of the database, or died
  faults

vars == <<conversations, messages, turns, job, stream, calm, lost, faults>>

Titles == [by: {"default", "user", "turn"}, turn: Nat]
Conversation == [live: BOOLEAN, title: Titles]
Kinds == {"question", "answer", "sorry"}
Message == [kind: Kinds, turn: Nat, chunks: Nat]
PC == {"idle", "load", "question", "call", "consume", "answer", "sorry",
       "title", "retitle", "drop"}
Items == {"text", "done", "bad", "err"}

(* streamed: handleStreamMessage rather than SendMessage; gone: the client   *)
(* hung up; history: the rows sent to the model; shown: the chunks so far.   *)
Job == [pc: PC, conv: Nat, turn: Nat, streamed: BOOLEAN, gone: BOOLEAN,
        history: Seq(Message), shown: Nat]
Idle == [pc |-> "idle", conv |-> 0, turn |-> 0, streamed |-> FALSE, gone |-> FALSE,
         history |-> <<>>, shown |-> 0]

(* left: text chunks still in the body; hold: the chunk being sent. *)
Parser == [open: BOOLEAN, left: Nat, hold: Items \cup {"none"}, chan: Seq(Items)]
NoParser == [open |-> FALSE, left |-> 0, hold |-> "none", chan |-> <<>>]

Init ==
  /\ conversations = <<>> /\ messages = <<>> /\ turns = 0
  /\ job = [p \in Procs |-> Idle] /\ stream = [p \in Procs |-> NoParser]
  /\ calm = TRUE /\ lost = {} /\ faults = 0

-----------------------------------------------------------------------------
At(p, pc) == job[p].pc = pc
AllIdle == \A p \in Procs : At(p, "idle")
Become(p, j) == job' = [job EXCEPT ![p] = j]
Goto(p, pc) == Become(p, [job[p] EXCEPT !.pc = pc])
End(p) == Become(p, Idle)

Start(p) ==
  /\ At(p, "idle") /\ ~stream[p].open /\ stream[p].hold = "none"
  /\ calm' = (calm /\ AllIdle) /\ UNCHANGED <<lost, faults>>

NoFault == UNCHANGED <<calm, lost, faults>>
Fault(kind) == kind \in FaultKinds /\ faults < MaxFaults /\ faults' = faults + 1

(* RAGFlow's faults are the ones a turn is meant to survive. *)
RagFault(kind) == Fault(kind) /\ UNCHANGED <<calm, lost>>

(* A statement of p goes wrong: always once its context is cancelled. *)
StatementFails(p) ==
  /\ (job[p].gone /\ UNCHANGED faults) \/ (~job[p].gone /\ Fault("db"))
  /\ calm' = FALSE /\ lost' = lost \cup {job[p].turn}
StatementRuns(p) == ~job[p].gone /\ NoFault

Live == {c \in DOMAIN conversations : conversations[c].live}
Rows(c) == messages[c]
Insert(p, kind, chunks) ==
  messages' = [messages EXCEPT ![job[p].conv] =
                 Append(@, [kind |-> kind, turn |-> job[p].turn, chunks |-> chunks])]

-----------------------------------------------------------------------------
CreateConversation(p) ==
  /\ Start(p) /\ Len(conversations) < MaxConversations
  /\ \E by \in {"default", "user"} :
       conversations' = Append(conversations, [live |-> TRUE, title |-> [by |-> by, turn |-> 0]])
  /\ messages' = Append(messages, <<>>)
  /\ UNCHANGED <<turns, job, stream>>

UpdateConversation(p, c) ==
  /\ Start(p) /\ c \in Live
  /\ conversations' = [conversations EXCEPT ![c].title = [by |-> "user", turn |-> 0]]
  /\ UNCHANGED <<messages, turns, job, stream>>

(* DeleteConversation: the messages in one statement, the row in the next. *)
LeftToCascade(c) == messages
WithoutMessagesOf(c) == [messages EXCEPT ![c] = <<>>]

DeleteConversation(p, c) ==
  /\ Start(p) /\ c \in Live
  /\ messages' = WithoutMessagesOf(c)
  /\ Become(p, [Idle EXCEPT !.pc = "drop", !.conv = c])
  /\ UNCHANGED <<conversations, turns, stream>>

DropConversation(p) ==
  /\ At(p, "drop") /\ End(p)
  /\ \/ StatementRuns(p) /\ conversations' = [conversations EXCEPT ![job[p].conv].live = FALSE]
     \/ StatementFails(p) /\ UNCHANGED conversations
  /\ UNCHANGED <<messages, turns, stream>>

-----------------------------------------------------------------------------
(* SendMessage and handleStreamMessage find the conversation, then make sure *)
(* of the assistant, which may take calls to RAGFlow of its own.             *)
Ask(p, c, streamed) ==
  /\ Start(p) /\ c \in Live /\ turns < MaxTurns
  /\ turns' = turns + 1
  /\ Become(p, [Idle EXCEPT !.pc = "load", !.conv = c, !.turn = turns + 1,
                            !.streamed = streamed])
  /\ UNCHANGED <<conversations, messages, stream>>

(* The query orders by created_ts ASC before it applies its LIMIT. *)
AtMost(n, c) == SubSeq(Rows(c), 1, IF n < Len(Rows(c)) THEN n ELSE Len(Rows(c)))
HistoryWithoutLast(c) == AtMost(MaxHistory - 1, c)
History(c) == AtMost(MaxHistory, c)

LoadHistory(p) ==
  /\ At(p, "load")
  /\ \/ StatementRuns(p) /\ Become(p, [job[p] EXCEPT !.pc = "question", !.history = History(job[p].conv)])
     \/ StatementFails(p) /\ End(p)
  /\ UNCHANGED <<conversations, messages, turns, stream>>

SaveQuestion(p) ==
  /\ At(p, "question")
  /\ \/ StatementRuns(p) /\ Insert(p, "question", 0) /\ Goto(p, "call")
     \/ StatementFails(p) /\ End(p) /\ UNCHANGED messages
  /\ UNCHANGED <<conversations, turns, stream>>

(* RAGFlow refuses, or reports its error in a body of status 200, which is   *)
(* read as an answer without choices.                                        *)
CallFails(p) ==
  /\ At(p, "call")
  /\ RagFault("rag") \/ (job[p].gone /\ NoFault)
  /\ \/ Goto(p, "sorry") /\ UNCHANGED stream
     \/ /\ ~job[p].gone /\ ~job[p].streamed
        /\ Goto(p, "answer") /\ UNCHANGED stream
     \/ /\ ~job[p].gone /\ job[p].streamed
        /\ Goto(p, "consume") /\ stream' = [stream EXCEPT ![p] = NoParser]
  /\ UNCHANGED <<conversations, messages, turns>>

ChatCompletion(p) ==
  /\ At(p, "call") /\ ~job[p].streamed /\ ~job[p].gone /\ NoFault
  /\ Become(p, [job[p] EXCEPT !.pc = "answer", !.shown = MaxChunks])
  /\ UNCHANGED <<conversations, messages, turns, stream>>

ChatCompletionStream(p) ==
  /\ At(p, "call") /\ job[p].streamed /\ ~job[p].gone /\ NoFault
  /\ Goto(p, "consume")
  /\ stream' = [stream EXCEPT ![p] = [NoParser EXCEPT !.open = TRUE, !.left = MaxChunks]]
  /\ UNCHANGED <<conversations, messages, turns>>

-----------------------------------------------------------------------------
(* parseSSEStream. The context ends when the client hangs up and when the    *)
(* handler returns; it is looked at before a line is read, not while the     *)
(* chunk of that line waits for room in the channel.                         *)
CtxDone(p) == job[p].gone \/ At(p, "idle")
Hold(p, item) == stream' = [stream EXCEPT ![p].hold = item]

ParseLine(p) ==
  /\ stream[p].open /\ stream[p].hold = "none"
  /\ \/ CtxDone(p) /\ NoFault /\ Hold(p, "err")
     \/ ~CtxDone(p) /\ RagFault("rag") /\ Hold(p, "err")
     \/ ~CtxDone(p) /\ RagFault("rag") /\ stream' = [stream EXCEPT ![p].open = FALSE]
     \/ /\ ~CtxDone(p) /\ NoFault /\ stream[p].left = 0
        /\ Hold(p, "done")
     \/ /\ ~CtxDone(p) /\ stream[p].left > 0
        /\ \E item \in {"text", "bad"} :
             /\ IF item = "text" THEN NoFault ELSE RagFault("chunk")
             /\ stream' = [stream EXCEPT ![p].hold = item, ![p].left = @ - 1]
  /\ UNCHANGED <<conversations, messages, turns, job>>

(* After the last chunk the channel is closed. *)
HasRoomForOneMore(p) == Len(stream[p].chan) <= ChannelCap
HasRoom(p) == Len(stream[p].chan) < ChannelCap

SendChunk(p) ==
  /\ stream[p].hold # "none" /\ HasRoom(p)
  /\ stream' = [stream EXCEPT ![p].chan = Append(@, stream[p].hold),
                              ![p].hold = "none",
                              ![p].open = stream[p].hold \notin {"done", "err"}]
  /\ UNCHANGED <<conversations, messages, turns, job, calm, lost, faults>>

(* The handler forwards text, and leaves the loop on an error, on the last   *)
(* chunk (its FinalContent repeats the text) and when the channel is closed. *)
AfterErrorNothing(p) == IF Head(stream[p].chan) = "done" THEN "answer" ELSE "title"
AfterLast(p) == "answer"

ConsumeChunk(p) ==
  /\ At(p, "consume") /\ stream[p].chan # <<>>
  /\ stream' = [stream EXCEPT ![p].chan = Tail(@)]
  /\ IF Head(stream[p].chan) = "text"
     THEN Become(p, [job[p] EXCEPT !.shown = @ + 1])
     ELSE Goto(p, AfterLast(p))
  /\ UNCHANGED <<conversations, messages, turns, calm, lost, faults>>

ChannelClosed(p) ==
  /\ At(p, "consume") /\ ~stream[p].open /\ stream[p].chan = <<>>
  /\ Goto(p, "answer")
  /\ UNCHANGED <<conversations, messages, turns, stream, calm, lost, faults>>

-----------------------------------------------------------------------------
(* SendMessage returns when its answer cannot be saved; the stream has shown *)
(* it already and goes on to the title.                                      *)
SaveAnswer(p) ==
  /\ At(p, "answer")
  /\ \/ StatementRuns(p) /\ Insert(p, "answer", job[p].shown) /\ Goto(p, "title")
     \/ StatementFails(p) /\ ~job[p].streamed /\ End(p) /\ UNCHANGED messages
     \/ StatementFails(p) /\ job[p].streamed /\ Goto(p, "title") /\ UNCHANGED messages
  /\ UNCHANGED <<conversations, turns, stream>>

(* The apology is saved with its error dropped; SendMessage then converts a  *)
(* message that may be nil and panics into the recovery interceptor.         *)
ApologyIsShownOnly(p) == UNCHANGED messages
Apologise(p) == Insert(p, "sorry", 0)

SaveSorry(p) ==
  /\ At(p, "sorry") /\ End(p)
  /\ \/ StatementRuns(p) /\ Apologise(p)
     \/ StatementFails(p) /\ UNCHANGED messages
  /\ UNCHANGED <<conversations, turns, stream>>

(* maybeUpdateConversationTitle; a list that fails counts as an empty one. *)
IsLaterTurnByOne(c) == Len(Rows(c)) >= 2
IsLaterTurn(c) == Len(Rows(c)) > 2

ListForTitle(p) ==
  /\ At(p, "title")
  /\ \/ StatementRuns(p) /\ IF IsLaterTurn(job[p].conv) THEN End(p) ELSE Goto(p, "retitle")
     \/ StatementFails(p) /\ Goto(p, "retitle")
  /\ UNCHANGED <<conversations, messages, turns, stream>>

SetTitle(p) ==
  /\ At(p, "retitle") /\ End(p)
  /\ \/ /\ StatementRuns(p)
        /\ conversations' = [conversations EXCEPT ![job[p].conv].title = [by |-> "turn", turn |-> job[p].turn]]
     \/ StatementFails(p) /\ UNCHANGED conversations
  /\ UNCHANGED <<messages, turns, stream>>

-----------------------------------------------------------------------------
HangUp(p) ==
  /\ ~At(p, "idle") /\ ~job[p].gone /\ Fault("cancel")
  /\ Become(p, [job[p] EXCEPT !.gone = TRUE])
  /\ calm' = FALSE /\ UNCHANGED <<conversations, messages, turns, stream, lost>>

Crash ==
  /\ Fault("crash") /\ ~AllIdle
  /\ job' = [p \in Procs |-> Idle] /\ stream' = [p \in Procs |-> NoParser]
  /\ lost' = lost \cup {job[p].turn : p \in Procs}
  /\ calm' = FALSE /\ UNCHANGED <<conversations, messages, turns>>

Handler(p) ==
  \/ DropConversation(p) \/ LoadHistory(p) \/ SaveQuestion(p) \/ CallFails(p)
  \/ ChatCompletion(p) \/ ChatCompletionStream(p) \/ ConsumeChunk(p) \/ ChannelClosed(p)
  \/ SaveAnswer(p) \/ SaveSorry(p) \/ ListForTitle(p) \/ SetTitle(p)

Next ==
  \/ \E p \in Procs :
       \/ CreateConversation(p) \/ Handler(p) \/ HangUp(p) \/ ParseLine(p) \/ SendChunk(p)
       \/ \E c \in DOMAIN conversations :
            \/ UpdateConversation(p, c) \/ DeleteConversation(p, c)
            \/ \E streamed \in BOOLEAN : Ask(p, c, streamed)
  \/ Crash

Spec == Init /\ [][Next]_vars

(* A handler and a parser that can go on do. *)
FairSpec ==
  /\ Spec
  /\ \A p \in Procs : WF_vars(Handler(p)) /\ WF_vars(ParseLine(p)) /\ WF_vars(SendChunk(p))

-----------------------------------------------------------------------------
(* Properties *)

(* Every variable holds what the code can store in it; the channel of a      *)
(* stream never holds more than it was made for.                             *)
TypeOK ==
  /\ \A c \in DOMAIN conversations : conversations[c] \in Conversation
  /\ Len(messages) = Len(conversations) /\ \A c \in DOMAIN messages : messages[c] \in Seq(Message)
  /\ turns \in 0..MaxTurns /\ faults \in 0..MaxFaults
  /\ job \in [Procs -> [pc: PC, conv: Nat, turn: Nat, streamed: BOOLEAN, gone: BOOLEAN,
                        history: Seq(Message), shown: 0..MaxChunks]]
  /\ \A p \in Procs : stream[p].hold \in Items \cup {"none"} /\ Len(stream[p].chan) <= ChannelCap
  /\ calm \in BOOLEAN /\ lost \subseteq 0..MaxTurns

(* Whatever RAGFlow does, refuse, answer nothing, break the stream off or    *)
(* garble it, the turns of a conversation alternate between question and     *)
(* reply as long as requests come one at a time and the database works       *)
(* (SaveSorry, the loop of handleStreamMessage).                             *)
TurnsAlternate ==
  calm => \A c \in Live : LET rows == Rows(c) IN
    \A i \in DOMAIN rows :
      /\ (i % 2 = 1) = (rows[i].kind = "question")
      /\ i > 1 /\ i % 2 = 0 => rows[i].turn = rows[i - 1].turn

(* A conversation that fits into the window is sent to the model whole, the  *)
(* question last and once (buildOpenAIMessages before the question is        *)
(* saved).                                                                   *)
ContextWhole ==
  \A p \in Procs : calm /\ At(p, "call") =>
    LET rows == Rows(job[p].conv) IN
      Len(rows) <= MaxHistory + 1 => Append(job[p].history, rows[Len(rows)]) = rows

(* No message outlives its conversation unless a request was under way when  *)
(* it was deleted; foreign_keys(0) leaves the cascade to the handler         *)
(* (DeleteConversation).                                                     *)
DeletedWithMessages ==
  calm => \A c \in DOMAIN conversations : Rows(c) # <<>> => c \in Live

(* The title a conversation takes by itself is its first question, at the    *)
(* end of the first turn and at no other (maybeUpdateConversationTitle).     *)
TitledByFirstTurn ==
  calm /\ AllIdle => \A c \in Live :
    LET rows == Rows(c) IN
      /\ conversations[c].title.by = "turn" => rows # <<>> /\ conversations[c].title.turn = rows[1].turn
      /\ Len(rows) = 2 /\ rows[2].kind = "answer" => conversations[c].title.by # "default"

Asked(t) == \E c \in DOMAIN messages : \E i \in DOMAIN Rows(c) :
  Rows(c)[i].turn = t /\ Rows(c)[i].kind = "question"
Replied(t) == \E c \in DOMAIN messages : \E i \in DOMAIN Rows(c) :
  Rows(c)[i].turn = t /\ Rows(c)[i].kind # "question"
(* A question that was saved gets its reply, whatever RAGFlow does, unless   *)
(* the conversation is deleted meanwhile, the database fails, the client     *)
(* hangs up or the server dies.                                              *)
EveryTurnAnswered == \A t \in 1..MaxTurns : Asked(t) ~> (Replied(t) \/ ~Asked(t) \/ t \in lost)

(* What the model is sent of a conversation longer than the window is its    *)
(* most recent part (buildOpenAIMessages).                                   *)
MostRecentSent ==
  \A p \in Procs : calm /\ At(p, "question") /\ Len(Rows(job[p].conv)) > 0 =>
    LET rows == Rows(job[p].conv) history == job[p].history IN
      history[Len(history)] = rows[Len(rows)]

(* The goroutine that parses a stream ends (ChatCompletionStream). *)
ParserEnds == \A p \in Procs : stream[p].open ~> ~stream[p].open
=============================================================================
