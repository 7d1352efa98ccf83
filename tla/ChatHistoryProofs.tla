-------------------------- MODULE ChatHistoryProofs --------------------------
(***************************************************************************)
(* The turns of the AI conversations, for any number of requests,          *)
(* conversations, turns and chunks and a window of any size.               *)
(***************************************************************************)
EXTENDS ChatHistory, SequenceTheorems, TLAPS

-----------------------------------------------------------------------------
(* Types *)

Request == [pc: PC, conv: Nat, turn: 0..MaxTurns, streamed: BOOLEAN, gone: BOOLEAN,
            history: Seq(Message), shown: 0..MaxChunks]
Busy(p) == ~At(p, "idle")

Tables ==
  /\ conversations \in Seq(Conversation) /\ messages \in Seq(Seq(Message))
  /\ Len(messages) = Len(conversations)
  /\ turns \in 0..MaxTurns /\ faults \in 0..MaxFaults
  /\ calm \in BOOLEAN /\ lost \subseteq 0..MaxTurns
Requests ==
  job \in [Procs -> Request] /\ \A p \in Procs : Busy(p) => job[p].conv \in DOMAIN conversations

(* What is still to come of a stream fits into the chunks it began with:     *)
(* left in the body, held by the parser, in the channel and shown, apart     *)
(* from the item that says that there is no more.                            *)
Final == {"done", "err"}
Held(s) == IF s.hold \in Items \ Final THEN 1 ELSE 0
Texts(s) == IF s.chan # <<>> /\ s.chan[Len(s.chan)] \in Final THEN Len(s.chan) - 1 ELSE Len(s.chan)
Stream(s) ==
  /\ s \in Parser /\ Len(s.chan) <= ChannelCap
  /\ s.open => \A i \in DOMAIN s.chan : s.chan[i] \notin Final
  /\ ~s.open => s.hold = "none"
Fits(j, s) ==
  /\ j.pc \in {"load", "question", "call"} => j.shown = 0
  /\ j.pc = "consume" => j.shown + s.left + Held(s) + Texts(s) <= MaxChunks
Streams ==
  stream \in [Procs -> Parser] /\ \A p \in Procs : Stream(stream[p]) /\ Fits(job[p], stream[p])

TypeInv == Tables /\ Requests /\ Streams

-----------------------------------------------------------------------------
(* Turns. A conversation nobody works on is at rest: its rows are the        *)
(* questions and replies of whole turns, and its title is its first question *)
(* as soon as that has been answered. A request that works on one has taken  *)
(* it to a certain point of its turn.                                        *)

Alternates(rows) ==
  \A i \in DOMAIN rows :
    /\ (i % 2 = 1) = (rows[i].kind = "question")
    /\ i > 1 /\ i % 2 = 0 => rows[i].turn = rows[i - 1].turn

TitleIsFirst(rows, title) == title.by = "turn" => rows # <<>> /\ title.turn = rows[1].turn
Titled(rows, title) == Len(rows) = 2 /\ rows[2].kind = "answer" => title.by # "default"

AtRest(rows, c) ==
  /\ rows # <<>> => c.live
  /\ c.live => /\ Alternates(rows) /\ Len(rows) % 2 = 0
               /\ TitleIsFirst(rows, c.title) /\ Titled(rows, c.title)

AtWork(j, rows, c) ==
  /\ c.live /\ ~j.gone /\ Alternates(rows)
  /\ j.pc = "drop" => rows = <<>>
  /\ j.pc # "drop" => TitleIsFirst(rows, c.title)
  /\ j.pc \in {"load", "question"} => AtRest(rows, c)
  /\ j.pc = "question" /\ Len(rows) <= MaxHistory => j.history = rows
  /\ j.pc \in {"call", "consume", "answer", "sorry"} =>
       Len(rows) % 2 = 1 /\ rows[Len(rows)].turn = j.turn
  /\ j.pc = "call" /\ Len(rows) <= MaxHistory + 1 => Append(j.history, rows[Len(rows)]) = rows
  /\ j.pc \in {"title", "retitle"} =>
       /\ rows # <<>> /\ Len(rows) % 2 = 0
       /\ rows[Len(rows)].turn = j.turn /\ rows[Len(rows)].kind = "answer"
  /\ j.pc = "retitle" => Len(rows) <= 2

OneAtATime == \A p, q \in Procs : Busy(p) /\ Busy(q) => p = q
Working == \A p \in Procs : Busy(p) => AtWork(job[p], messages[job[p].conv], conversations[job[p].conv])
Resting == \A c \in DOMAIN conversations :
  AtRest(messages[c], conversations[c]) \/ \E p \in Procs : Busy(p) /\ job[p].conv = c

Turns == OneAtATime /\ Working /\ Resting

IInv == TypeInv /\ (calm => Turns)

-----------------------------------------------------------------------------
(* Rows *)

LEMMA Parity == \A n \in Nat : n % 2 \in {0, 1} /\ (n + 1) % 2 = 1 - (n % 2)
OBVIOUS

LEMMA Two == \A n \in Nat \ {0} : n <= 2 /\ n % 2 = 0 => n = 2
<1>1. \A n \in Nat \ {0} : n <= 2 => n = 1 \/ n = 2
  OBVIOUS
<1>2. 1 % 2 = 1
  OBVIOUS
<1> QED BY <1>1, <1>2

LEMMA OneLess == \A n \in Nat \ {0} : n # 1 => n - 1 \in Nat \ {0} /\ n = (n - 1) + 1
OBVIOUS

LEMMA NoRows == <<>> \in Seq(Message) /\ Len(<<>>) = 0 /\ Len(<<>>) % 2 = 0 /\ Alternates(<<>>)
BY Parity DEF Alternates

LEMMA LastRow ==
  ASSUME NEW rows \in Seq(Message), rows # <<>>
  PROVE  Len(rows) \in Nat \ {0} /\ Len(rows) \in DOMAIN rows /\ 1 \in DOMAIN rows
         /\ rows[Len(rows)] \in Message /\ rows[1] \in Message
BY EmptySeq, LenProperties, ElementOfSeq

LEMMA Appended ==
  ASSUME NEW rows \in Seq(Message), NEW m \in Message
  PROVE  /\ Append(rows, m) \in Seq(Message) /\ Append(rows, m) # <<>>
         /\ Len(Append(rows, m)) = Len(rows) + 1 /\ Len(rows) \in Nat
         /\ Append(rows, m)[Len(Append(rows, m))] = m
         /\ \A i \in DOMAIN rows : Append(rows, m)[i] = rows[i]
         /\ DOMAIN Append(rows, m) = 1..(Len(rows) + 1) /\ DOMAIN rows = 1..Len(rows)
         /\ Len(Append(rows, m)) % 2 = 1 - (Len(rows) % 2) /\ Len(rows) % 2 \in {0, 1}
<1>1. /\ Append(rows, m) \in Seq(Message) /\ Append(rows, m) # <<>>
      /\ Len(Append(rows, m)) = Len(rows) + 1 /\ Len(rows) \in Nat
      /\ Append(rows, m)[Len(Append(rows, m))] = m
      /\ \A i \in DOMAIN rows : Append(rows, m)[i] = rows[i]
      /\ DOMAIN Append(rows, m) = 1..(Len(rows) + 1) /\ DOMAIN rows = 1..Len(rows)
  BY AppendProperties, LenProperties
<1> QED BY <1>1, Parity

(* A question may follow a whole turn, its reply the question. *)
LEMMA NextRow ==
  ASSUME NEW rows \in Seq(Message), NEW m \in Message, Alternates(rows),
         \/ Len(rows) % 2 = 0 /\ m.kind = "question"
         \/ Len(rows) % 2 = 1 /\ m.kind # "question" /\ m.turn = rows[Len(rows)].turn
  PROVE  Alternates(Append(rows, m))
<1> DEFINE new == Append(rows, m)
<1> SUFFICES ASSUME NEW i \in DOMAIN new
             PROVE  /\ (i % 2 = 1) = (new[i].kind = "question")
                    /\ i > 1 /\ i % 2 = 0 => new[i].turn = new[i - 1].turn
  BY DEF Alternates
<1>1. i \in 1..(Len(rows) + 1) /\ Len(rows) \in Nat
  BY Appended
<1>2. CASE i \in DOMAIN rows
  <2>1. new[i] = rows[i] /\ (i > 1 => i - 1 \in DOMAIN rows)
    BY <1>1, <1>2, Appended
  <2>2. i > 1 => new[i - 1] = rows[i - 1]
    BY <2>1, Appended
  <2> QED BY <1>2, <2>1, <2>2 DEF Alternates
<1>3. CASE i \notin DOMAIN rows
  <2>1. i = Len(rows) + 1 /\ new[i] = m /\ i % 2 = 1 - (Len(rows) % 2) /\ Len(rows) % 2 \in {0, 1}
    BY <1>1, <1>3, Appended
  <2>2. i > 1 => Len(rows) \in DOMAIN rows /\ new[i - 1] = rows[Len(rows)]
    BY <1>1, <2>1, Appended
  <2> QED BY <2>1, <2>2
<1> QED BY <1>2, <1>3

(* The title of the first question stays the title of the first question. *)
LEMMA TitleStays ==
  ASSUME NEW rows \in Seq(Message), NEW m \in Message, NEW title, TitleIsFirst(rows, title)
  PROVE  TitleIsFirst(Append(rows, m), title)
<1>1. rows # <<>> => 1 \in DOMAIN rows
  BY LastRow
<1> QED BY <1>1, Appended DEF TitleIsFirst

(* A history that was cut nowhere is the rows there were. *)
LEMMA WholeHistory ==
  ASSUME NEW c \in DOMAIN messages, messages[c] \in Seq(Message), ConstantsOK
  PROVE  /\ History(c) \in Seq(Message)
         /\ Len(messages[c]) <= MaxHistory => History(c) = messages[c]
<1> DEFINE n == Len(messages[c])
           m == IF MaxHistory < n THEN MaxHistory ELSE n
<1>1. n \in Nat /\ m \in 0..n /\ MaxHistory \in Nat
  BY LenProperties DEF ConstantsOK
<1>2. History(c) = SubSeq(messages[c], 1, m)
  BY DEF History, AtMost, Rows
<1>3. SubSeq(messages[c], 1, m) \in Seq(Message)
  BY <1>1, SubSeqProperties, ElementOfSeq, LenProperties
<1>4. n <= MaxHistory => SubSeq(messages[c], 1, n) = messages[c]
  BY <1>1, LenProperties
<1> QED BY <1>1, <1>2, <1>3, <1>4

-----------------------------------------------------------------------------
(* What a step of one request leaves alone *)

LEMMA WorkTyped ==
  ASSUME TypeInv
  PROVE  /\ DOMAIN messages = DOMAIN conversations
         /\ \A c \in DOMAIN conversations :
              c \in Nat /\ messages[c] \in Seq(Message) /\ conversations[c] \in Conversation
         /\ \A p \in Procs : job[p] \in Request /\ Stream(stream[p]) /\ stream[p] \in Parser
         /\ \A p \in Procs : Busy(p) => job[p].conv \in DOMAIN conversations
BY LenProperties, ElementOfSeq DEF TypeInv, Tables, Requests, Streams

LEMMA IdleTyped ==
  /\ Idle \in Request /\ Idle.pc = "idle" /\ \A s : Fits(Idle, s)
  /\ NoParser \in Parser /\ Stream(NoParser) /\ NoParser.chan = <<>> /\ ~NoParser.open
  /\ NoParser.left = 0 /\ NoParser.hold = "none"
<1>1. Idle \in Request /\ Idle.pc = "idle"
  BY ConstantsOK DEF Idle, Request, PC
<1>2. \A s : Fits(Idle, s)
  BY <1>1 DEF Fits
<1>3. /\ NoParser.chan = <<>> /\ ~NoParser.open /\ NoParser.left = 0 /\ NoParser.hold = "none"
      /\ NoParser \in Parser
  BY DEF NoParser, Parser
<1>4. Len(<<>>) = 0
  OBVIOUS
<1>5. Stream(NoParser)
  BY <1>3, <1>4, ConstantsOK DEF Stream
<1> QED BY <1>1, <1>2, <1>3, <1>5

(* A stream of which nothing is to come but the chunks left. *)
LEMMA NoneToCome ==
  ASSUME NEW s, s.hold = "none", s.chan = <<>>, s.left \in {0, MaxChunks},
         NEW j, j.shown = 0, j.pc = "consume"
  PROVE  Fits(j, s)
<1>1. Held(s) = 0
  BY DEF Held, Items, Final
<1>2. Texts(s) = 0
  BY DEF Texts
<1> QED BY <1>1, <1>2, ConstantsOK DEF Fits

LEMMA Solo ==
  ASSUME TypeInv, Turns, NEW p \in Procs, Busy(p), NEW j, Become(p, j),
         DOMAIN conversations' = DOMAIN conversations,
         \A c \in DOMAIN conversations :
           c # job[p].conv => messages'[c] = messages[c] /\ conversations'[c] = conversations[c],
         j.pc # "idle" =>
           j.conv = job[p].conv /\ AtWork(j, messages'[job[p].conv], conversations'[job[p].conv]),
         j.pc = "idle" => AtRest(messages'[job[p].conv], conversations'[job[p].conv])
  PROVE  Turns'
<1>1. \A q \in Procs : job'[q] = IF q = p THEN j ELSE job[q]
  BY DEF Become, TypeInv, Requests
<1>2. \A q \in Procs : q # p => job[q].pc = "idle"
  BY DEF Turns, OneAtATime, Busy, At
<1>3. OneAtATime'
  BY <1>1, <1>2 DEF OneAtATime, Busy, At
<1>4. Working'
  BY <1>1, <1>2 DEF Working, Busy, At
<1>5. Resting'
  <2> SUFFICES ASSUME NEW c \in DOMAIN conversations
               PROVE  AtRest(messages[c], conversations[c])' \/ \E q \in Procs : Busy(q)' /\ job'[q].conv = c
    BY DEF Resting
  <2>1. CASE c = job[p].conv
    BY <1>1, <2>1 DEF Busy, At
  <2>2. CASE c # job[p].conv
    <3>1. \A q \in Procs : Busy(q) => job[q].conv # c
      BY <1>2, <2>2 DEF Busy, At
    <3>2. AtRest(messages[c], conversations[c])
      BY <3>1 DEF Turns, Resting
    <3> QED BY <2>2, <3>2
  <2> QED BY <2>1, <2>2
<1> QED BY <1>3, <1>4, <1>5 DEF Turns

LEMMA StepInv ==
  ASSUME IInv, NEW p \in Procs, Busy(p), NEW j \in Request, Become(p, j), Tables',
         DOMAIN conversations' = DOMAIN conversations, j.pc # "idle" => j.conv = job[p].conv,
         NEW s \in Parser, Stream(s), Fits(j, s), stream' = [stream EXCEPT ![p] = s],
         calm' =>
           /\ calm
           /\ \A c \in DOMAIN conversations :
                c # job[p].conv => messages'[c] = messages[c] /\ conversations'[c] = conversations[c]
           /\ j.pc # "idle" => AtWork(j, messages'[job[p].conv], conversations'[job[p].conv])
           /\ j.pc = "idle" => AtRest(messages'[job[p].conv], conversations'[job[p].conv])
  PROVE  IInv'
<1>1. \A q \in Procs : job'[q] = IF q = p THEN j ELSE job[q]
  BY DEF IInv, Become, TypeInv, Requests
<1>2. Requests'
  <2>1. job[p].conv \in DOMAIN conversations
    BY DEF IInv, TypeInv, Requests
  <2>2. job' \in [Procs -> Request]
    BY DEF IInv, Become, TypeInv, Requests
  <2> QED BY <1>1, <2>1, <2>2 DEF IInv, TypeInv, Requests, Busy, At
<1>3. Streams'
  <2>1. \A q \in Procs : stream'[q] = IF q = p THEN s ELSE stream[q]
    BY DEF IInv, TypeInv, Streams
  <2>2. stream' \in [Procs -> Parser]
    BY DEF IInv, TypeInv, Streams
  <2> QED BY <1>1, <2>1, <2>2 DEF IInv, TypeInv, Streams
<1>4. calm' => Turns'
  <2> SUFFICES ASSUME calm'
               PROVE  Turns'
    OBVIOUS
  <2>1. TypeInv /\ Turns
    BY DEF IInv
  <2> QED BY <2>1, Solo
<1> QED BY <1>2, <1>3, <1>4 DEF IInv, TypeInv

(* A step that has no more to do than go on with the request. *)
LEMMA GoOn ==
  ASSUME IInv, NEW p \in Procs, Busy(p), NEW j \in Request, Become(p, j),
         j.pc # "idle" => j.conv = job[p].conv,
         NEW s \in Parser, Stream(s), Fits(j, s), stream' = [stream EXCEPT ![p] = s],
         UNCHANGED <<conversations, messages, turns>>,
         calm' \in BOOLEAN, lost' \subseteq 0..MaxTurns, faults' \in 0..MaxFaults, calm' => calm,
         calm' /\ AtWork(job[p], messages[job[p].conv], conversations[job[p].conv]) =>
           /\ j.pc # "idle" => AtWork(j, messages[job[p].conv], conversations[job[p].conv])
           /\ j.pc = "idle" => AtRest(messages[job[p].conv], conversations[job[p].conv])
  PROVE  IInv'
<1>1. Tables'
  BY DEF IInv, TypeInv, Tables
<1>2. calm' => AtWork(job[p], messages[job[p].conv], conversations[job[p].conv])
  BY DEF IInv, Turns, Working
<1> QED BY <1>1, <1>2, StepInv

(* The statements of a request and what goes wrong with them. *)
LEMMA FaultTyped ==
  ASSUME TypeInv, NEW p \in Procs
  PROVE  /\ NoFault \/ StatementRuns(p) \/ RagFault("rag") =>
              calm' = calm /\ lost' \subseteq 0..MaxTurns /\ faults' \in 0..MaxFaults
         /\ StatementFails(p) =>
              calm' = FALSE /\ lost' \subseteq 0..MaxTurns /\ faults' \in 0..MaxFaults
         /\ calm \in BOOLEAN /\ stream = [stream EXCEPT ![p] = stream[p]]
         /\ stream[p] \in Parser /\ Stream(stream[p]) /\ Fits(job[p], stream[p])
<1>1. /\ calm \in BOOLEAN /\ lost \subseteq 0..MaxTurns /\ faults \in 0..MaxFaults
      /\ job[p].turn \in 0..MaxTurns /\ MaxFaults \in Nat
  BY ConstantsOK DEF TypeInv, Tables, Requests, Request
<1>2. /\ stream = [stream EXCEPT ![p] = stream[p]]
      /\ stream[p] \in Parser /\ Stream(stream[p]) /\ Fits(job[p], stream[p])
  BY DEF TypeInv, Streams
<1>3. \A kind : Fault(kind) => faults' \in 0..MaxFaults
  BY <1>1 DEF Fault
<1> QED BY <1>1, <1>2, <1>3 DEF NoFault, StatementRuns, RagFault, StatementFails

LEMMA Inserted ==
  ASSUME TypeInv, NEW p \in Procs, Busy(p), NEW kind \in Kinds, NEW chunks \in Nat,
         Insert(p, kind, chunks), UNCHANGED <<conversations, turns>>,
         calm' \in BOOLEAN, lost' \subseteq 0..MaxTurns, faults' \in 0..MaxFaults,
         NEW m, m = [kind |-> kind, turn |-> job[p].turn, chunks |-> chunks]
  PROVE  /\ m \in Message /\ m.kind = kind /\ m.turn = job[p].turn
         /\ Tables' /\ DOMAIN conversations' = DOMAIN conversations
         /\ messages'[job[p].conv] = Append(messages[job[p].conv], m)
         /\ \A c \in DOMAIN conversations :
              c # job[p].conv => messages'[c] = messages[c] /\ conversations'[c] = conversations[c]
<1>1. m \in Message /\ m.kind = kind /\ m.turn = job[p].turn
  BY WorkTyped, ConstantsOK DEF Message, Request
<1>2. PICK new : new = Append(messages[job[p].conv], m)
  OBVIOUS
<1>3. messages' = [messages EXCEPT ![job[p].conv] = new]
  BY <1>2 DEF Insert
<1>4. new \in Seq(Message) /\ job[p].conv \in DOMAIN messages /\ messages \in Seq(Seq(Message))
  BY <1>1, <1>2, WorkTyped, AppendProperties DEF TypeInv, Tables
<1>5. messages' \in Seq(Seq(Message)) /\ Len(messages') = Len(messages)
      /\ messages'[job[p].conv] = new
      /\ \A c \in DOMAIN messages : c # job[p].conv => messages'[c] = messages[c]
  BY <1>3, <1>4, ExceptSeq
<1>6. Tables'
  BY <1>5 DEF TypeInv, Tables
<1> QED BY <1>1, <1>2, <1>5, <1>6, WorkTyped

(* A column of a conversation is written. *)
LEMMA Rewritten ==
  ASSUME TypeInv, NEW c \in DOMAIN conversations, NEW new \in Conversation,
         conversations' = [conversations EXCEPT ![c] = new], UNCHANGED <<messages, turns>>,
         calm' \in BOOLEAN, lost' \subseteq 0..MaxTurns, faults' \in 0..MaxFaults
  PROVE  /\ Tables' /\ DOMAIN conversations' = DOMAIN conversations
         /\ conversations'[c] = new
         /\ \A d \in DOMAIN conversations :
              d # c => messages'[d] = messages[d] /\ conversations'[d] = conversations[d]
<1>1. conversations \in Seq(Conversation)
  BY DEF TypeInv, Tables
<1>2. conversations' \in Seq(Conversation) /\ Len(conversations') = Len(conversations)
      /\ conversations'[c] = new
      /\ \A d \in DOMAIN conversations : d # c => conversations'[d] = conversations[d]
  BY <1>1, ExceptSeq
<1>3. DOMAIN conversations' = DOMAIN conversations
  BY <1>1, <1>2, LenProperties
<1> QED BY <1>2, <1>3 DEF TypeInv, Tables

-----------------------------------------------------------------------------
(* The steps of a turn *)

LEMMA LoadHistoryStep ==
  ASSUME IInv, NEW p \in Procs, LoadHistory(p)
  PROVE  IInv'
<1>1. job[p].pc = "load" /\ UNCHANGED <<conversations, messages, turns, stream>> /\ TypeInv
  BY DEF LoadHistory, At, IInv
<1>2. Busy(p)
  BY <1>1 DEF Busy, At
<1>3. CASE StatementRuns(p)
          /\ Become(p, [job[p] EXCEPT !.pc = "question", !.history = History(job[p].conv)])
  <2>1. PICK j : j = [job[p] EXCEPT !.pc = "question", !.history = History(job[p].conv)]
    OBVIOUS
  <2>2. /\ History(job[p].conv) \in Seq(Message)
        /\ Len(messages[job[p].conv]) <= MaxHistory => History(job[p].conv) = messages[job[p].conv]
    BY <1>1, <1>2, WorkTyped, WholeHistory, ConstantsOK
  <2>3. /\ j \in Request /\ j.pc = "question" /\ j.conv = job[p].conv /\ j.gone = job[p].gone
        /\ j.history = History(job[p].conv) /\ j.turn = job[p].turn /\ j.shown = job[p].shown
    BY <1>1, <2>1, <2>2, WorkTyped DEF Request, PC
  <2>4. /\ AtWork(job[p], messages[job[p].conv], conversations[job[p].conv]) =>
             AtWork(j, messages[job[p].conv], conversations[job[p].conv])
        /\ Fits(j, stream[p])
    BY <1>1, <2>2, <2>3, FaultTyped DEF AtWork, Fits
  <2>5. /\ calm' \in BOOLEAN /\ (calm' => calm)
        /\ lost' \subseteq 0..MaxTurns /\ faults' \in 0..MaxFaults
        /\ stream[p] \in Parser /\ Stream(stream[p]) /\ stream' = [stream EXCEPT ![p] = stream[p]]
    BY <1>1, <1>3, FaultTyped
  <2>6. Become(p, j)
    BY <1>3, <2>1
  <2> QED BY <1>1, <1>2, <2>3, <2>4, <2>5, <2>6, GoOn
<1>4. CASE StatementFails(p) /\ End(p)
  BY <1>1, <1>2, <1>4, FaultTyped, IdleTyped, GoOn DEF End
<1> QED BY <1>3, <1>4 DEF LoadHistory

LEMMA SaveQuestionStep ==
  ASSUME IInv, NEW p \in Procs, SaveQuestion(p)
  PROVE  IInv'
<1>1. job[p].pc = "question" /\ UNCHANGED <<conversations, turns, stream>> /\ TypeInv
  BY DEF SaveQuestion, At, IInv
<1>2. Busy(p)
  BY <1>1 DEF Busy, At
<1>3. CASE StatementRuns(p) /\ Insert(p, "question", 0) /\ Goto(p, "call")
  <2>1. PICK j, m : /\ j = [job[p] EXCEPT !.pc = "call"]
                    /\ m = [kind |-> "question", turn |-> job[p].turn, chunks |-> 0]
    OBVIOUS
  <2>2. PICK rows, c, new : /\ rows = messages[job[p].conv] /\ c = conversations[job[p].conv]
                            /\ new = Append(rows, m)
    OBVIOUS
  <2>3. /\ m \in Message /\ m.kind = "question" /\ m.turn = job[p].turn
        /\ Tables' /\ DOMAIN conversations' = DOMAIN conversations /\ messages'[job[p].conv] = new
        /\ \A d \in DOMAIN conversations :
             d # job[p].conv => messages'[d] = messages[d] /\ conversations'[d] = conversations[d]
    <3>1. /\ calm' \in BOOLEAN /\ lost' \subseteq 0..MaxTurns /\ faults' \in 0..MaxFaults
          /\ "question" \in Kinds /\ 0 \in Nat /\ UNCHANGED <<conversations, turns>>
      BY <1>1, <1>3, FaultTyped DEF Kinds
    <3> QED BY <1>1, <1>2, <1>3, <2>1, <2>2, <3>1, Inserted
  <2>4. /\ j \in Request /\ j.pc = "call" /\ j.conv = job[p].conv /\ j.gone = job[p].gone
        /\ j.history = job[p].history /\ j.turn = job[p].turn /\ Become(p, j)
        /\ j.shown = job[p].shown
    BY <1>1, <1>3, <2>1, WorkTyped DEF Request, PC, Goto
  <2>5. rows \in Seq(Message) /\ calm' = calm /\ conversations' = conversations
    BY <1>1, <1>2, <1>3, <2>2, WorkTyped, FaultTyped
  <2>6. ASSUME calm
        PROVE  AtWork(j, new, c)
    <3>1. AtWork(job[p], rows, c)
      BY <1>2, <2>2, <2>6 DEF IInv, Turns, Working
    <3>2. /\ c.live /\ ~job[p].gone /\ Alternates(rows) /\ Len(rows) % 2 = 0
          /\ TitleIsFirst(rows, c.title) /\ (Len(rows) <= MaxHistory => job[p].history = rows)
      BY <1>1, <3>1 DEF AtWork, AtRest
    <3>3. Alternates(new) /\ TitleIsFirst(new, c.title)
      BY <2>2, <2>3, <2>5, <3>2, NextRow, TitleStays, ZenonT(60)
    <3>4. Len(new) = Len(rows) + 1 /\ Len(rows) \in Nat /\ new[Len(new)] = m /\ Len(new) % 2 = 1
      <4>1. /\ Len(new) = Len(rows) + 1 /\ Len(rows) \in Nat /\ new[Len(new)] = m
            /\ Len(new) % 2 = 1 - (Len(rows) % 2)
        <5>1. rows \in Seq(Message) /\ m \in Message /\ new = Append(rows, m)
          BY <2>2, <2>3, <2>5
        <5> QED BY ONLY <5>1, Appended
      <4> QED BY <3>2, <4>1
    <3>5. Len(new) <= MaxHistory + 1 => Append(j.history, new[Len(new)]) = new
      BY <2>2, <2>4, <3>2, <3>4, ConstantsOK
    <3> QED BY <2>3, <2>4, <3>2, <3>3, <3>4, <3>5 DEF AtWork
  <2>7. Fits(j, stream[p])
    BY <1>1, <2>4, FaultTyped DEF Fits
  <2> QED BY <1>1, <1>2, <2>2, <2>3, <2>4, <2>5, <2>6, <2>7, FaultTyped, StepInv
<1>4. CASE StatementFails(p) /\ End(p) /\ UNCHANGED messages
  BY <1>1, <1>2, <1>4, FaultTyped, IdleTyped, GoOn DEF End
<1> QED BY <1>3, <1>4 DEF SaveQuestion

(* From the call to the answer or the apology the rows stay as they are. *)
LEMMA CallStep ==
  ASSUME IInv, NEW p \in Procs, NEW j \in Request, Become(p, j), Busy(p),
         job[p].pc \in {"call", "consume"}, j.pc \in {"consume", "answer", "sorry"},
         j.conv = job[p].conv, j.turn = job[p].turn, j.gone = job[p].gone,
         NEW s \in Parser, Stream(s), Fits(j, s), stream' = [stream EXCEPT ![p] = s],
         UNCHANGED <<conversations, messages, turns>>, NoFault \/ RagFault("rag")
  PROVE  IInv'
<1>1. /\ calm' \in BOOLEAN /\ calm' = calm
      /\ lost' \subseteq 0..MaxTurns /\ faults' \in 0..MaxFaults
  BY FaultTyped DEF IInv
<1>2. \A rows, c : AtWork(job[p], rows, c) => AtWork(j, rows, c)
  BY DEF AtWork
<1> QED BY <1>1, <1>2, GoOn

LEMMA CallFailsStep ==
  ASSUME IInv, NEW p \in Procs, CallFails(p)
  PROVE  IInv'
<1>1. /\ job[p].pc = "call" /\ UNCHANGED <<conversations, messages, turns>> /\ TypeInv
      /\ NoFault \/ RagFault("rag")
  BY DEF CallFails, At, IInv
<1>2. Busy(p)
  BY <1>1 DEF Busy, At
<1>3. CASE UNCHANGED stream /\ (Goto(p, "sorry") \/ Goto(p, "answer"))
  <2>1. PICK pc \in {"sorry", "answer"} : Goto(p, pc)
    BY <1>3
  <2>2. PICK j : j = [job[p] EXCEPT !.pc = pc]
    OBVIOUS
  <2>3. /\ j \in Request /\ j.pc = pc /\ j.conv = job[p].conv /\ j.gone = job[p].gone
        /\ j.turn = job[p].turn /\ Become(p, j) /\ Fits(j, stream[p])
    BY <1>1, <2>1, <2>2, WorkTyped DEF Request, PC, Goto, Fits
  <2> QED BY <1>1, <1>2, <1>3, <2>3, FaultTyped, CallStep
<1>4. CASE Goto(p, "consume") /\ stream' = [stream EXCEPT ![p] = NoParser]
  <2>1. PICK j, s : j = [job[p] EXCEPT !.pc = "consume"] /\ s = NoParser
    OBVIOUS
  <2>2. /\ j \in Request /\ j.pc = "consume" /\ j.conv = job[p].conv /\ j.gone = job[p].gone
        /\ j.turn = job[p].turn /\ Become(p, j) /\ j.shown = job[p].shown
    BY <1>1, <1>4, <2>1, WorkTyped DEF Request, PC, Goto
  <2>3. Fits(j, s)
    <3>1. j.shown = 0
      BY <1>1, <2>2, FaultTyped DEF Fits
    <3> QED BY <2>1, <2>2, <3>1, IdleTyped, NoneToCome
  <2> QED BY <1>1, <1>2, <1>4, <2>1, <2>2, <2>3, IdleTyped, CallStep
<1> QED BY <1>3, <1>4 DEF CallFails

LEMMA ChatCompletionStep ==
  ASSUME IInv, NEW p \in Procs, ChatCompletion(p)
  PROVE  IInv'
<1>1. PICK j : j = [job[p] EXCEPT !.pc = "answer", !.shown = MaxChunks]
  OBVIOUS
<1>2. /\ job[p].pc = "call" /\ UNCHANGED <<conversations, messages, turns, stream>> /\ TypeInv
      /\ NoFault /\ Become(p, j)
  BY <1>1 DEF ChatCompletion, At, IInv
<1>3. Busy(p)
  BY <1>2 DEF Busy, At
<1>4. /\ j \in Request /\ j.pc = "answer" /\ j.conv = job[p].conv /\ j.gone = job[p].gone
      /\ j.turn = job[p].turn
  <2>1. MaxChunks \in 0..MaxChunks /\ job[p] \in Request
    BY <1>2, WorkTyped, ConstantsOK
  <2> QED BY <1>1, <2>1 DEF Request, PC
<1>5. Fits(j, stream[p])
  BY <1>4 DEF Fits
<1> QED BY <1>2, <1>3, <1>4, <1>5, FaultTyped, CallStep

LEMMA ChatCompletionStreamStep ==
  ASSUME IInv, NEW p \in Procs, ChatCompletionStream(p)
  PROVE  IInv'
<1>1. PICK j, s : /\ j = [job[p] EXCEPT !.pc = "consume"]
                  /\ s = [NoParser EXCEPT !.open = TRUE, !.left = MaxChunks]
  OBVIOUS
<1>2. /\ job[p].pc = "call" /\ UNCHANGED <<conversations, messages, turns>> /\ TypeInv
      /\ NoFault /\ Become(p, j) /\ stream' = [stream EXCEPT ![p] = s]
  BY <1>1 DEF ChatCompletionStream, Goto, At, IInv
<1>3. Busy(p)
  BY <1>2 DEF Busy, At
<1>4. /\ j \in Request /\ j.pc = "consume" /\ j.conv = job[p].conv /\ j.gone = job[p].gone
      /\ j.turn = job[p].turn /\ j.shown = job[p].shown
  BY <1>1, <1>2, WorkTyped DEF Request, PC
<1>5. /\ s \in Parser /\ s.chan = <<>> /\ s.open /\ s.hold = "none" /\ s.left = MaxChunks
  BY <1>1, IdleTyped, ConstantsOK DEF Parser
<1>6. Stream(s)
  BY <1>5, ConstantsOK DEF Stream
<1>7. Fits(j, s)
  <2>1. j.shown = 0
    BY <1>2, <1>4, FaultTyped DEF Fits
  <2> QED BY <1>4, <1>5, <2>1, NoneToCome
<1> QED BY <1>2, <1>3, <1>4, <1>5, <1>6, <1>7, CallStep

(* The channel gives up its first item. *)
LEMMA Taken ==
  ASSUME NEW s \in Parser, Stream(s), s.chan # <<>>, NEW t, t = [s EXCEPT !.chan = Tail(s.chan)]
  PROVE  /\ t \in Parser /\ Stream(t) /\ t.left = s.left /\ Held(t) = Held(s)
         /\ Head(s.chan) = "text" => Texts(t) = Texts(s) - 1
         /\ Texts(s) \in Nat /\ Held(s) \in Nat
<1>1. /\ s.chan \in Seq(Items) /\ Head(s.chan) = s.chan[1] /\ Tail(s.chan) \in Seq(Items)
      /\ Len(s.chan) \in Nat \ {0} /\ Len(Tail(s.chan)) = Len(s.chan) - 1
      /\ \A i \in 1..Len(Tail(s.chan)) : Tail(s.chan)[i] = s.chan[i + 1]
      /\ DOMAIN s.chan = 1..Len(s.chan) /\ DOMAIN Tail(s.chan) = 1..Len(Tail(s.chan))
  BY HeadTailProperties, LenProperties, EmptySeq DEF Parser
<1>2. /\ t \in Parser /\ t.chan = Tail(s.chan) /\ t.left = s.left /\ t.hold = s.hold
      /\ t.open = s.open
  BY <1>1 DEF Parser
<1>3. Stream(t)
  <2>1. Len(t.chan) <= ChannelCap
    BY <1>1, <1>2, ConstantsOK DEF Stream
  <2>2. ASSUME s.open, NEW i \in DOMAIN t.chan PROVE t.chan[i] \notin Final
    <3>1. i + 1 \in DOMAIN s.chan /\ t.chan[i] = s.chan[i + 1]
      BY <1>1, <1>2
    <3> QED BY <2>2, <3>1 DEF Stream
  <2> QED BY <1>2, <2>1, <2>2 DEF Stream
<1>4. Held(t) = Held(s) /\ Held(s) \in Nat
  BY <1>2 DEF Held
<1>5. Texts(s) \in Nat
  BY <1>1 DEF Texts
<1>6. ASSUME Head(s.chan) = "text"
      PROVE  Texts(t) = Texts(s) - 1
  <2>1. CASE Len(s.chan) = 1
    <3>1. t.chan = <<>> /\ s.chan[Len(s.chan)] = "text"
      BY <1>1, <1>2, <1>6, <2>1, EmptySeq
    <3>2. Texts(t) = 0
      BY <3>1 DEF Texts
    <3>3. Texts(s) = 1
      BY <2>1, <3>1 DEF Texts, Final
    <3> QED BY <3>2, <3>3
  <2>2. CASE Len(s.chan) # 1
    <3>1. /\ t.chan # <<>> /\ Len(t.chan) = Len(s.chan) - 1
          /\ t.chan[Len(t.chan)] = s.chan[Len(s.chan)]
      <4>1. PICK n : n = Len(s.chan) - 1
        OBVIOUS
      <4>2. Len(t.chan) = n /\ n \in Nat \ {0} /\ n \in 1..Len(t.chan) /\ Len(s.chan) = n + 1
        <5>1. /\ Len(s.chan) \in Nat \ {0} /\ Len(s.chan) # 1
              /\ Len(t.chan) = Len(s.chan) - 1
          BY <1>1, <1>2, <2>2
        <5>2. n \in Nat \ {0} /\ Len(s.chan) = n + 1 /\ Len(t.chan) = n
          BY <4>1, <5>1, OneLess
        <5> QED BY <5>2
      <4>3. t.chan[n] = s.chan[n + 1]
        BY <1>1, <1>2, <4>2
      <4>4. t.chan # <<>>
        BY ONLY <4>2
      <4> QED BY <4>1, <4>2, <4>3, <4>4
    <3> QED BY <1>1, <3>1 DEF Texts
  <2> QED BY <2>1, <2>2
<1> QED BY <1>2, <1>3, <1>4, <1>5, <1>6

LEMMA ConsumeChunkStep ==
  ASSUME IInv, NEW p \in Procs, ConsumeChunk(p)
  PROVE  IInv'
<1>1. PICK s, t : s = stream[p] /\ t = [s EXCEPT !.chan = Tail(s.chan)]
  OBVIOUS
<1>2. /\ job[p].pc = "consume" /\ s.chan # <<>> /\ stream' = [stream EXCEPT ![p] = t]
      /\ IF Head(s.chan) = "text"
         THEN Become(p, [job[p] EXCEPT !.shown = job[p].shown + 1])
         ELSE Goto(p, "answer")
      /\ UNCHANGED <<conversations, messages, turns>> /\ NoFault
  BY <1>1 DEF ConsumeChunk, At, AfterLast, NoFault
<1>3. Busy(p) /\ TypeInv
  BY <1>2 DEF Busy, At, IInv
<1>4. s \in Parser /\ Stream(s) /\ Fits(job[p], s) /\ job[p] \in Request
  BY <1>1, <1>3, FaultTyped, WorkTyped
<1>5. /\ t \in Parser /\ Stream(t) /\ t.left = s.left /\ Held(t) = Held(s)
      /\ Head(s.chan) = "text" => Texts(t) = Texts(s) - 1
      /\ Texts(s) \in Nat /\ Held(s) \in Nat
  BY <1>1, <1>2, <1>4, Taken
<1>6. CASE Head(s.chan) = "text"
  <2>1. PICK j : j = [job[p] EXCEPT !.shown = job[p].shown + 1]
    OBVIOUS
  <2>2. /\ job[p].shown \in 0..MaxChunks /\ s.left \in Nat /\ Texts(s) - 1 = Texts(t)
        /\ job[p].shown + s.left + Held(s) + Texts(s) <= MaxChunks /\ Texts(t) \in Nat
    <3>1. Texts(t) \in Nat
      <4>1. Len(t.chan) \in Nat /\ (t.chan # <<>> => Len(t.chan) # 0)
        BY <1>5, EmptySeq, LenProperties DEF Parser
      <4> QED BY <4>1 DEF Texts
    <3> QED BY <1>2, <1>4, <1>5, <1>6, <3>1 DEF Fits, Request, Parser
  <2>3. job[p].shown + 1 \in 0..MaxChunks
    BY <1>5, <2>2, ConstantsOK
  <2>4. /\ j \in Request /\ j.pc = "consume" /\ j.conv = job[p].conv /\ j.gone = job[p].gone
        /\ j.turn = job[p].turn /\ j.shown = job[p].shown + 1 /\ Become(p, j)
    BY <1>2, <1>4, <1>6, <2>1, <2>3 DEF Request
  <2>5. Fits(j, t)
    BY <1>5, <2>2, <2>4 DEF Fits
  <2> QED BY <1>2, <1>3, <1>5, <2>4, <2>5, CallStep
<1>7. CASE Head(s.chan) # "text"
  <2>1. PICK j : j = [job[p] EXCEPT !.pc = "answer"]
    OBVIOUS
  <2>2. /\ j \in Request /\ j.pc = "answer" /\ j.conv = job[p].conv /\ j.gone = job[p].gone
        /\ j.turn = job[p].turn /\ Become(p, j)
    BY <1>2, <1>4, <1>7, <2>1 DEF Request, PC, Goto
  <2>3. Fits(j, t)
    BY <2>2 DEF Fits
  <2> QED BY <1>2, <1>3, <1>5, <2>2, <2>3, CallStep
<1> QED BY <1>6, <1>7

LEMMA ChannelClosedStep ==
  ASSUME IInv, NEW p \in Procs, ChannelClosed(p)
  PROVE  IInv'
<1>1. PICK j : j = [job[p] EXCEPT !.pc = "answer"]
  OBVIOUS
<1>2. /\ job[p].pc = "consume" /\ UNCHANGED <<conversations, messages, turns, stream>> /\ TypeInv
      /\ NoFault /\ Become(p, j)
  BY <1>1 DEF ChannelClosed, Goto, At, IInv, NoFault
<1>3. Busy(p)
  BY <1>2 DEF Busy, At
<1>4. /\ j \in Request /\ j.pc = "answer" /\ j.conv = job[p].conv /\ j.gone = job[p].gone
      /\ j.turn = job[p].turn
  BY <1>1, <1>2, WorkTyped DEF Request, PC
<1>5. Fits(j, stream[p])
  BY <1>4 DEF Fits
<1> QED BY <1>2, <1>3, <1>4, <1>5, FaultTyped, CallStep

(* The reply to a question makes the turn whole. *)
LEMMA RowReplies ==
  ASSUME NEW j, NEW rows \in Seq(Message), NEW c, NEW m \in Message, NEW new,
         new = Append(rows, m), m.kind # "question", m.turn = j.turn,
         j.pc \in {"answer", "sorry"}, AtWork(j, rows, c)
  PROVE  /\ m.kind = "sorry" => AtRest(new, c)
         /\ \A k : m.kind = "answer" /\ k.pc = "title" /\ k.gone = j.gone /\ k.turn = j.turn
                => AtWork(k, new, c)
<1>1. /\ c.live /\ ~j.gone /\ Alternates(rows) /\ TitleIsFirst(rows, c.title)
      /\ Len(rows) % 2 = 1 /\ rows[Len(rows)].turn = j.turn
  BY DEF AtWork
<1>2. Alternates(new) /\ TitleIsFirst(new, c.title)
  BY <1>1, NextRow, TitleStays
<1>3. /\ new # <<>> /\ Len(new) \in Nat /\ new[Len(new)] = m
      /\ Len(new) % 2 = 1 - (Len(rows) % 2)
  BY ONLY Appended, rows \in Seq(Message), m \in Message, new = Append(rows, m)
<1>4. Len(new) % 2 = 0
  BY <1>1, <1>3
<1>5. m.kind = "sorry" => AtRest(new, c)
  BY <1>1, <1>2, <1>3, <1>4 DEF AtRest, Titled
<1>6. \A k : m.kind = "answer" /\ k.pc = "title" /\ k.gone = j.gone /\ k.turn = j.turn
             => AtWork(k, new, c)
  BY <1>1, <1>2, <1>3, <1>4 DEF AtWork
<1> QED BY <1>5, <1>6

LEMMA SaveAnswerStep ==
  ASSUME IInv, NEW p \in Procs, SaveAnswer(p)
  PROVE  IInv'
<1>1. job[p].pc = "answer" /\ UNCHANGED <<conversations, turns, stream>> /\ TypeInv
  BY DEF SaveAnswer, At, IInv
<1>2. Busy(p)
  BY <1>1 DEF Busy, At
<1>3. PICK j : j = [job[p] EXCEPT !.pc = "title"]
  OBVIOUS
<1>4. /\ j \in Request /\ j.pc = "title" /\ j.conv = job[p].conv /\ j.gone = job[p].gone
      /\ j.turn = job[p].turn /\ job[p].shown \in Nat
  <2>1. job[p] \in Request
    BY <1>1, WorkTyped
  <2>2. job[p].shown \in Nat
    BY <2>1, ConstantsOK DEF Request
  <2> QED BY <1>3, <2>1, <2>2 DEF Request, PC
<1>5. Fits(j, stream[p])
  BY <1>4 DEF Fits
<1>6. CASE StatementRuns(p) /\ Insert(p, "answer", job[p].shown) /\ Goto(p, "title")
  <2>1. PICK m : m = [kind |-> "answer", turn |-> job[p].turn, chunks |-> job[p].shown]
    OBVIOUS
  <2>2. PICK rows, c, new : /\ rows = messages[job[p].conv] /\ c = conversations[job[p].conv]
                            /\ new = Append(rows, m)
    OBVIOUS
  <2>3. /\ m \in Message /\ m.kind = "answer" /\ m.turn = job[p].turn
        /\ Tables' /\ DOMAIN conversations' = DOMAIN conversations /\ messages'[job[p].conv] = new
        /\ \A d \in DOMAIN conversations :
             d # job[p].conv => messages'[d] = messages[d] /\ conversations'[d] = conversations[d]
    <3>1. /\ calm' \in BOOLEAN /\ lost' \subseteq 0..MaxTurns /\ faults' \in 0..MaxFaults
          /\ "answer" \in Kinds /\ UNCHANGED <<conversations, turns>>
      BY <1>1, <1>6, FaultTyped DEF Kinds
    <3> QED BY <1>1, <1>2, <1>4, <1>6, <2>1, <2>2, <3>1, Inserted, SMTT(60)
  <2>4. Become(p, j) /\ rows \in Seq(Message) /\ calm' = calm /\ conversations' = conversations
    BY <1>1, <1>2, <1>3, <1>6, <2>2, WorkTyped, FaultTyped DEF Goto
  <2>5. ASSUME calm
        PROVE  AtWork(j, new, c)
    <3>1. AtWork(job[p], rows, c)
      BY <1>2, <2>2, <2>5 DEF IInv, Turns, Working
    <3> QED BY <1>1, <1>4, <2>2, <2>3, <2>4, <3>1, RowReplies
  <2> QED BY <1>1, <1>2, <1>4, <1>5, <2>2, <2>3, <2>4, <2>5, FaultTyped, StepInv
<1>7. CASE StatementFails(p) /\ End(p) /\ UNCHANGED messages
  BY <1>1, <1>2, <1>7, FaultTyped, IdleTyped, GoOn DEF End
<1>8. CASE StatementFails(p) /\ Goto(p, "title") /\ UNCHANGED messages
  <2>1. Become(p, j)
    BY <1>3, <1>8 DEF Goto
  <2> QED BY <1>1, <1>2, <1>4, <1>5, <1>8, <2>1, FaultTyped, GoOn
<1> QED BY <1>6, <1>7, <1>8 DEF SaveAnswer

LEMMA SaveSorryStep ==
  ASSUME IInv, NEW p \in Procs, SaveSorry(p)
  PROVE  IInv'
<1>1. /\ job[p].pc = "sorry" /\ UNCHANGED <<conversations, turns, stream>> /\ TypeInv
      /\ Become(p, Idle)
  BY DEF SaveSorry, At, IInv, End
<1>2. Busy(p)
  BY <1>1 DEF Busy, At
<1>3. CASE StatementRuns(p) /\ Insert(p, "sorry", 0)
  <2>1. PICK m : m = [kind |-> "sorry", turn |-> job[p].turn, chunks |-> 0]
    OBVIOUS
  <2>2. PICK rows, c, new : /\ rows = messages[job[p].conv] /\ c = conversations[job[p].conv]
                            /\ new = Append(rows, m)
    OBVIOUS
  <2>3. /\ m \in Message /\ m.kind = "sorry" /\ m.turn = job[p].turn
        /\ Tables' /\ DOMAIN conversations' = DOMAIN conversations /\ messages'[job[p].conv] = new
        /\ \A d \in DOMAIN conversations :
             d # job[p].conv => messages'[d] = messages[d] /\ conversations'[d] = conversations[d]
    <3>1. /\ calm' \in BOOLEAN /\ lost' \subseteq 0..MaxTurns /\ faults' \in 0..MaxFaults
          /\ "sorry" \in Kinds /\ 0 \in Nat /\ UNCHANGED <<conversations, turns>>
      BY <1>1, <1>3, FaultTyped DEF Kinds
    <3> QED BY <1>1, <1>2, <1>3, <2>1, <2>2, <3>1, Inserted
  <2>4. rows \in Seq(Message) /\ calm' = calm /\ conversations' = conversations
    BY <1>1, <1>2, <1>3, <2>2, WorkTyped, FaultTyped
  <2>5. ASSUME calm
        PROVE  AtRest(new, c)
    <3>1. AtWork(job[p], rows, c)
      BY <1>2, <2>2, <2>5 DEF IInv, Turns, Working
    <3> QED BY <1>1, <2>2, <2>3, <2>4, <3>1, RowReplies, ZenonT(60)
  <2> QED BY <1>1, <1>2, <2>2, <2>3, <2>4, <2>5, FaultTyped, IdleTyped, StepInv
<1>4. CASE StatementFails(p) /\ UNCHANGED messages
  BY <1>1, <1>2, <1>4, FaultTyped, IdleTyped, GoOn
<1> QED BY <1>3, <1>4 DEF SaveSorry, Apologise

LEMMA ListForTitleStep ==
  ASSUME IInv, NEW p \in Procs, ListForTitle(p)
  PROVE  IInv'
<1>1. /\ job[p].pc = "title" /\ UNCHANGED <<conversations, messages, turns, stream>> /\ TypeInv
  BY DEF ListForTitle, At, IInv
<1>2. Busy(p)
  BY <1>1 DEF Busy, At
<1>3. /\ calm' \in BOOLEAN /\ lost' \subseteq 0..MaxTurns /\ faults' \in 0..MaxFaults
      /\ calm' => StatementRuns(p) /\ calm
  BY <1>1, FaultTyped DEF ListForTitle
<1>4. CASE Goto(p, "retitle") /\ (calm' => ~IsLaterTurn(job[p].conv))
  <2>1. PICK j : j = [job[p] EXCEPT !.pc = "retitle"]
    OBVIOUS
  <2>2. /\ j \in Request /\ j.pc = "retitle" /\ j.conv = job[p].conv /\ j.gone = job[p].gone
        /\ j.turn = job[p].turn /\ Become(p, j)
    BY <1>1, <1>4, <2>1, WorkTyped DEF Request, PC, Goto
  <2>3. Fits(j, stream[p])
    BY <2>2 DEF Fits
  <2>4. calm' /\ AtWork(job[p], messages[job[p].conv], conversations[job[p].conv]) =>
          AtWork(j, messages[job[p].conv], conversations[job[p].conv])
    <3>1. calm' => Len(messages[job[p].conv]) <= 2
      BY <1>1, <1>2, <1>4, WorkTyped, LenProperties DEF IsLaterTurn, Rows
    <3> QED BY <1>1, <2>2, <3>1 DEF AtWork
  <2> QED BY <1>1, <1>2, <1>3, <2>2, <2>3, <2>4, FaultTyped, GoOn
<1>5. CASE End(p) /\ IsLaterTurn(job[p].conv)
  <2>1. AtWork(job[p], messages[job[p].conv], conversations[job[p].conv]) =>
          AtRest(messages[job[p].conv], conversations[job[p].conv])
    <3>1. Len(messages[job[p].conv]) # 2
      <4>1. messages[job[p].conv] \in Seq(Message)
        BY <1>1, <1>2, WorkTyped
      <4>2. Len(messages[job[p].conv]) \in Nat
        BY <4>1, LenProperties
      <4>3. Len(messages[job[p].conv]) > 2
        BY <1>5 DEF IsLaterTurn, Rows
      <4>4. \A n \in Nat : n > 2 => n # 2
        OBVIOUS
      <4> QED BY <4>2, <4>3, <4>4
    <3> QED BY <1>1, <3>1 DEF AtWork, AtRest, Titled
  <2> QED BY <1>1, <1>2, <1>3, <1>5, <2>1, FaultTyped, IdleTyped, GoOn DEF End
<1>6. CASE StatementRuns(p)
  BY <1>1, <1>4, <1>5, <1>6, FaultTyped DEF ListForTitle
<1>7. CASE StatementFails(p)
  BY <1>1, <1>4, <1>5, <1>7, FaultTyped DEF ListForTitle
<1> QED BY <1>6, <1>7 DEF ListForTitle

LEMMA SetTitleStep ==
  ASSUME IInv, NEW p \in Procs, SetTitle(p)
  PROVE  IInv'
<1>1. /\ job[p].pc = "retitle" /\ UNCHANGED <<messages, turns, stream>> /\ TypeInv
      /\ Become(p, Idle)
  BY DEF SetTitle, At, IInv, End
<1>2. Busy(p)
  BY <1>1 DEF Busy, At
<1>3. ASSUME StatementRuns(p),
             conversations' = [conversations EXCEPT ![job[p].conv].title = [by |-> "turn", turn |-> job[p].turn]]
      PROVE  IInv'
  <2>1. PICK rows, c, title, new :
          /\ rows = messages[job[p].conv] /\ c = conversations[job[p].conv]
          /\ title = [by |-> "turn", turn |-> job[p].turn] /\ new = [c EXCEPT !.title = title]
    OBVIOUS
  <2>2. /\ c \in Conversation /\ rows \in Seq(Message) /\ job[p].conv \in DOMAIN conversations
        /\ job[p].turn \in Nat
    BY <1>1, <1>2, <2>1, WorkTyped, ConstantsOK DEF Request
  <2>3. title.by = "turn" /\ title.turn = job[p].turn /\ title \in Titles
    BY <2>1, <2>2 DEF Titles
  <2>4. new \in Conversation /\ new.live = c.live /\ new.title = title
    BY <2>1, <2>2, <2>3 DEF Conversation
  <2>5. conversations' = [conversations EXCEPT ![job[p].conv] = new]
    BY <1>3, <2>1
  <2>6. /\ calm' = calm /\ calm' \in BOOLEAN
        /\ lost' \subseteq 0..MaxTurns /\ faults' \in 0..MaxFaults
    BY <1>1, <1>3, FaultTyped
  <2>7. /\ Tables' /\ DOMAIN conversations' = DOMAIN conversations
        /\ conversations'[job[p].conv] = new
        /\ \A d \in DOMAIN conversations :
             d # job[p].conv => messages'[d] = messages[d] /\ conversations'[d] = conversations[d]
    BY <1>1, <2>2, <2>4, <2>5, <2>6, Rewritten
  <2>8. ASSUME calm
        PROVE  AtRest(rows, new)
    <3>1. AtWork(job[p], rows, c)
      BY <1>2, <2>1, <2>8 DEF IInv, Turns, Working
    <3>2. /\ c.live /\ Alternates(rows) /\ Len(rows) % 2 = 0 /\ rows # <<>> /\ Len(rows) <= 2
          /\ rows[Len(rows)].turn = job[p].turn
      BY <1>1, <3>1 DEF AtWork
    <3>3. Len(rows) = 2
      <4>1. Len(rows) \in Nat \ {0}
        BY <2>2, <3>2, LastRow
      <4> QED BY <3>2, <4>1, Two
    <3>4. rows[2].turn = rows[1].turn
      BY <2>2, <3>2, <3>3, LenProperties DEF Alternates
    <3> QED BY <2>3, <2>4, <3>2, <3>3, <3>4 DEF AtRest, TitleIsFirst, Titled
  <2> QED BY <1>1, <1>2, <2>1, <2>6, <2>7, <2>8, FaultTyped, IdleTyped, StepInv, ZenonT(60)
<1>4. CASE StatementFails(p) /\ UNCHANGED conversations
  BY <1>1, <1>2, <1>4, FaultTyped, IdleTyped, GoOn
<1> QED BY <1>3, <1>4 DEF SetTitle

-----------------------------------------------------------------------------
(* The steps that begin a request *)

LEMMA StartTyped ==
  ASSUME TypeInv, NEW p \in Procs, Start(p)
  PROVE  /\ job[p].pc = "idle" /\ calm' \in BOOLEAN /\ (calm' => calm)
         /\ lost' \subseteq 0..MaxTurns /\ faults' \in 0..MaxFaults
         /\ calm' => \A q \in Procs : job[q].pc = "idle"
BY DEF Start, AllIdle, At, TypeInv, Tables

LEMMA BeginInv ==
  ASSUME IInv, NEW p \in Procs, Start(p), NEW j \in Request, Become(p, j), Tables',
         DOMAIN conversations' = DOMAIN conversations, j.conv \in DOMAIN conversations,
         j.pc \notin {"idle", "consume"}, j.shown = 0, UNCHANGED stream,
         \A d \in DOMAIN conversations :
           d # j.conv => messages'[d] = messages[d] /\ conversations'[d] = conversations[d],
         AtRest(messages[j.conv], conversations[j.conv]) =>
           AtWork(j, messages'[j.conv], conversations'[j.conv])
  PROVE  IInv'
<1>1. \A q \in Procs : job'[q] = IF q = p THEN j ELSE job[q]
  BY DEF IInv, Become, TypeInv, Requests
<1>2. Requests'
  <2>1. job' \in [Procs -> Request]
    BY DEF IInv, Become, TypeInv, Requests
  <2> QED BY <1>1, <2>1 DEF IInv, TypeInv, Requests, Busy, At
<1>3. Streams'
  <2>1. Fits(j, stream[p])
    BY DEF Fits
  <2> QED BY <1>1, <2>1 DEF IInv, TypeInv, Streams
<1>4. ASSUME calm'
      PROVE  Turns'
  <2>1. calm /\ \A q \in Procs : job[q].pc = "idle"
    BY <1>4, StartTyped DEF IInv
  <2>2. \A d \in DOMAIN conversations : AtRest(messages[d], conversations[d])
    BY <2>1 DEF IInv, Turns, Resting, Busy, At
  <2>3. OneAtATime'
    BY <1>1, <2>1 DEF OneAtATime, Busy, At
  <2>4. Working'
    BY <1>1, <2>1, <2>2 DEF Working, Busy, At
  <2>5. Resting'
    BY <1>1, <2>1, <2>2 DEF Resting, Busy, At
  <2> QED BY <2>3, <2>4, <2>5 DEF Turns
<1> QED BY <1>2, <1>3, <1>4 DEF IInv, TypeInv

LEMMA AskStep ==
  ASSUME IInv, NEW p \in Procs, NEW c \in DOMAIN conversations, NEW streamed \in BOOLEAN,
         Ask(p, c, streamed)
  PROVE  IInv'
<1>1. PICK j : j = [Idle EXCEPT !.pc = "load", !.conv = c, !.turn = turns + 1, !.streamed = streamed]
  OBVIOUS
<1>2. /\ Start(p) /\ c \in Live /\ turns < MaxTurns /\ turns' = turns + 1 /\ Become(p, j)
      /\ UNCHANGED <<conversations, messages, stream>> /\ TypeInv
  BY <1>1 DEF Ask, IInv
<1>3. turns + 1 \in 0..MaxTurns
  BY <1>2, ConstantsOK DEF TypeInv, Tables
<1>4. /\ j \in Request /\ j.pc = "load" /\ j.conv = c /\ j.gone = FALSE /\ j.shown = 0
  <2>1. c \in Nat
    BY <1>2, WorkTyped
  <2>2. Idle \in Request /\ Idle.gone = FALSE /\ Idle.shown = 0
    BY IdleTyped DEF Idle
  <2> QED BY <1>1, <1>3, <2>1, <2>2 DEF Request, PC
<1>5. Tables'
  BY <1>2, <1>3, StartTyped DEF TypeInv, Tables
<1>6. AtRest(messages[c], conversations[c]) => AtWork(j, messages[c], conversations[c])
  <2>1. conversations[c].live
    BY <1>2 DEF Live
  <2> QED BY <1>4, <2>1 DEF AtRest, AtWork
<1> QED BY <1>2, <1>4, <1>5, <1>6, BeginInv

LEMMA DeleteConversationStep ==
  ASSUME IInv, NEW p \in Procs, NEW c \in DOMAIN conversations, DeleteConversation(p, c)
  PROVE  IInv'
<1>1. PICK j : j = [Idle EXCEPT !.pc = "drop", !.conv = c]
  OBVIOUS
<1>2. /\ Start(p) /\ c \in Live /\ messages' = [messages EXCEPT ![c] = <<>>] /\ Become(p, j)
      /\ UNCHANGED <<conversations, turns, stream>> /\ TypeInv
  BY <1>1 DEF DeleteConversation, WithoutMessagesOf, IInv
<1>3. /\ j \in Request /\ j.pc = "drop" /\ j.conv = c /\ j.gone = FALSE /\ j.shown = 0
  <2>1. c \in Nat
    BY <1>2, WorkTyped
  <2>2. Idle \in Request /\ Idle.gone = FALSE /\ Idle.shown = 0
    BY IdleTyped DEF Idle
  <2> QED BY <1>1, <2>1, <2>2 DEF Request, PC
<1>4. /\ messages' \in Seq(Seq(Message)) /\ Len(messages') = Len(messages) /\ messages'[c] = <<>>
      /\ \A d \in DOMAIN messages : d # c => messages'[d] = messages[d]
  <2>1. messages \in Seq(Seq(Message)) /\ c \in DOMAIN messages /\ <<>> \in Seq(Message)
    BY <1>2, WorkTyped, NoRows DEF TypeInv, Tables
  <2> QED BY <1>2, <2>1, ExceptSeq
<1>5. Tables'
  BY <1>2, <1>4, StartTyped DEF TypeInv, Tables
<1>6. AtWork(j, <<>>, conversations[c])
  <2>1. conversations[c].live
    BY <1>2 DEF Live
  <2> QED BY <1>3, <2>1, NoRows DEF AtWork
<1>7. \A d \in DOMAIN conversations :
        d # c => messages'[d] = messages[d] /\ conversations'[d] = conversations[d]
  BY <1>2, <1>4, WorkTyped
<1> QED BY <1>2, <1>3, <1>4, <1>5, <1>6, <1>7, BeginInv

LEMMA DropConversationStep ==
  ASSUME IInv, NEW p \in Procs, DropConversation(p)
  PROVE  IInv'
<1>1. /\ job[p].pc = "drop" /\ UNCHANGED <<messages, turns, stream>> /\ TypeInv
      /\ Become(p, Idle)
  BY DEF DropConversation, At, IInv, End
<1>2. Busy(p)
  BY <1>1 DEF Busy, At
<1>3. ASSUME StatementRuns(p),
             conversations' = [conversations EXCEPT ![job[p].conv].live = FALSE]
      PROVE  IInv'
  <2>1. PICK rows, c, new :
          /\ rows = messages[job[p].conv] /\ c = conversations[job[p].conv]
          /\ new = [c EXCEPT !.live = FALSE]
    OBVIOUS
  <2>2. c \in Conversation /\ job[p].conv \in DOMAIN conversations
    BY <1>1, <1>2, <2>1, WorkTyped
  <2>3. new \in Conversation /\ new.live = FALSE
    BY <2>1, <2>2 DEF Conversation
  <2>4. conversations' = [conversations EXCEPT ![job[p].conv] = new]
    BY <1>3, <2>1
  <2>5. /\ calm' = calm /\ calm' \in BOOLEAN
        /\ lost' \subseteq 0..MaxTurns /\ faults' \in 0..MaxFaults
    BY <1>1, <1>3, FaultTyped
  <2>6. /\ Tables' /\ DOMAIN conversations' = DOMAIN conversations
        /\ conversations'[job[p].conv] = new
        /\ \A d \in DOMAIN conversations :
             d # job[p].conv => messages'[d] = messages[d] /\ conversations'[d] = conversations[d]
    BY <1>1, <2>2, <2>3, <2>4, <2>5, Rewritten
  <2>7. ASSUME calm
        PROVE  AtRest(rows, new)
    <3>1. AtWork(job[p], rows, c)
      BY <1>2, <2>1, <2>7 DEF IInv, Turns, Working
    <3> QED BY <1>1, <2>3, <3>1 DEF AtWork, AtRest
  <2> QED BY <1>1, <1>2, <2>1, <2>5, <2>6, <2>7, FaultTyped, IdleTyped, StepInv, ZenonT(60)
<1>4. CASE StatementFails(p) /\ UNCHANGED conversations
  BY <1>1, <1>2, <1>4, FaultTyped, IdleTyped, GoOn
<1> QED BY <1>3, <1>4 DEF DropConversation

LEMMA UpdateConversationStep ==
  ASSUME IInv, NEW p \in Procs, NEW c \in DOMAIN conversations, UpdateConversation(p, c)
  PROVE  IInv'
<1>1. PICK title, new : title = [by |-> "user", turn |-> 0] /\ new = [conversations[c] EXCEPT !.title = title]
  OBVIOUS
<1>2. /\ Start(p) /\ conversations' = [conversations EXCEPT ![c] = new]
      /\ UNCHANGED <<messages, turns, job, stream>> /\ TypeInv
  BY <1>1 DEF UpdateConversation, IInv
<1>3. conversations[c] \in Conversation /\ title \in Titles /\ title.by = "user"
  BY <1>1, <1>2, WorkTyped DEF Titles
<1>4. new \in Conversation /\ new.live = conversations[c].live /\ new.title = title
  BY <1>1, <1>3 DEF Conversation
<1>5. /\ Tables' /\ DOMAIN conversations' = DOMAIN conversations
      /\ conversations'[c] = new
      /\ \A d \in DOMAIN conversations : d # c => conversations'[d] = conversations[d]
  BY <1>2, <1>4, StartTyped, Rewritten
<1>6. Requests' /\ Streams'
  BY <1>2, <1>5 DEF TypeInv, Requests, Streams, Busy, At
<1>7. ASSUME calm'
      PROVE  Turns'
  <2>1. calm /\ \A q \in Procs : job[q].pc = "idle"
    BY <1>2, <1>7, StartTyped
  <2>2. \A d \in DOMAIN conversations : AtRest(messages[d], conversations[d])
    BY <2>1 DEF IInv, Turns, Resting, Busy, At
  <2>3. AtRest(messages[c], new)
    BY <1>3, <1>4, <2>2 DEF AtRest, TitleIsFirst, Titled
  <2> QED BY <1>2, <1>5, <2>1, <2>2, <2>3 DEF Turns, OneAtATime, Working, Resting, Busy, At
<1> QED BY <1>5, <1>6, <1>7 DEF IInv, TypeInv

LEMMA CreateConversationStep ==
  ASSUME IInv, NEW p \in Procs, CreateConversation(p)
  PROVE  IInv'
<1>1. /\ Start(p) /\ UNCHANGED <<turns, job, stream>> /\ TypeInv
      /\ messages' = Append(messages, <<>>)
  BY DEF CreateConversation, IInv
<1>2. PICK by \in {"default", "user"} :
        conversations' = Append(conversations, [live |-> TRUE, title |-> [by |-> by, turn |-> 0]])
  BY DEF CreateConversation
<1>3. PICK title, new : title = [by |-> by, turn |-> 0] /\ new = [live |-> TRUE, title |-> title]
  OBVIOUS
<1>4. title \in Titles /\ title.by # "turn"
  BY <1>3 DEF Titles
<1>5. new \in Conversation /\ new.live = TRUE /\ new.title = title
  BY <1>3, <1>4 DEF Conversation
<1>6. conversations' = Append(conversations, new)
  BY <1>2, <1>3
<1>7. /\ conversations \in Seq(Conversation) /\ messages \in Seq(Seq(Message))
      /\ Len(messages) = Len(conversations) /\ <<>> \in Seq(Message)
  BY <1>1, NoRows DEF TypeInv, Tables
<1>8. /\ conversations' \in Seq(Conversation) /\ Len(conversations') = Len(conversations) + 1
      /\ conversations'[Len(conversations) + 1] = new
      /\ \A d \in 1..Len(conversations) : conversations'[d] = conversations[d]
  BY <1>5, <1>6, <1>7, AppendProperties
<1>9. /\ messages' \in Seq(Seq(Message)) /\ Len(messages') = Len(messages) + 1
      /\ messages'[Len(messages) + 1] = <<>>
      /\ \A d \in 1..Len(messages) : messages'[d] = messages[d]
  BY <1>1, <1>7, AppendProperties
<1>10. /\ DOMAIN conversations = 1..Len(conversations)
       /\ DOMAIN conversations' = 1..(Len(conversations) + 1) /\ Len(conversations) \in Nat
  BY <1>7, <1>8, LenProperties
<1>11. Tables'
  BY <1>1, <1>7, <1>8, <1>9, StartTyped DEF TypeInv, Tables
<1>12. Requests' /\ Streams'
  BY <1>1, <1>10 DEF TypeInv, Requests, Streams, Busy, At
<1>13. ASSUME calm'
       PROVE  Turns'
  <2>1. calm /\ \A q \in Procs : job[q].pc = "idle"
    BY <1>1, <1>13, StartTyped
  <2>2. \A d \in DOMAIN conversations : AtRest(messages[d], conversations[d])
    BY <2>1 DEF IInv, Turns, Resting, Busy, At
  <2>3. AtRest(<<>>, new)
    BY <1>4, <1>5, NoRows DEF AtRest, TitleIsFirst, Titled
  <2>4. Resting'
    <3> SUFFICES ASSUME NEW d \in DOMAIN conversations'
                 PROVE  AtRest(messages'[d], conversations'[d])
      BY DEF Resting
    <3>1. CASE d \in DOMAIN conversations
      BY <1>7, <1>8, <1>9, <1>10, <2>2, <3>1
    <3>2. CASE d \notin DOMAIN conversations
      <4>1. d = Len(conversations) + 1
        BY <1>10, <3>2
      <4> QED BY <1>7, <1>8, <1>9, <2>3, <4>1
    <3> QED BY <3>1, <3>2
  <2> QED BY <1>1, <2>1, <2>4 DEF Turns, OneAtATime, Working, Busy, At
<1> QED BY <1>11, <1>12, <1>13 DEF IInv, TypeInv

-----------------------------------------------------------------------------
(* The parser, and the ways a request ends early *)

LEMMA ParserInv ==
  ASSUME IInv, NEW p \in Procs, NEW s \in Parser, Stream(s), stream' = [stream EXCEPT ![p] = s],
         job[p].pc = "consume" => s.left + Held(s) + Texts(s)
                                    <= stream[p].left + Held(stream[p]) + Texts(stream[p]),
         UNCHANGED <<conversations, messages, turns, job>>,
         calm' = calm, lost' \subseteq 0..MaxTurns, faults' \in 0..MaxFaults,
         Held(s) \in Nat, Texts(s) \in Nat, Held(stream[p]) \in Nat, Texts(stream[p]) \in Nat
  PROVE  IInv'
<1>1. Tables' /\ Requests'
  BY DEF IInv, TypeInv, Tables, Requests, Busy, At
<1>2. Fits(job[p], s)
  <2>1. Fits(job[p], stream[p]) /\ stream[p] \in Parser /\ job[p] \in Request
    BY FaultTyped, WorkTyped DEF IInv
  <2>2. job[p].shown \in 0..MaxChunks /\ s.left \in Nat /\ stream[p].left \in Nat
    BY <2>1 DEF Parser, Request
  <2> QED BY <2>1, <2>2, ConstantsOK DEF Fits
<1>3. Streams'
  <2>1. \A q \in Procs : stream'[q] = IF q = p THEN s ELSE stream[q]
    BY DEF IInv, TypeInv, Streams
  <2> QED BY <1>2, <2>1 DEF IInv, TypeInv, Streams
<1>4. calm' => Turns'
  BY DEF IInv, Turns, OneAtATime, Working, Resting, Busy, At
<1> QED BY <1>1, <1>3, <1>4 DEF IInv, TypeInv

LEMMA Counted ==
  ASSUME NEW s \in Parser
  PROVE  /\ Held(s) \in {0, 1} /\ (s.hold \in Items \ Final <=> Held(s) = 1)
         /\ Texts(s) \in Nat /\ s.chan \in Seq(Items) /\ Len(s.chan) \in Nat /\ s.left \in Nat
         /\ s.chan = <<>> <=> Len(s.chan) = 0
<1>1. /\ s.chan \in Seq(Items) /\ Len(s.chan) \in Nat /\ s.left \in Nat
      /\ s.chan = <<>> <=> Len(s.chan) = 0
  BY EmptySeq, LenProperties DEF Parser
<1>2. Texts(s) \in Nat
  BY <1>1 DEF Texts
<1>3. Held(s) \in {0, 1} /\ (s.hold \in Items \ Final <=> Held(s) = 1)
  BY DEF Held
<1> QED BY <1>1, <1>2, <1>3

LEMMA Parsed ==
  ASSUME IInv, NEW p \in Procs, NEW s, s = stream[p], s.hold = "none",
         NEW t \in Parser, t.chan = s.chan, stream' = [stream EXCEPT ![p] = t],
         s.open, ~t.open => t.hold = "none", t.left + Held(t) <= s.left,
         UNCHANGED <<conversations, messages, turns, job>>,
         NoFault \/ RagFault("rag") \/ RagFault("chunk")
  PROVE  IInv'
<1>1. s \in Parser /\ Stream(s)
  BY FaultTyped DEF IInv
<1>2. Stream(t)
  BY <1>1 DEF Stream
<1>3. Texts(t) = Texts(s)
  BY DEF Texts
<1>4. /\ calm' = calm /\ lost' \subseteq 0..MaxTurns /\ faults' \in 0..MaxFaults
  <2>1. lost \subseteq 0..MaxTurns /\ faults \in 0..MaxFaults /\ MaxFaults \in Nat
    BY ConstantsOK DEF IInv, TypeInv, Tables
  <2>2. \A kind : Fault(kind) => faults' \in 0..MaxFaults
    BY <2>1 DEF Fault
  <2> QED BY <2>1, <2>2 DEF NoFault, RagFault
<1>5. Held(s) = 0
  BY DEF Held, Items, Final
<1>6. t.left + Held(t) + Texts(t) <= s.left + Held(s) + Texts(s)
  BY <1>1, <1>3, <1>5, Counted
<1>7. Held(t) \in Nat /\ Texts(t) \in Nat /\ Held(s) \in Nat /\ Texts(s) \in Nat
  BY <1>1, Counted
<1> QED BY <1>2, <1>4, <1>6, <1>7, ParserInv

LEMMA ParseLineStep ==
  ASSUME IInv, NEW p \in Procs, ParseLine(p)
  PROVE  IInv'
<1>1. PICK s : s = stream[p]
  OBVIOUS
<1>2. /\ s.open /\ s.hold = "none" /\ UNCHANGED <<conversations, messages, turns, job>>
      /\ s \in Parser /\ Stream(s)
  BY <1>1, FaultTyped DEF ParseLine, IInv
<1>3. CASE \E item \in Final : Hold(p, item) /\ (NoFault \/ RagFault("rag"))
  <2>1. PICK item \in Final : Hold(p, item) /\ (NoFault \/ RagFault("rag"))
    BY <1>3
  <2>2. PICK t : t = [s EXCEPT !.hold = item]
    OBVIOUS
  <2>3. /\ t \in Parser /\ t.chan = s.chan /\ t.open = s.open /\ t.left = s.left /\ t.hold = item
        /\ s.left \in Nat
    BY <1>2, <2>2 DEF Parser, Items, Final
  <2>4. Held(t) = 0
    BY <2>3 DEF Held
  <2>5. stream' = [stream EXCEPT ![p] = t]
    BY <1>1, <2>1, <2>2 DEF Hold
  <2>6. t.left + Held(t) <= s.left
    BY <2>3, <2>4
  <2> QED BY <1>1, <1>2, <2>1, <2>3, <2>5, <2>6, Parsed
<1>4. CASE RagFault("rag") /\ stream' = [stream EXCEPT ![p].open = FALSE]
  <2>1. PICK t : t = [s EXCEPT !.open = FALSE]
    OBVIOUS
  <2>2. /\ t \in Parser /\ t.chan = s.chan /\ ~t.open /\ t.left = s.left /\ t.hold = s.hold
        /\ s.left \in Nat
    BY <1>2, <2>1 DEF Parser
  <2>3. Held(t) = 0
    BY <1>2, <2>2 DEF Held, Items, Final
  <2>4. stream' = [stream EXCEPT ![p] = t]
    BY <1>1, <1>4, <2>1
  <2>5. t.left + Held(t) <= s.left
    BY <2>2, <2>3
  <2>6. t.hold = "none" /\ (NoFault \/ RagFault("rag") \/ RagFault("chunk"))
    BY <1>2, <1>4, <2>2
  <2> QED BY <1>1, <1>2, <2>2, <2>4, <2>5, <2>6, Parsed
<1>5. CASE /\ s.left > 0
           /\ \E item \in {"text", "bad"} :
                /\ NoFault \/ RagFault("chunk")
                /\ stream' = [stream EXCEPT ![p].hold = item, ![p].left = @ - 1]
  <2>1. PICK item \in {"text", "bad"} :
          /\ NoFault \/ RagFault("chunk")
          /\ stream' = [stream EXCEPT ![p].hold = item, ![p].left = @ - 1]
    BY <1>5
  <2>2. PICK t : t = [s EXCEPT !.hold = item, !.left = s.left - 1]
    OBVIOUS
  <2>3. s.left \in Nat /\ s.left - 1 \in Nat
    BY <1>2, <1>5 DEF Parser
  <2>4. /\ t \in Parser /\ t.chan = s.chan /\ t.open = s.open /\ t.left = s.left - 1 /\ t.hold = item
    BY <1>2, <2>2, <2>3 DEF Parser, Items
  <2>5. Held(t) = 1
    BY <2>4 DEF Held, Items, Final
  <2>6. stream' = [stream EXCEPT ![p] = t]
    BY <1>1, <1>2, <2>1, <2>2 DEF IInv, TypeInv, Streams
  <2>7. t.left + Held(t) <= s.left
    BY <2>3, <2>4, <2>5
  <2> QED BY <1>1, <1>2, <2>1, <2>4, <2>6, <2>7, Parsed
<1>6. "err" \in Final /\ "done" \in Final
  BY DEF Final
<1> QED BY <1>1, <1>3, <1>4, <1>5, <1>6 DEF ParseLine

LEMMA SendChunkStep ==
  ASSUME IInv, NEW p \in Procs, SendChunk(p)
  PROVE  IInv'
<1>1. PICK s, t : /\ s = stream[p]
                  /\ t = [s EXCEPT !.chan = Append(s.chan, s.hold), !.hold = "none",
                                   !.open = s.hold \notin {"done", "err"}]
  OBVIOUS
<1>2. /\ s.hold # "none" /\ Len(s.chan) < ChannelCap /\ s \in Parser /\ Stream(s)
      /\ UNCHANGED <<conversations, messages, turns, job>> /\ NoFault
  BY <1>1, FaultTyped DEF SendChunk, HasRoom, IInv, NoFault
<1>3. /\ s.hold \in Items /\ s.chan \in Seq(Items) /\ Len(s.chan) \in Nat /\ s.open
      /\ \A i \in DOMAIN s.chan : s.chan[i] \notin Final
  BY <1>2, Counted DEF Parser, Stream
<1>4. PICK new : new = Append(s.chan, s.hold)
  OBVIOUS
<1>5. /\ new \in Seq(Items) /\ Len(new) = Len(s.chan) + 1 /\ new[Len(new)] = s.hold /\ new # <<>>
      /\ DOMAIN new = 1..Len(new) /\ DOMAIN s.chan = 1..Len(s.chan)
      /\ \A i \in 1..Len(s.chan) : new[i] = s.chan[i]
  BY <1>3, <1>4, AppendProperties, LenProperties
<1>6. /\ t \in Parser /\ t.chan = new /\ t.hold = "none" /\ t.left = s.left
      /\ t.open = (s.hold \notin Final)
  BY <1>1, <1>2, <1>4, <1>5 DEF Parser, Final
<1>7. Stream(t)
  <2>1. Len(t.chan) <= ChannelCap
    BY <1>2, <1>3, <1>5, <1>6, ConstantsOK
  <2>2. t.open => \A i \in DOMAIN new : new[i] \notin Final
    <3> SUFFICES ASSUME t.open, NEW i \in DOMAIN new
                 PROVE  new[i] \notin Final
      OBVIOUS
    <3>1. i \in 1..Len(s.chan) \/ i = Len(new)
      BY <1>3, <1>5
    <3> QED BY <1>3, <1>5, <1>6, <3>1
  <2> QED BY <1>6, <2>1, <2>2 DEF Stream
<1>8. Held(t) = 0
  BY <1>6 DEF Held, Items, Final
<1>9. Texts(s) = Len(s.chan)
  <2>1. s.chan # <<>> => s.chan[Len(s.chan)] \notin Final
    BY <1>3, <1>5, EmptySeq
  <2> QED BY <2>1 DEF Texts
<1>10. Texts(t) = Texts(s) + Held(s)
  <2>1. CASE s.hold \in Final
    <3>1. Texts(t) = Len(new) - 1
      BY <1>5, <1>6, <2>1 DEF Texts
    <3>2. Held(s) = 0
      BY <2>1 DEF Held
    <3> QED BY <1>3, <1>5, <1>9, <3>1, <3>2
  <2>2. CASE s.hold \notin Final
    <3>1. Texts(t) = Len(new)
      BY <1>5, <1>6, <2>2 DEF Texts
    <3>2. Held(s) = 1
      BY <1>3, <2>2 DEF Held
    <3> QED BY <1>3, <1>5, <1>9, <3>1, <3>2
  <2> QED BY <2>1, <2>2
<1>11. stream' = [stream EXCEPT ![p] = t]
  BY <1>1 DEF SendChunk, IInv, TypeInv, Streams
<1>12. /\ calm' = calm /\ lost' \subseteq 0..MaxTurns /\ faults' \in 0..MaxFaults
  BY <1>2 DEF NoFault, IInv, TypeInv, Tables
<1>13. /\ Held(t) \in Nat /\ Texts(t) \in Nat /\ Held(s) \in Nat /\ Texts(s) \in Nat
       /\ t.left + Held(t) + Texts(t) <= s.left + Held(s) + Texts(s)
  BY <1>2, <1>6, <1>8, <1>10, Counted
<1> QED BY <1>1, <1>2, <1>6, <1>7, <1>11, <1>12, <1>13, ParserInv

LEMMA HangUpStep ==
  ASSUME IInv, NEW p \in Procs, HangUp(p)
  PROVE  IInv'
<1>1. PICK j : j = [job[p] EXCEPT !.gone = TRUE]
  OBVIOUS
<1>2. /\ Busy(p) /\ Fault("cancel") /\ Become(p, j) /\ calm' = FALSE
      /\ UNCHANGED <<conversations, messages, turns, stream, lost>> /\ TypeInv
  BY <1>1 DEF HangUp, Busy, IInv
<1>3. j \in Request /\ j.pc = job[p].pc /\ j.conv = job[p].conv /\ j.shown = job[p].shown
  BY <1>1, <1>2, WorkTyped DEF Request
<1>4. Fits(j, stream[p])
  BY <1>2, <1>3, FaultTyped DEF Fits
<1>5. lost' \subseteq 0..MaxTurns /\ faults' \in 0..MaxFaults
  BY <1>2, ConstantsOK DEF Fault, TypeInv, Tables
<1> QED BY <1>2, <1>3, <1>4, <1>5, FaultTyped, GoOn

LEMMA CrashStep ==
  ASSUME IInv, Crash
  PROVE  IInv'
<1>1. /\ Fault("crash") /\ job' = [p \in Procs |-> Idle] /\ stream' = [p \in Procs |-> NoParser]
      /\ lost' = lost \cup {job[p].turn : p \in Procs}
      /\ calm' = FALSE /\ UNCHANGED <<conversations, messages, turns>> /\ TypeInv
  BY DEF Crash, IInv
<1>2. Tables'
  <2>1. \A p \in Procs : job[p].turn \in 0..MaxTurns
    BY <1>1, WorkTyped DEF Request
  <2>2. lost' \subseteq 0..MaxTurns /\ faults' \in 0..MaxFaults
    <3>1. lost \subseteq 0..MaxTurns /\ faults \in 0..MaxFaults /\ MaxFaults \in Nat
      BY <1>1, ConstantsOK DEF TypeInv, Tables
    <3>2. faults' = faults + 1 /\ faults < MaxFaults
      BY <1>1 DEF Fault
    <3>3. {job[p].turn : p \in Procs} \subseteq 0..MaxTurns
      BY <2>1
    <3>4. lost' \subseteq 0..MaxTurns
      BY <1>1, <3>1, <3>3
    <3> QED BY <3>1, <3>2, <3>4
  <2> QED BY <1>1, <2>2 DEF TypeInv, Tables
<1>3. Requests' /\ Streams'
  BY <1>1, IdleTyped DEF Requests, Streams, Busy, At
<1> QED BY <1>1, <1>2, <1>3 DEF IInv, TypeInv

-----------------------------------------------------------------------------
LEMMA InitInv == Init => IInv
<1> SUFFICES ASSUME Init
             PROVE  IInv
  OBVIOUS
<1>1. Tables
  BY ConstantsOK, EmptySeq DEF Init, Tables
<1>2. Requests /\ Streams
  BY IdleTyped DEF Init, Requests, Streams, Busy, At
<1>3. Turns
  <2>1. \A p \in Procs : ~Busy(p)
    BY IdleTyped DEF Init, Busy, At
  <2>2. DOMAIN conversations = {}
    BY DEF Init
  <2> QED BY <2>1, <2>2 DEF Turns, OneAtATime, Working, Resting
<1> QED BY <1>1, <1>2, <1>3 DEF IInv, TypeInv

LEMMA NextInv == IInv /\ [Next]_vars => IInv'
<1> SUFFICES ASSUME IInv, [Next]_vars
             PROVE  IInv'
  OBVIOUS
<1>1. ASSUME NEW p \in Procs, Handler(p)
      PROVE  IInv'
  BY <1>1, DropConversationStep, LoadHistoryStep, SaveQuestionStep, CallFailsStep,
     ChatCompletionStep, ChatCompletionStreamStep, ConsumeChunkStep, ChannelClosedStep,
     SaveAnswerStep, SaveSorryStep, ListForTitleStep, SetTitleStep DEF Handler
<1>2. ASSUME NEW p \in Procs,
             \E c \in DOMAIN conversations :
               \/ UpdateConversation(p, c) \/ DeleteConversation(p, c)
               \/ \E streamed \in BOOLEAN : Ask(p, c, streamed)
      PROVE  IInv'
  BY <1>2, UpdateConversationStep, DeleteConversationStep, AskStep
<1>3. CASE UNCHANGED vars
  <2>1. TypeInv'
    BY <1>3 DEF vars, IInv, TypeInv, Tables, Requests, Streams, Busy, At
  <2>2. calm' => Turns'
    BY <1>3 DEF vars, IInv, Turns, OneAtATime, Working, Resting, Busy, At
  <2> QED BY <2>1, <2>2 DEF IInv
<1> QED
  BY <1>1, <1>2, <1>3, CreateConversationStep, HangUpStep, ParseLineStep, SendChunkStep, CrashStep
  DEF Next

LEMMA InvHolds == Spec => []IInv
BY InitInv, NextInv, PTL DEF Spec

(* Every variable holds what the code can store in it, and no channel more   *)
(* than it was made for, whatever the window, the chunks and the requests.   *)
THEOREM TypeCorrect == Spec => []TypeOK
<1>1. IInv => TypeOK
  <2> SUFFICES ASSUME IInv
               PROVE  TypeOK
    OBVIOUS
  <2>1. \A c \in DOMAIN conversations : conversations[c] \in Conversation
    BY ElementOfSeq, LenProperties DEF IInv, TypeInv, Tables
  <2>2. Len(messages) = Len(conversations) /\ \A c \in DOMAIN messages : messages[c] \in Seq(Message)
    BY ElementOfSeq, LenProperties DEF IInv, TypeInv, Tables
  <2>3. job \in [Procs -> [pc: PC, conv: Nat, turn: Nat, streamed: BOOLEAN, gone: BOOLEAN,
                           history: Seq(Message), shown: 0..MaxChunks]]
    BY ConstantsOK DEF IInv, TypeInv, Requests, Request
  <2>4. \A p \in Procs : stream[p].hold \in Items \cup {"none"} /\ Len(stream[p].chan) <= ChannelCap
    BY DEF IInv, TypeInv, Streams, Stream, Parser
  <2> QED BY <2>1, <2>2, <2>3, <2>4 DEF IInv, TypeInv, Tables, TypeOK
<1> QED BY <1>1, InvHolds, PTL

(* Whatever RAGFlow does, the turns of a conversation alternate between      *)
(* question and reply as long as requests come one at a time and the         *)
(* database works (SendMessage, handleStreamMessage).                        *)
THEOREM QuestionsAlternateWithReplies == Spec => []TurnsAlternate
<1>1. IInv => TurnsAlternate
  <2> SUFFICES ASSUME IInv, calm, NEW c \in Live
               PROVE  Alternates(messages[c])
    BY DEF TurnsAlternate, Alternates, Rows
  <2>1. c \in DOMAIN conversations /\ conversations[c].live
    BY DEF Live
  <2>2. CASE AtRest(messages[c], conversations[c])
    BY <2>1, <2>2 DEF AtRest
  <2>3. CASE \E p \in Procs : Busy(p) /\ job[p].conv = c
    BY <2>3 DEF IInv, Turns, Working, AtWork
  <2> QED BY <2>1, <2>2, <2>3 DEF IInv, Turns, Resting
<1> QED BY <1>1, InvHolds, PTL

(* Whatever the size of the window, a conversation that fits into it is sent *)
(* to the model whole, the question last and once (buildOpenAIMessages).     *)
THEOREM ModelSeesWhole == Spec => []ContextWhole
<1>1. IInv => ContextWhole
  BY DEF IInv, Turns, Working, AtWork, ContextWhole, Busy, At, Rows
<1> QED BY <1>1, InvHolds, PTL

(* A conversation that is deleted leaves no message behind, unless some      *)
(* other request was under way (DeleteConversation).                         *)
THEOREM NoOrphanedMessages == Spec => []DeletedWithMessages
<1>1. IInv => DeletedWithMessages
  <2> SUFFICES ASSUME IInv, calm, NEW c \in DOMAIN conversations, messages[c] # <<>>
               PROVE  conversations[c].live
    BY DEF DeletedWithMessages, Live, Rows
  <2>1. CASE AtRest(messages[c], conversations[c])
    BY <2>1 DEF AtRest
  <2>2. CASE \E p \in Procs : Busy(p) /\ job[p].conv = c
    BY <2>2 DEF IInv, Turns, Working, AtWork
  <2> QED BY <2>1, <2>2 DEF IInv, Turns, Resting
<1> QED BY <1>1, InvHolds, PTL

(* The title a conversation takes by itself is its first question, and at    *)
(* the end of the first answered turn it has one                             *)
(* (maybeUpdateConversationTitle).                                           *)
THEOREM TitleIsFirstQuestion == Spec => []TitledByFirstTurn
<1>1. IInv => TitledByFirstTurn
  <2> SUFFICES ASSUME IInv, calm, AllIdle, NEW c \in Live
               PROVE  TitleIsFirst(messages[c], conversations[c].title)
                      /\ Titled(messages[c], conversations[c].title)
    BY DEF TitledByFirstTurn, TitleIsFirst, Titled, Rows
  <2>1. c \in DOMAIN conversations /\ conversations[c].live
    BY DEF Live
  <2>2. AtRest(messages[c], conversations[c])
    BY <2>1 DEF IInv, Turns, Resting, Busy, AllIdle
  <2> QED BY <2>1, <2>2 DEF AtRest
<1> QED BY <1>1, InvHolds, PTL
=============================================================================
