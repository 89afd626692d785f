---- MODULE AgentProxy -------------------------------------------------------
(****************************************************************************)
(* A chat on its way through the harness: turns of a session, attached      *)
(* uploads and the model's stream.  These share no state; each has its own  *)
(* section.                                                                 *)
(****************************************************************************)
EXTENDS Naturals, FiniteSets, Sequences, SequencesExt, FiniteSetsExt

(***************************************************************************)
(* The turns of one session as the chat proxy persists them (sessions.rs,  *)
(* routes/agent_proxy.rs).  A turn saves the user's message, asks the      *)
(* agent, relays its stream and, when the stream is over, saves the answer *)
(* and stamps the usage on the last answer of the session.  Sequence       *)
(* numbers are counts read before the insert and the index on them is not  *)
(* unique, so turns that run at once may share them.                       *)
(***************************************************************************)
CONSTANTS
  Turns,   \* requests to /agent/chat, each made once
  NoTurn   \* nobody's stamp

VARIABLES
  deleted,    \* the session was deleted
  messages,   \* rows: [turn, role, seq, stamp]
  turns,      \* per turn: [stage, seq, text, usage]
  together,   \* pairs of turns that ran at the same time
  totals      \* per turn: how often its usage was added to the session's totals

chatVars == <<deleted, messages, turns, together, totals>>

Stages == {"new", "saveUser", "ask", "stream", "count", "save", "touch",
           "stamp", "over"}

ChatTurnsInit ==
  /\ deleted = FALSE /\ messages = {} /\ together = {}
  /\ turns = [t \in Turns |-> [stage |-> "new", seq |-> 0, text |-> FALSE,
                               usage |-> FALSE]]
  /\ totals = [t \in Turns |-> 0]

Underway == {t \in Turns : turns[t].stage \notin {"new", "over"}}

Goes(t, from, to) ==
  turns[t].stage = from /\ turns' = [turns EXCEPT ![t].stage = to]

MessageCount == Cardinality(messages)

CountUser(t) ==
  /\ turns[t].stage = "new"
  /\ turns' = [turns EXCEPT ![t].stage = "saveUser", ![t].seq = MessageCount]
  /\ together' = together \union {{t, u} : u \in Underway}
  /\ UNCHANGED <<deleted, messages, totals>>

\* The insert fails when the session is gone; the failure is only logged.
Saved(t, role) ==
  IF deleted THEN messages
  ELSE messages \union {[turn |-> t, role |-> role, seq |-> turns[t].seq,
                         stamp |-> NoTurn]}

SaveUser(t) ==
  /\ Goes(t, "saveUser", "ask")
  /\ messages' = Saved(t, "user")
  /\ UNCHANGED <<deleted, together, totals>>

\* The body is enriched and posted.  Without an agent, or with an answer that is
\* no stream, the turn is over; so it is when the client left before the first event.
Ask(t) ==
  /\ \E to \in {"stream", "over"} : Goes(t, "ask", to)
  /\ UNCHANGED <<deleted, messages, together, totals>>

MessageDelta(t) ==
  /\ turns[t].stage = "stream" /\ ~turns[t].usage
  /\ turns' = [turns EXCEPT ![t].text = TRUE]
  /\ UNCHANGED <<deleted, messages, together, totals>>

AgentEnd(t) ==
  /\ turns[t].stage = "stream"
  /\ turns' = [turns EXCEPT ![t].usage = TRUE]
  /\ UNCHANGED <<deleted, messages, together, totals>>

\* The upstream ends or breaks, or the client leaves.
StreamEnds(t) ==
  /\ Goes(t, "stream", IF turns[t].text THEN "count" ELSE "touch")
  /\ UNCHANGED <<deleted, messages, together, totals>>

CountAnswer(t) ==
  /\ turns[t].stage = "count"
  /\ turns' = [turns EXCEPT ![t].stage = "save", ![t].seq = MessageCount]
  /\ UNCHANGED <<deleted, messages, together, totals>>

SaveAnswer(t) ==
  /\ Goes(t, "save", "touch")
  /\ messages' = Saved(t, "assistant")
  /\ UNCHANGED <<deleted, together, totals>>

TouchSession(t) ==
  /\ Goes(t, "touch", IF turns[t].usage THEN "stamp" ELSE "over")
  /\ totals' = IF deleted THEN totals ELSE [totals EXCEPT ![t] = @ + 1]
  /\ UNCHANGED <<deleted, messages, together>>

Answers == {m \in messages : m.role = "assistant"}

\* The last answers of the session; the statement takes one of them.
LastAnswer == {m \in Answers : \A n \in Answers : n.seq <= m.seq}

StampUsage(t) ==
  /\ Goes(t, "stamp", "over")
  /\ IF Answers = {} THEN UNCHANGED messages
     ELSE \E m \in LastAnswer :
            messages' = (messages \ {m}) \union {[m EXCEPT !.stamp = t]}
  /\ UNCHANGED <<deleted, together, totals>>

\* The messages go with the session.
DeleteSession ==
  /\ ~deleted
  /\ deleted' = TRUE /\ messages' = {}
  /\ UNCHANGED <<turns, together, totals>>

ChatTurnsNext ==
  \/ DeleteSession
  \/ \E t \in Turns :
       \/ CountUser(t) \/ SaveUser(t) \/ Ask(t)
       \/ MessageDelta(t) \/ AgentEnd(t) \/ StreamEnds(t)
       \/ CountAnswer(t) \/ SaveAnswer(t) \/ TouchSession(t) \/ StampUsage(t)

ChatTurnsTypeOK ==
  /\ deleted \in BOOLEAN
  /\ \A m \in messages : m.turn \in Turns /\ m.stamp \in Turns \union {NoTurn}
       /\ m.role \in {"user", "assistant"} /\ m.seq < 2 * Cardinality(Turns)
  /\ \A t \in Turns : turns[t].stage \in Stages
  /\ totals \in [Turns -> 0 .. 1]

\* However turns interleave, the answer of a turn is listed after its question:
\* the count is read again when the stream is over (sse_with_keepalive_and_persist).
AnswerFollowsQuestion ==
  \A q, a \in messages :
    q.turn = a.turn /\ q.role = "user" /\ a.role = "assistant" => q.seq < a.seq

\* Usage lands on the answer of another turn only when the two ran at the same
\* time or the turn that is stamped saved no answer
\* (stamp_last_assistant_message_usage).
StampedByItsOwnTurn ==
  \A m \in messages : m.stamp \notin {NoTurn, m.turn} =>
    {m.stamp, m.turn} \in together \/ ~ \E n \in Answers : n.turn = m.stamp

(****************************************************************************)
(* Uploaded files and the attachments of a chat: the file in the storage    *)
(* and the row about it are written and removed one after the other, and a  *)
(* chat turns the uploads it names into content blocks, one at a time,      *)
(* while others delete them.                                                *)
(****************************************************************************)
CONSTANTS Uploads, Malformed, MaxAttached, DeclaredTypes, ByteKinds, Named

VARIABLES files, rows, uploading, deleting, chat, ingested

uploadVars == <<files, rows, uploading, deleting, chat, ingested>>

\* What an upload may declare, what its bytes may be, and whether its name
\* ends like that of a document; an instance takes some of each.
Declared == {"image", "pdf", "docx", "doc", "text", "html"}
Bytes == {"image", "pdf", "zip", "html", "other"}
Uploaded ==
  [declared : Declared \intersect DeclaredTypes, bytes : Bytes \intersect ByteKinds,
   named : Named]
NoUpload == [declared |-> "none", bytes |-> "other", named |-> FALSE]
BlockKinds == {"image", "text", "document", "note"}
NoChat == [stage |-> "idle", attached |-> <<>>, blocks |-> <<>>, loaded |-> NoUpload]

UploadsInit ==
  /\ files = {}
  /\ rows = [u \in Uploads |-> NoUpload]
  /\ uploading = [u \in Uploads |-> NoUpload]
  /\ deleting = [u \in Uploads |-> "no"]
  /\ chat = NoChat
  /\ ingested = {}

\* An allowed type; a type with known signatures must show one of them.
ValidateUploadMime(f) ==
  /\ f.declared # "html"
  /\ f.declared = "image" => f.bytes = "image"
  /\ f.declared = "pdf" => f.bytes = "pdf"
  /\ f.declared = "docx" => f.bytes = "zip"

New(u) == u \notin files /\ rows[u] = NoUpload /\ uploading[u] = NoUpload /\ deleting[u] = "no"

StoreFile(u) ==
  /\ New(u)
  /\ \E f \in Uploaded :
       /\ ValidateUploadMime(f)
       /\ uploading' = [uploading EXCEPT ![u] = f]
  /\ files' = files \cup {u}
  /\ UNCHANGED <<rows, deleting, chat, ingested>>

\* The row is inserted, or its insertion fails and the file stays alone.
InsertRow(u) ==
  /\ uploading[u] # NoUpload
  /\ uploading' = [uploading EXCEPT ![u] = NoUpload]
  /\ \/ rows' = [rows EXCEPT ![u] = uploading[u]]
     \/ UNCHANGED rows
  /\ UNCHANGED <<files, deleting, chat, ingested>>

UploadFile(u) == StoreFile(u)

DeleteUpload(u) ==
  /\ deleting[u] \in {"no", "failed"}
  /\ rows[u] # NoUpload
  /\ deleting' = [deleting EXCEPT ![u] = "file"]
  /\ UNCHANGED <<files, rows, uploading, chat, ingested>>

\* A file that cannot be removed is only logged; a missing one counts as removed.
RemoveFile(u) ==
  /\ deleting[u] = "file"
  /\ \E left \in {files, files \ {u}} : files' = left
  /\ deleting' = [deleting EXCEPT ![u] = "row"]
  /\ UNCHANGED <<rows, uploading, chat, ingested>>

DropRow(u) ==
  /\ deleting[u] = "row"
  /\ \/ /\ rows' = [rows EXCEPT ![u] = NoUpload]
        /\ deleting' = [deleting EXCEPT ![u] = "done"]
     \/ /\ deleting' = [deleting EXCEPT ![u] = "failed"]
        /\ UNCHANGED rows
  /\ UNCHANGED <<files, uploading, chat, ingested>>

----------------------------------------------------------------------------
Position == Len(chat.blocks) + 1
Current == chat.attached[Position]

ProxyChat ==
  /\ chat.stage = "idle"
  /\ \E n \in 1..MaxAttached : \E ids \in [1..n -> Uploads \cup {Malformed}] :
       chat' = [NoChat EXCEPT !.stage = "row", !.attached = ids]
  /\ UNCHANGED <<files, rows, uploading, deleting, ingested>>

Push(block) ==
  chat' = [chat EXCEPT !.blocks = Append(@, [of |-> Current, kind |-> block.kind, bytes |-> block.bytes]),
                       !.loaded = NoUpload,
                       !.stage = IF Position = Len(chat.attached) THEN "sent" ELSE "row"]

Note == [kind |-> "note", bytes |-> "other"]

\* An id that is no identifier ends the work: the body goes on unchanged.
Malformation ==
  /\ chat.stage = "row" /\ Current = Malformed
  /\ chat' = [chat EXCEPT !.stage = "passed"]
  /\ UNCHANGED <<files, rows, uploading, deleting, ingested>>

LoadRow ==
  /\ chat.stage = "row" /\ Current # Malformed
  /\ IF rows[Current] = NoUpload THEN Push(Note)
     ELSE chat' = [chat EXCEPT !.stage = "file", !.loaded = rows[Current]]
  /\ UNCHANGED <<files, rows, uploading, deleting, ingested>>

\* The file is gone, or loading took more than its 30 seconds.
LoadFails ==
  /\ chat.stage = "file"
  /\ Push(Note)
  /\ UNCHANGED <<files, rows, uploading, deleting, ingested>>

IsDocument(f) == f.declared \in {"pdf", "docx", "doc"} \/ f.named

\* What the bytes show overrides what was declared; then the name no longer counts.
EffectiveType(f) == IF f.bytes \in {"html", "pdf"} THEN f.bytes ELSE f.declared

\* What extraction may answer: text, the raw document, or nothing of use.
Extraction(f) ==
  CASE EffectiveType(f) = "pdf" -> {"text", "document", "note"}
    [] EffectiveType(f) \in {"docx", "html"} -> {"text", "note"}
    [] f.named -> {"text", "document", "note"}
    [] OTHER -> {"note"}

BlocksFor(f) ==
  IF f.declared = "image" THEN {"image"}
  ELSE IF IsDocument(f) THEN Extraction(f) ELSE {"note"}

\* The row was read before; it may be gone by now.  Text is also ingested in
\* the background.
ProcessAttachment ==
  /\ chat.stage = "file" /\ Current \in files
  /\ \E kind \in BlocksFor(chat.loaded) :
       /\ Push([kind |-> kind, bytes |-> chat.loaded.bytes])
       /\ ingested' = IF kind = "text" THEN ingested \cup {Current} ELSE ingested
  /\ UNCHANGED <<files, rows, uploading, deleting>>

AgentAnswers ==
  /\ chat.stage \in {"sent", "passed"}
  /\ chat' = NoChat
  /\ UNCHANGED <<files, rows, uploading, deleting, ingested>>

UploadsNext ==
  \/ \E u \in Uploads : UploadFile(u) \/ InsertRow(u) \/ DeleteUpload(u) \/ RemoveFile(u) \/ DropRow(u)
  \/ ProxyChat \/ Malformation \/ LoadRow \/ LoadFails \/ ProcessAttachment \/ AgentAnswers

UploadsTypeOK ==
  /\ files \subseteq Uploads /\ ingested \subseteq Uploads
  /\ rows \in [Uploads -> Uploaded \cup {NoUpload}]
  /\ uploading \in [Uploads -> Uploaded \cup {NoUpload}]
  /\ deleting \in [Uploads -> {"no", "file", "row", "failed", "done"}]
  /\ chat.stage \in {"idle", "row", "file", "sent", "passed"}
  /\ chat.attached \in Seq(Uploads \cup {Malformed})
  /\ chat.blocks \in Seq([of : Uploads, kind : BlockKinds, bytes : Bytes])
  /\ chat.loaded \in Uploaded \cup {NoUpload}

----------------------------------------------------------------------------
\* A listed upload can be served, until somebody asks for its deletion.
RowsHaveFiles == \A u \in Uploads : rows[u] # NoUpload /\ deleting[u] = "no" => u \in files

\* The agent is given one block for every attachment, in the order the user
\* attached them, whatever was deleted or failed to load meanwhile.
AttachmentsAnswered ==
  chat.stage = "sent" =>
    /\ Len(chat.blocks) = Len(chat.attached)
    /\ \A i \in DOMAIN chat.blocks : chat.blocks[i].of = chat.attached[i]

\* What goes to a model as an image has the bytes of one: the check at the
\* upload is the only one made.
ImagesAreImages ==
  \A i \in DOMAIN chat.blocks : chat.blocks[i].kind = "image" => chat.blocks[i].bytes = "image"

(****************************************************************************)
(* One streamed answer of Bedrock: frames arrive cut anywhere, are parsed   *)
(* as soon as they are whole and become events, from which the call builds  *)
(* its answer.  The connection may break, which the call is not told.       *)
(****************************************************************************)
CONSTANTS MaxFrames

VARIABLES wire, arrived, parser, events, answer

streamVars == <<wire, arrived, parser, events, answer>>

FrameKinds == {"text", "toolStart", "input", "blockStop", "usage", "exception"}
\* A frame is a prelude, which says how long it is, and a payload.
Size == 2
None == 0
NoTool == [start |-> None, inputs |-> <<>>]

BedrockStreamInit ==
  /\ wire = [frames |-> <<>>, state |-> "open"]
  /\ arrived = 0
  /\ parser = NoTool
  /\ events = <<>>
  /\ answer = [state |-> "waits", text |-> <<>>, tools |-> <<>>, usage |-> None]

\* What the service sends: the blocks of a message one after the other.
OpenTool ==
  LET starts == {i \in DOMAIN wire.frames : wire.frames[i] = "toolStart"}
      stops == {i \in DOMAIN wire.frames : wire.frames[i] = "blockStop"}
  IN  Cardinality(starts) > Cardinality(stops)

SendFrame ==
  /\ wire.state = "open"
  /\ Len(wire.frames) < MaxFrames
  /\ \E kind \in IF OpenTool THEN {"input", "blockStop", "exception"}
                 ELSE {"text", "toolStart", "usage", "exception"} :
       wire' = [frames |-> Append(wire.frames, kind),
                state  |-> IF kind = "exception" THEN "closed" ELSE "open"]
  /\ UNCHANGED <<arrived, parser, events, answer>>

EndStream ==
  /\ wire.state = "open" /\ ~OpenTool
  /\ wire' = [wire EXCEPT !.state = "closed"]
  /\ UNCHANGED <<arrived, parser, events, answer>>

BreakConnection ==
  /\ wire.state \in {"open", "closed"}
  /\ wire' = [wire EXCEPT !.state = "broken"]
  /\ UNCHANGED <<arrived, parser, events, answer>>

----------------------------------------------------------------------------
Event(kind, of, inputs) == [kind |-> kind, of |-> of, inputs |-> inputs]

\* A frame, identified by its place, and the tool call being gathered.
ParseEvent(acc, i) ==
  LET kind == wire.frames[i] IN
  CASE kind = "toolStart" -> [acc EXCEPT !.tool = [start |-> i, inputs |-> <<>>]]
    [] kind = "input" -> [acc EXCEPT !.tool.inputs = Append(@, i)]
    [] kind = "blockStop" /\ acc.tool.start # None ->
         [tool |-> NoTool, out |-> Append(acc.out, Event("tool", acc.tool.start, acc.tool.inputs))]
    [] kind \in {"text", "usage"} -> [acc EXCEPT !.out = Append(@, Event(kind, i, <<>>))]
    [] kind = "exception" -> [acc EXCEPT !.out = Append(@, Event("error", i, <<>>))]
    [] OTHER -> acc

\* The frames that are whole once upTo units have arrived.
WholeFrames(upTo) == SubSeq([i \in 1..(upTo \div Size) |-> i], 1 + arrived \div Size, upTo \div Size)

Listened == answer.state = "waits"

\* Once nobody listens parsing ends, and so does the reading.
Chunk ==
  /\ wire.state # "broken" /\ Listened
  /\ \E n \in 1..(Size * Len(wire.frames) - arrived) :
       LET done == FoldLeft(ParseEvent, [tool |-> parser, out |-> events], WholeFrames(arrived + n)) IN
       /\ arrived' = arrived + n
       /\ parser' = done.tool
       /\ events' = done.out
  /\ UNCHANGED <<wire, answer>>

StopAtEnd ==
  /\ wire.state = "closed" /\ arrived = Size * Len(wire.frames)
  /\ wire' = [wire EXCEPT !.state = "read"]
  /\ events' = Append(events, Event("stop", None, <<>>))
  /\ UNCHANGED <<arrived, parser, answer>>

\* The call takes the next event; after an error it answers with that error.
TakeEvent ==
  LET e == Head(events) IN
  /\ Listened /\ events # <<>>
  /\ events' = Tail(events)
  /\ answer' =
       CASE e.kind = "text" -> [answer EXCEPT !.text = Append(@, e.of)]
         [] e.kind = "tool" -> [answer EXCEPT !.tools = Append(@, <<e.of, e.inputs>>)]
         [] e.kind = "usage" -> [answer EXCEPT !.usage = e.of]
         [] e.kind = "stop" -> [answer EXCEPT !.state = "answered"]
         [] e.kind = "error" -> [answer EXCEPT !.state = "failed"]
  /\ UNCHANGED <<wire, arrived, parser>>

\* The channel of a broken stream closes without an event; the call answers
\* with what it has.
ChannelCloses ==
  /\ wire.state = "broken" /\ Listened /\ events = <<>>
  /\ answer' = [answer EXCEPT !.state = "answered"]
  /\ UNCHANGED <<wire, arrived, parser, events>>

BedrockStreamNext ==
  SendFrame \/ EndStream \/ BreakConnection \/ Chunk \/ StopAtEnd \/ TakeEvent \/ ChannelCloses

BedrockStreamTypeOK ==
  /\ wire.frames \in Seq(FrameKinds) /\ wire.state \in {"open", "closed", "read", "broken"}
  /\ arrived \in 0..(Size * MaxFrames)
  /\ parser.start \in 0..MaxFrames
  /\ answer.state \in {"waits", "answered", "failed"}
  /\ answer.usage \in 0..MaxFrames

----------------------------------------------------------------------------
Sent(kind) == {i \in DOMAIN wire.frames : wire.frames[i] = kind}
InOrder(places) ==
  CHOOSE s \in [1..Cardinality(places) -> places] : \A i, j \in DOMAIN s : i < j => s[i] < s[j]
StopOf(i) == Min({j \in Sent("blockStop") : j > i})
ToolsSent == [k \in 1..Cardinality(Sent("toolStart")) |->
                LET i == InOrder(Sent("toolStart"))[k]
                IN  <<i, InOrder({j \in Sent("input") : i < j /\ j < StopOf(i)})>>]

\* However the frames were cut on their way, an answer that is complete has
\* the text, the tool calls with all of their input, and the last usage of
\* what was sent, in its order.
AnswerIsWhatWasSent ==
  answer.state = "answered" /\ wire.state # "broken" =>
    /\ answer.text = InOrder(Sent("text"))
    /\ answer.tools = ToolsSent
    /\ answer.usage = (IF Sent("usage") = {} THEN None ELSE Max(Sent("usage")))

\* What an exception ended never becomes an answer, unless the connection broke.
ExceptionsFail ==
  answer.state = "answered" /\ wire.state # "broken" => Sent("exception") = {}

\* No tool is called with a part of its input, even when the connection broke.
ToolsAreWhole ==
  \A k \in DOMAIN answer.tools :
    LET i == answer.tools[k][1] IN
    /\ \E j \in Sent("blockStop") : j > i
    /\ answer.tools[k][2] = InOrder({j \in Sent("input") : i < j /\ j < StopOf(i)})

(****************************************************************************)
(* All of it.                                                               *)
(****************************************************************************)
agentProxyVars == <<chatVars, uploadVars, streamVars>>

Init ==
  /\ ChatTurnsInit
  /\ UploadsInit
  /\ BedrockStreamInit

Next ==
  \/ ChatTurnsNext /\ UNCHANGED <<uploadVars, streamVars>>
  \/ UploadsNext /\ UNCHANGED <<chatVars, streamVars>>
  \/ BedrockStreamNext /\ UNCHANGED <<chatVars, uploadVars>>

Spec == Init /\ [][Next]_agentProxyVars

TypeOK ==
  /\ ChatTurnsTypeOK
  /\ UploadsTypeOK
  /\ BedrockStreamTypeOK
==============================================================================
