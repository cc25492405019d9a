--------------------------------- MODULE Chat ---------------------------------
(***************************************************************************)
(* One user's chat: the streaming engine and the routes that store, list,  *)
(* read and delete conversations and save an answer as an output           *)
(* (backend/chat/engine.py, api/routes/chat.py, api/routes/outputs.py),    *)
(* and the browser that shows them: the chat state shared by the pages     *)
(* (frontend/src/lib/chat-context.tsx), the chat page and the sidebar.     *)
(*                                                                         *)
(* A send is one question.  Its server side is a generator inside ONE      *)
(* transaction, whose events the client reads in order: deltas of text,    *)
(* the sources, then "done" or "error", then the end of the body.  The     *)
(* client changes its view when an event or a reply arrives, whatever the  *)
(* user has opened since.                                                  *)
(***************************************************************************)
EXTENDS Integers, Sequences, FiniteSets

CONSTANTS
    MaxConvs,      \* bound: conversations
    MaxSends,      \* bound: questions
    MaxLoads,      \* bound: requests for the messages of a conversation
    MaxDeletes,    \* bound: requests to delete one
    MaxEvents,     \* bound: clicks other than sending, and faults
    Deltas,        \* bound: pieces of text in an answer
    HistoryLimit   \* _HISTORY_LIMIT, 10 in the code

Convs == 1..MaxConvs
NoConv == 0
Elsewhere == MaxConvs + 1      \* the url of another page of the application
Sends == 1..MaxSends
Nobody == 0
Loads == 1..MaxLoads
Deletes == 1..MaxDeletes

ASSUME ChatAssumption ==
    /\ MaxConvs \in Nat
    /\ MaxSends \in Nat
    /\ MaxLoads \in Nat
    /\ MaxDeletes \in Nat
    /\ MaxEvents \in Nat
    /\ Deltas \in Nat
    /\ HistoryLimit \in Nat \ {0}

VARIABLES
    \* the database
    convs,      \* conversations
    existed,    \* conversations ever committed
    rows,       \* messages: <<send, role>>
    outs,       \* sends whose answer was saved as an output
    \* the generators
    stage,      \* send -> where its generator is
    aim,        \* send -> conversation_id of the request
    home,       \* send -> the conversation its rows are for
    birth,      \* send -> place of its transaction's start: created_at
    said,       \* send -> deltas yielded, the length of the answer
    sourced,    \* send -> whether the sources were yielded
    prompt,     \* send -> the history put before the model
    \* the chat state of the mounted provider
    msgs,       \* messages
    conv,       \* currentConversationId
    streaming,  \* isStreaming
    rail,       \* the send whose sources are currentSources
    list,       \* conversations
    reading,    \* the send whose body is being read
    heard,      \* send -> deltas received
    told,       \* send -> other events received
    \* the browser's page
    url,        \* the ?c= of the chat page, or Elsewhere
    last,       \* lastLoaded of the chat page
    \* requests in flight
    load, del, saving,
    \* bookkeeping of the model
    disturbed,  \* the view was changed while an answer was streaming
    events      \* clicks and faults so far

dbVars == <<convs, existed, rows, outs>>
genVars == <<stage, aim, home, birth, said, sourced, prompt>>
viewVars == <<msgs, conv, streaming, rail, disturbed>>
readVars == <<reading, heard, told>>
pageVars == <<url, last>>
vars == <<dbVars, genVars, viewVars, readVars, pageVars, list,
          load, del, saving, events>>

Roles == {"user", "assistant"}
Rows == Sends \X Roles
Stages == {"idle", "posted", "retrieving", "answering", "sourced", "done",
           "error", "refused", "aborted"}
\* From its insert on, a question's foreign key locks its conversation.
Holding == {"answering", "sourced"}
InTransaction == {"retrieving"} \cup Holding
Ended == {"done", "error", "refused"}

\* What a bubble shows: the sends its text comes from, Nobody for a notice.
Texts == Seq(Sends \cup {Nobody})
Notice == <<Nobody>>
Bubbles == [of : Sends, role : Roles, stored : BOOLEAN, text : Texts]

NoLoad == [phase |-> "idle", conv |-> NoConv, byUrl |-> FALSE, got |-> <<>>]
NoDelete == [phase |-> "idle", conv |-> NoConv, seen |-> NoConv, cleared |-> {}]

TypeOK ==
    /\ convs \subseteq existed
    /\ existed \subseteq Convs
    /\ rows \subseteq Rows
    /\ outs \subseteq Sends
    /\ stage \in [Sends -> Stages]
    /\ aim \in [Sends -> Convs \cup {NoConv}]
    /\ home \in [Sends -> Convs \cup {NoConv}]
    /\ birth \in [Sends -> 0..MaxSends]
    /\ said \in [Sends -> 0..Deltas]
    /\ sourced \in [Sends -> BOOLEAN]
    /\ prompt \in [Sends -> Seq(Rows)]
    /\ msgs \in Seq(Bubbles)
    /\ conv \in Convs \cup {NoConv}
    /\ streaming \in BOOLEAN
    /\ rail \in Sends \cup {Nobody}
    /\ list \subseteq Convs
    /\ reading \in Sends \cup {Nobody}
    /\ heard \in [Sends -> 0..Deltas]
    /\ told \in [Sends -> SUBSET {"sources", "done", "error"}]
    /\ url \in Convs \cup {NoConv, Elsewhere}
    /\ last \in Convs \cup {NoConv}
    /\ load \in [Loads -> [phase : {"idle", "asked", "found", "read", "missing",
                                    "over"},
                           conv : Convs \cup {NoConv}, byUrl : BOOLEAN,
                           got : Seq(Bubbles)]]
    /\ del \in [Deletes -> [phase : {"idle", "asked", "cleared", "deleted",
                                     "failed", "over"},
                            conv : Convs \cup {NoConv},
                            seen : Convs \cup {NoConv},
                            cleared : SUBSET Sends]]
    /\ saving \subseteq Sends
    /\ disturbed \in BOOLEAN
    /\ events \in 0..MaxEvents

Init ==
    /\ convs = {} /\ existed = {} /\ rows = {} /\ outs = {}
    /\ stage = [s \in Sends |-> "idle"]
    /\ aim = [s \in Sends |-> NoConv]
    /\ home = [s \in Sends |-> NoConv]
    /\ birth = [s \in Sends |-> 0]
    /\ said = [s \in Sends |-> 0]
    /\ sourced = [s \in Sends |-> FALSE]
    /\ prompt = [s \in Sends |-> <<>>]
    /\ msgs = <<>> /\ conv = NoConv /\ streaming = FALSE /\ rail = Nobody
    /\ list = {}
    /\ reading = Nobody
    /\ heard = [s \in Sends |-> 0]
    /\ told = [s \in Sends |-> {}]
    /\ url = NoConv /\ last = NoConv
    /\ load = [l \in Loads |-> NoLoad]
    /\ del = [d \in Deletes |-> NoDelete]
    /\ saving = {}
    /\ disturbed = FALSE
    /\ events = 0

------------------------------------------------------------------------------
(* Queries                                                                 *)

\* SELECT ... ORDER BY created_at: both rows of an exchange carry the now() of
\* their one transaction, so the order between the two is the database's.
Before(a, b) == birth[a[1]] < birth[b[1]] \/ a[1] = b[1]

InOrder(R) ==
    {q \in [1..Cardinality(R) -> R] :
        \A i, j \in 1..Cardinality(R) :
            i < j => q[i] # q[j] /\ Before(q[i], q[j])}

\* The content of the stored message: a question is its own words.
Content(row) ==
    [i \in 1..(IF row[2] = "user" THEN 1 ELSE said[row[1]]) |-> row[1]]

RowsOf(c) == {r \in rows : home[r[1]] = c}

\* The last answer of a sequence of bubbles, 0 when there is none.
LastAnswer(m) ==
    LET answers == {i \in DOMAIN m : m[i].role = "assistant"}
    IN  IF answers = {} THEN 0
        ELSE CHOOSE i \in answers : \A j \in answers : j <= i

\* WorkspacePage: the answer that shows as streaming is the last one, the right
\* rail is there when it has sources.
Screen == [busy |-> IF streaming THEN LastAnswer(msgs) ELSE 0, tree |-> rail]

\* The composer of the chat page is disabled while an answer streams.
CanSend == url # Elsewhere /\ ~streaming

\* The history in the sidebar (the first five in the code), and, below its title
\* only, the way to a new chat.
Sidebar == [open |-> list, new |-> list # {}]

\* The last HistoryLimit of a result.
Window(q) ==
    LET from == IF Len(q) > HistoryLimit THEN Len(q) - HistoryLimit ELSE 0
    IN  [i \in 1..(Len(q) - from) |-> q[from + i]]

\* A click or a fault, of which a run has MaxEvents.
Event == events < MaxEvents /\ events' = events + 1

------------------------------------------------------------------------------
(* The generator of one send                                               *)

\* Mutant of Send: a new question leaves the sources of the last one.
SendKeepsSources(s) ==
    /\ CanSend
    /\ stage[s] = "idle"
    /\ \A t \in 1..(s - 1) : stage[t] # "idle"
    /\ msgs' = msgs \o
         << [of |-> s, role |-> "user", stored |-> FALSE, text |-> <<s>>],
            [of |-> s, role |-> "assistant", stored |-> FALSE, text |-> <<>>] >>
    /\ streaming' = TRUE
    /\ reading' = s
    /\ stage' = [stage EXCEPT ![s] = "posted"]
    /\ aim' = [aim EXCEPT ![s] = conv]
    /\ UNCHANGED <<dbVars, home, birth, said, sourced, prompt, conv, rail,
                   disturbed, heard, told, pageVars, list, load, del, saving,
                   events>>

\* sendMessage: both bubbles at once, then the post with the conversation_id the
\* client holds.
Send(s) ==
    /\ CanSend
    /\ stage[s] = "idle"
    /\ \A t \in 1..(s - 1) : stage[t] # "idle"
    /\ msgs' = msgs \o
         << [of |-> s, role |-> "user", stored |-> FALSE, text |-> <<s>>],
            [of |-> s, role |-> "assistant", stored |-> FALSE, text |-> <<>>] >>
    /\ streaming' = TRUE
    /\ rail' = Nobody
    /\ reading' = s
    /\ stage' = [stage EXCEPT ![s] = "posted"]
    /\ aim' = [aim EXCEPT ![s] = conv]
    /\ UNCHANGED <<dbVars, home, birth, said, sourced, prompt, conv, disturbed,
                   heard, told, pageVars, list, load, del, saving, events>>

\* 400, 403, 409, 422 or 500 before the generator runs: a body without events.
Refuse(s) ==
    /\ Event
    /\ stage[s] = "posted"
    /\ stage' = [stage EXCEPT ![s] = "refused"]
    /\ UNCHANGED <<dbVars, aim, home, birth, said, sourced, prompt, viewVars,
                   readVars, pageVars, list, load, del, saving>>

\* The transaction starts with the request's first query, which resolves the
\* workspace; the retrieval follows.
Start(s) ==
    /\ stage[s] = "posted"
    /\ stage' = [stage EXCEPT ![s] = "retrieving"]
    /\ birth' = [birth EXCEPT ![s] =
                    Cardinality({t \in Sends : birth[t] # 0}) + 1]
    /\ UNCHANGED <<dbVars, aim, home, said, sourced, prompt, viewVars,
                   readVars, pageVars, list, load, del, saving, events>>

\* An id no committed or running transaction uses.
Fresh(c) ==
    /\ c \notin existed
    /\ \A t \in Sends : stage[t] \in Holding => home[t] # c

\* The conversation named by the request, which must still be there, or a new
\* one; the question; for a conversation that was named the history, which
\* holds that question too.
Ask(s) ==
    /\ stage[s] = "retrieving"
    /\ \E c \in Convs :
        /\ IF aim[s] = NoConv
           THEN Fresh(c) /\ \A b \in 1..(c - 1) : ~Fresh(b)
           ELSE c = aim[s] /\ c \in convs
        /\ home' = [home EXCEPT ![s] = c]
        /\ IF aim[s] = NoConv THEN prompt' = prompt
           ELSE \E q \in InOrder(RowsOf(c) \cup {<<s, "user">>}) :
                prompt' = [prompt EXCEPT ![s] = Window(q)]
    /\ stage' = [stage EXCEPT ![s] = "answering"]
    /\ UNCHANGED <<dbVars, aim, birth, said, sourced, viewVars, readVars,
                   pageVars, list, load, del, saving, events>>

Delta(s) ==
    /\ stage[s] = "answering"
    /\ said[s] < Deltas
    /\ said' = [said EXCEPT ![s] = @ + 1]
    /\ UNCHANGED <<dbVars, stage, aim, home, birth, sourced, prompt, viewVars,
                   readVars, pageVars, list, load, del, saving, events>>

\* Mutant of Source: the answer is stored by a transaction of its own: a failure,
\* or a client that goes away, comes between the two.
SourceCommits(s) ==
    /\ stage[s] = "answering"
    /\ stage' = [stage EXCEPT ![s] = "sourced"]
    /\ sourced' = [sourced EXCEPT ![s] = TRUE]
    /\ rows' = rows \cup {<<s, "user">>}
    /\ convs' = convs \cup {home[s]}
    /\ existed' = existed \cup {home[s]}
    /\ UNCHANGED <<outs, aim, home, birth, said, prompt, viewVars, readVars,
                   pageVars, list, load, del, saving, events>>

Source(s) ==
    /\ stage[s] = "answering"
    /\ stage' = [stage EXCEPT ![s] = "sourced"]
    /\ sourced' = [sourced EXCEPT ![s] = TRUE]
    /\ UNCHANGED <<dbVars, aim, home, birth, said, prompt, viewVars, readVars,
                   pageVars, list, load, del, saving, events>>

\* The only commit: conversation, question and answer.
Commit(s) ==
    /\ stage[s] = "sourced"
    /\ convs' = IF aim[s] = NoConv THEN convs \cup {home[s]} ELSE convs
    /\ existed' = existed \cup convs'
    /\ rows' = rows \cup {<<s, r>> : r \in Roles}
    /\ stage' = [stage EXCEPT ![s] = "done"]
    /\ prompt' = [prompt EXCEPT ![s] = <<>>]
    /\ UNCHANGED <<outs, aim, home, birth, said, sourced, viewVars, readVars,
                   pageVars, list, load, del, saving, events>>

\* The retriever, the model or the database raises, or the conversation is gone
\* (the foreign key of the question): one "error" event, and a rollback.
Fail(s) ==
    /\ stage[s] \in InTransaction
    /\ IF stage[s] = "retrieving" /\ aim[s] \notin convs \cup {NoConv}
       THEN UNCHANGED events ELSE Event
    /\ stage' = [stage EXCEPT ![s] = "error"]
    /\ prompt' = [prompt EXCEPT ![s] = <<>>]
    /\ UNCHANGED <<dbVars, aim, home, birth, said, sourced, viewVars, readVars,
                   pageVars, list, load, del, saving>>

\* Nobody reads the body any more and the server notices: the response is
\* cancelled, and the session is closed without a commit.
Abort(s) ==
    /\ stage[s] \in {"posted"} \cup InTransaction
    /\ reading # s
    /\ stage' = [stage EXCEPT ![s] = "aborted"]
    /\ prompt' = [prompt EXCEPT ![s] = <<>>]
    /\ UNCHANGED <<dbVars, aim, home, birth, said, sourced, viewVars, readVars,
                   pageVars, list, load, del, saving, events>>

------------------------------------------------------------------------------
(* The client reads the events of its one open body                        *)

\* The bubble with the local id sendMessage gave the answer.
IsPlaceholder(m, s) == m.of = s /\ m.role = "assistant" /\ ~m.stored

\* Mutant of HearText: the text goes to the last answer on the screen.
HearTextLast(s) ==
    /\ reading = s
    /\ heard[s] < said[s]
    /\ heard' = [heard EXCEPT ![s] = @ + 1]
    /\ msgs' = [i \in DOMAIN msgs |->
                  IF i = LastAnswer(msgs)
                  THEN [msgs[i] EXCEPT !.text = Append(@, s)] ELSE msgs[i]]
    /\ UNCHANGED <<dbVars, genVars, conv, streaming, rail, disturbed, reading,
                   told, pageVars, list, load, del, saving, events>>

HearText(s) ==
    /\ reading = s
    /\ heard[s] < said[s]
    /\ heard' = [heard EXCEPT ![s] = @ + 1]
    /\ msgs' = [i \in DOMAIN msgs |->
                  IF IsPlaceholder(msgs[i], s)
                  THEN [msgs[i] EXCEPT !.text = Append(@, s)] ELSE msgs[i]]
    /\ UNCHANGED <<dbVars, genVars, conv, streaming, rail, disturbed, reading,
                   told, pageVars, list, load, del, saving, events>>

HearSources(s) ==
    /\ reading = s
    /\ heard[s] = said[s]
    /\ sourced[s] /\ "sources" \notin told[s]
    /\ told' = [told EXCEPT ![s] = @ \cup {"sources"}]
    /\ rail' = s
    /\ UNCHANGED <<dbVars, genVars, msgs, conv, streaming, disturbed, reading,
                   heard, pageVars, list, load, del, saving, events>>

\* Whether everything before the outcome has been received.
Caught(s) == heard[s] = said[s] /\ (sourced[s] => "sources" \in told[s])

HearDone(s) ==
    /\ reading = s
    /\ stage[s] = "done" /\ Caught(s) /\ "done" \notin told[s]
    /\ told' = [told EXCEPT ![s] = @ \cup {"done"}]
    /\ conv' = home[s]
    /\ msgs' = [i \in DOMAIN msgs |->
                  IF IsPlaceholder(msgs[i], s)
                  THEN [msgs[i] EXCEPT !.stored = TRUE] ELSE msgs[i]]
    /\ UNCHANGED <<dbVars, genVars, streaming, rail, disturbed, reading, heard,
                   pageVars, list, load, del, saving, events>>

HearError(s) ==
    /\ reading = s
    /\ stage[s] = "error" /\ Caught(s) /\ "error" \notin told[s]
    /\ told' = [told EXCEPT ![s] = @ \cup {"error"}]
    /\ msgs' = [i \in DOMAIN msgs |->
                  IF IsPlaceholder(msgs[i], s)
                  THEN [msgs[i] EXCEPT !.text = Notice] ELSE msgs[i]]
    /\ UNCHANGED <<dbVars, genVars, conv, streaming, rail, disturbed, reading,
                   heard, pageVars, list, load, del, saving, events>>

\* loadConversations: the list of this moment, stale from the next commit on, or
\* no reply.  Replies that overtake each other are left out.
ShowList(before) == list' \in {before, convs}

\* The end of the body, then the finally block.
HearEnd(s) ==
    /\ reading = s
    /\ stage[s] \in Ended /\ Caught(s)
    /\ stage[s] # "refused" => stage[s] \in told[s]
    /\ reading' = Nobody
    /\ streaming' = FALSE
    /\ ShowList(list)
    /\ UNCHANGED <<dbVars, genVars, msgs, conv, rail, disturbed, heard, told,
                   pageVars, load, del, saving, events>>

\* Mutant of Break: the flag is reset after the loop, not in the finally block.
BreakKeepsStreaming(s) ==
    /\ Event
    /\ reading = s
    /\ msgs' = [i \in DOMAIN msgs |->
                  IF IsPlaceholder(msgs[i], s)
                  THEN [msgs[i] EXCEPT !.text = Notice] ELSE msgs[i]]
    /\ reading' = Nobody
    /\ ShowList(list)
    /\ UNCHANGED <<dbVars, genVars, conv, streaming, rail, disturbed, heard,
                   told, pageVars, load, del, saving>>

\* fetch or read() throws: the catch block, then the finally block.
Break(s) ==
    /\ Event
    /\ reading = s
    /\ msgs' = [i \in DOMAIN msgs |->
                  IF IsPlaceholder(msgs[i], s)
                  THEN [msgs[i] EXCEPT !.text = Notice] ELSE msgs[i]]
    /\ reading' = Nobody
    /\ streaming' = FALSE
    /\ ShowList(list)
    /\ UNCHANGED <<dbVars, genVars, conv, rail, disturbed, heard, told,
                   pageVars, load, del, saving>>

------------------------------------------------------------------------------
(* Opening, leaving and deleting conversations                             *)

\* Whether an action that changes the view does so under a running answer.
Disturb == disturbed' = streaming

Idle(l) ==
    /\ load[l].phase = "idle"
    /\ \A k \in 1..(l - 1) : load[k].phase # "idle"

Asked(c, byUrl) ==
    [NoLoad EXCEPT !.phase = "asked", !.conv = c, !.byUrl = byUrl]

\* Mutant of Select: the id is set when the conversation is clicked.
SelectAtOnce(c) ==
    /\ Event
    /\ c \in Sidebar.open
    /\ url' = c /\ last' = c /\ conv' = c
    /\ \E l \in Loads :
        Idle(l) /\ load' = [load EXCEPT ![l] = Asked(c, FALSE)]
    /\ UNCHANGED <<dbVars, genVars, msgs, streaming, rail, disturbed, readVars,
                   list, del, saving>>

\* handleSelectConversation, one of the first conversations in the sidebar: one
\* request for its messages and, when the url changes with it, a second one by
\* the page's ConversationFromQuery.
Select(c) ==
    /\ Event
    /\ c \in Sidebar.open
    /\ url' = c
    /\ \E l \in Loads :
        /\ Idle(l)
        /\ IF url = c \/ last = c
           THEN load' = [load EXCEPT ![l] = Asked(c, FALSE)] /\ last' = last
           ELSE /\ l + 1 \in Loads
                /\ load' = [load EXCEPT ![l] = Asked(c, FALSE),
                                        ![l + 1] = Asked(c, TRUE)]
                /\ last' = c
    /\ UNCHANGED <<dbVars, genVars, viewVars, readVars, list, del, saving>>

\* newChat and the way to the chat page.
NewChat ==
    /\ Event
    /\ Sidebar.new
    /\ msgs' = <<>>
    /\ conv' = NoConv
    /\ rail' = Nobody
    /\ Disturb
    /\ url' = NoConv
    /\ UNCHANGED <<dbVars, genVars, streaming, readVars, last, list, load, del,
                   saving>>

\* Another page of the application: the chat page unmounts with its lastLoaded,
\* the chat state stays.
Leave ==
    /\ Event
    /\ url # Elsewhere
    /\ url' = Elsewhere
    /\ last' = NoConv
    /\ UNCHANGED <<dbVars, genVars, viewVars, readVars, list, load, del,
                   saving>>

Return ==
    /\ Event
    /\ url = Elsewhere
    /\ url' = NoConv
    /\ UNCHANGED <<dbVars, genVars, viewVars, readVars, last, list, load, del,
                   saving>>

\* The chat state is mounted anew: the way over the dashboard, which leaves
\* bodies being read by a state nobody sees, or a reload of the page, after which
\* nobody reads them; a reload keeps the url.
Remount(reloaded) ==
    /\ Event
    /\ msgs' = <<>> /\ conv' = NoConv /\ streaming' = FALSE /\ rail' = Nobody
    /\ disturbed' = FALSE
    /\ ShowList({})
    /\ reading' = Nobody
    /\ LET off == [l \in Loads |-> IF load[l].phase = "idle" THEN load[l]
                                   ELSE [NoLoad EXCEPT !.phase = "over"]]
       IN  IF reloaded /\ url \in Convs
           THEN /\ \E l \in Loads :
                    Idle(l) /\ load' = [off EXCEPT ![l] = Asked(url, TRUE)]
                /\ url' = url /\ last' = url
           ELSE load' = off /\ url' = NoConv /\ last' = NoConv
    /\ del' = [d \in Deletes |->
                 IF del[d].phase \in {"deleted", "failed"}
                 THEN [NoDelete EXCEPT !.phase = "over"]
                 ELSE [del[d] EXCEPT !.seen = NoConv]]
    /\ UNCHANGED <<dbVars, genVars, heard, told, saving>>

\* get_conversation_messages: the conversation must be there, ...
FindLoad(l) ==
    /\ load[l].phase = "asked"
    /\ load' = [load EXCEPT ![l].phase =
                  IF load[l].conv \in convs THEN "found" ELSE "missing"]
    /\ UNCHANGED <<dbVars, genVars, viewVars, readVars, pageVars, list, del,
                   saving, events>>

\* ... then its rows as they are when they are read: none, and no error, when the
\* conversation was deleted in between.
ReadLoad(l) ==
    /\ load[l].phase = "found"
    /\ \E q \in InOrder(RowsOf(load[l].conv)) :
        load' = [load EXCEPT ![l].phase = "read", ![l].got =
                   [i \in DOMAIN q |->
                      [of |-> q[i][1], role |-> q[i][2], stored |-> TRUE,
                       text |-> Content(q[i])]]]
    /\ UNCHANGED <<dbVars, genVars, viewVars, readVars, pageVars, list, del,
                   saving, events>>

\* Mutant of ShowLoad: the reply is taken for the conversation in the url.
ShowLoadByUrl(l) ==
    /\ load[l].phase = "read"
    /\ msgs' = load[l].got
    /\ conv' = url
    /\ rail' = IF LastAnswer(load[l].got) = 0 THEN rail
               ELSE load[l].got[LastAnswer(load[l].got)].of
    /\ Disturb
    /\ load' = [load EXCEPT ![l] = [NoLoad EXCEPT !.phase = "over"]]
    /\ UNCHANGED <<dbVars, genVars, streaming, readVars, pageVars, list, del,
                   saving, events>>

\* loadConversation goes on with the reply, whatever was opened since.
ShowLoad(l) ==
    /\ load[l].phase = "read"
    /\ msgs' = load[l].got
    /\ conv' = load[l].conv
    /\ rail' = IF LastAnswer(load[l].got) = 0 THEN rail
               ELSE load[l].got[LastAnswer(load[l].got)].of
    /\ Disturb
    /\ load' = [load EXCEPT ![l] = [NoLoad EXCEPT !.phase = "over"]]
    /\ UNCHANGED <<dbVars, genVars, streaming, readVars, pageVars, list, del,
                   saving, events>>

\* 404, or no reply at all: ignored, except that the page forgets its own load.
DropLoad(l) ==
    /\ \/ load[l].phase \in {"asked", "found", "read"} /\ Event
       \/ load[l].phase = "missing" /\ UNCHANGED events
    /\ last' = IF load[l].byUrl /\ url # Elsewhere THEN NoConv ELSE last
    /\ load' = [load EXCEPT ![l] = [NoLoad EXCEPT !.phase = "over"]]
    /\ UNCHANGED <<dbVars, genVars, viewVars, readVars, url, list, del,
                   saving>>

\* The cross in the sidebar; currentConversationId is the one of the click.
AskDelete(c) ==
    /\ Event
    /\ c \in Sidebar.open
    /\ \E d \in Deletes :
        /\ del[d].phase = "idle"
        /\ \A k \in 1..(d - 1) : del[k].phase # "idle"
        /\ del' = [del EXCEPT ![d] =
                     [NoDelete EXCEPT !.phase = "asked", !.conv = c, !.seen = conv]]
    /\ UNCHANGED <<dbVars, genVars, viewVars, readVars, pageVars, list, load,
                   saving>>

\* delete_conversation finds the conversation and deletes its outputs, ...
DeleteOutputs(d) ==
    /\ del[d].phase = "asked"
    /\ del' = IF del[d].conv \notin convs
              THEN [del EXCEPT ![d].phase = "failed"]
              ELSE [del EXCEPT ![d].phase = "cleared", ![d].cleared =
                                 {s \in outs : home[s] = del[d].conv}]
    /\ UNCHANGED <<dbVars, genVars, viewVars, readVars, pageVars, list, load,
                   saving, events>>

\* Mutant of DeleteRows: the row of a conversation does not wait for the questions
\* that refer to it.
DeleteRowsAtOnce(d) ==
    /\ del[d].phase = "cleared"
    /\ LET c == del[d].conv IN
        /\ convs' = convs \ {c}
        /\ rows' = rows \ RowsOf(c)
        /\ outs' = {s \in outs : home[s] # c}
        /\ existed' = existed
        /\ del' = [del EXCEPT ![d].phase = "deleted", ![d].cleared = {}]
    /\ UNCHANGED <<genVars, viewVars, readVars, pageVars, list, load, saving,
                   events>>

\* ... then its messages and the row, and commits.  The row waits for questions
\* that hold it; an output saved meanwhile refers to a message and makes the
\* request fail as a whole.
DeleteRows(d) ==
    /\ del[d].phase = "cleared"
    /\ LET c == del[d].conv IN
        IF \E s \in outs \ del[d].cleared : home[s] = c
        THEN /\ del' = [del EXCEPT ![d].phase = "failed", ![d].cleared = {}]
             /\ UNCHANGED dbVars
        ELSE /\ \A t \in Sends : stage[t] \in Holding => home[t] # c
             /\ convs' = convs \ {c}
             /\ rows' = rows \ RowsOf(c)
             /\ outs' = outs \ del[d].cleared
             /\ existed' = existed
             /\ del' = [del EXCEPT ![d].phase = "deleted", ![d].cleared = {}]
    /\ UNCHANGED <<genVars, viewVars, readVars, pageVars, list, load, saving,
                   events>>

\* deleteConversation goes on.
HearDelete(d) ==
    /\ del[d].phase = "deleted"
    /\ list' = list \ {del[d].conv}
    /\ IF del[d].seen = del[d].conv
       THEN msgs' = <<>> /\ conv' = NoConv /\ rail' = Nobody /\ Disturb
       ELSE UNCHANGED <<msgs, conv, rail, disturbed>>
    /\ del' = [del EXCEPT ![d] = [NoDelete EXCEPT !.phase = "over"]]
    /\ UNCHANGED <<dbVars, genVars, streaming, readVars, pageVars, load,
                   saving, events>>

\* 404, 500 or no reply: ignored.
DropDelete(d) ==
    /\ \/ del[d].phase = "deleted" /\ Event
       \/ del[d].phase = "failed" /\ UNCHANGED events
    /\ del' = [del EXCEPT ![d] = [NoDelete EXCEPT !.phase = "over"]]
    /\ UNCHANGED <<dbVars, genVars, viewVars, readVars, pageVars, list, load,
                   saving>>

------------------------------------------------------------------------------
(* Outputs                                                                 *)

\* An answer has its buttons when it has text and is not the one streaming.
HasActions(i) ==
    /\ msgs[i].role = "assistant"
    /\ msgs[i].text # <<>>
    /\ i # Screen.busy

\* "save as": the server knows only the identity of a stored message.
AskOutput(i) ==
    /\ Event
    /\ url # Elsewhere
    /\ HasActions(i)
    /\ msgs[i].stored
    /\ msgs[i].of \notin saving \cup outs
    /\ saving' = saving \cup {msgs[i].of}
    /\ UNCHANGED <<dbVars, genVars, viewVars, readVars, pageVars, list, load,
                   del>>

\* post_generate: no output of a message that is gone, be it before the request
\* looks for it (400) or when the row that refers to it is inserted (500).
SaveOutput(s) ==
    /\ s \in saving
    /\ saving' = saving \ {s}
    /\ outs' = IF <<s, "assistant">> \in rows THEN outs \cup {s} ELSE outs
    /\ UNCHANGED <<convs, existed, rows, genVars, viewVars, readVars, pageVars,
                   list, load, del, events>>

------------------------------------------------------------------------------

Generate(s) ==
    \/ Refuse(s) \/ Start(s) \/ Ask(s) \/ Delta(s) \/ Source(s) \/ Commit(s)
    \/ Fail(s) \/ Abort(s)

Hear(s) ==
    \/ HearText(s) \/ HearSources(s) \/ HearDone(s) \/ HearError(s)
    \/ HearEnd(s)

Next ==
    \/ \E s \in Sends :
        Send(s) \/ Generate(s) \/ Hear(s) \/ Break(s) \/ SaveOutput(s)
    \/ \E c \in Convs : Select(c) \/ AskDelete(c)
    \/ \E l \in Loads : FindLoad(l) \/ ReadLoad(l) \/ ShowLoad(l) \/ DropLoad(l)
    \/ \E d \in Deletes :
        DeleteOutputs(d) \/ DeleteRows(d) \/ HearDelete(d) \/ DropDelete(d)
    \/ \E i \in DOMAIN msgs : AskOutput(i)
    \/ NewChat \/ Leave \/ Return
    \/ \E reloaded \in BOOLEAN : Remount(reloaded)

Spec == Init /\ [][Next]_vars

\* The server works on a request it has, and the browser on a body that has
\* events; the model's client has a timeout, so the generator moves on or fails.
Fairness ==
    \A s \in Sends : WF_vars(Generate(s)) /\ WF_vars(Hear(s))

FairSpec == Spec /\ Fairness

------------------------------------------------------------------------------
(* What is checked                                                         *)

\* A bubble that carries the server's identity of a message shows that message:
\* its stored row (or one whose conversation was deleted since) and the whole of
\* its content, never a part, another answer's words or an error notice.
ShownStoredIsTrue ==
    \A i \in DOMAIN msgs : msgs[i].stored =>
        /\ \/ <<msgs[i].of, msgs[i].role>> \in rows
           \/ home[msgs[i].of] \in existed \ convs
        /\ msgs[i].text = Content(<<msgs[i].of, msgs[i].role>>)

\* The conversation a bubble is of, as far as the client was told.
PlaceOf(m) ==
    IF m.stored \/ "done" \in told[m.of] THEN home[m.of] ELSE aim[m.of]

\* A bubble of a question that began a new chat, whose "done" never arrived: the
\* client does not know its conversation and shows no answer to it.
Unplaced(m) ==
    /\ aim[m.of] = NoConv /\ ~m.stored /\ "done" \notin told[m.of]
    /\ m.role = "assistant" => m.text \in {<<>>, Notice}

\* Unless the view was changed under a running answer, every bubble on the screen
\* is of the conversation the next question will be sent to, and so is every word
\* of an answer; all that can be left from elsewhere is a question that began a
\* new chat and lost its stream, with its notice.
ViewIsCurrent ==
    disturbed \/ \A i \in DOMAIN msgs : PlaceOf(msgs[i]) = conv \/ Unplaced(msgs[i])

\* Unless the view was changed under a running answer, the right rail lists the
\* sources of the last answer on the screen, or nothing.  The one exception is an
\* empty screen, of a conversation deleted between the two queries of its load:
\* the rail of the screen before it stays.
RailIsOfLastAnswer ==
    \/ disturbed \/ Screen.tree = Nobody
    \/ LastAnswer(msgs) # 0 /\ msgs[LastAnswer(msgs)].of = Screen.tree
    \/ msgs = <<>> /\ conv \in existed \ convs

\* A stored question has its stored answer, and every conversation has one: no
\* failure, disconnect or delete leaves half an exchange behind.  It follows that
\* a question whose answer fails is lost: the insert "before streaming" that
\* chat.py:3 and engine.py:174 speak of is only flushed; engine.py:261 commits.
ExchangeIsWhole ==
    /\ \A s \in Sends : <<s, "user">> \in rows <=> <<s, "assistant">> \in rows
    /\ \A c \in convs :
        \E s \in Sends : <<s, "assistant">> \in rows /\ home[s] = c

\* Nothing outlives what it refers to, in whatever order answers are stored,
\* outputs saved and conversations deleted.
NoOrphans ==
    /\ \A r \in rows : home[r[1]] \in convs
    /\ \A s \in outs : <<s, "assistant">> \in rows

\* Whatever was interrupted, failed or is running beside it, the history put
\* before the model is of the conversation the question was sent to, each message
\* of it once, and but for the question itself of exchanges that are complete.
HistoryIsSettled ==
    \A s \in Sends : \A i \in DOMAIN prompt[s] :
        LET m == prompt[s][i]
        IN  /\ \A j \in DOMAIN prompt[s] : prompt[s][j] = m => i = j
            /\ \/ m = <<s, "user">>
               \/ stage[m[1]] = "done" /\ home[m[1]] = aim[s]

\* The composer is not disabled for ever: an answer that streams ends, whatever
\* fails on the way.
StreamingEnds == streaming ~> ~streaming
==============================================================================
