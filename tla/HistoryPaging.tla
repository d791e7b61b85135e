--------------------------- MODULE HistoryPaging ---------------------------
(***************************************************************************)
(* Reading the history of a topic backwards, page by page                  *)
(* (src/mcp_server/src/history-paging.ts, GET /topics/:id/messages in      *)
(* broker.ts, readTopicMessages in transport/local.ts), while other        *)
(* sessions post to the topic.  The cursor is the time of the oldest       *)
(* message of the previous page, and times are not unique.                 *)
(*                                                                         *)
(* The broker stamps messages with its clock, which is taken not to run    *)
(* backwards.  A message is its number and its time.                       *)
(***************************************************************************)
EXTENDS Integers, Sequences

CONSTANTS
    HISTORY_DEFAULT_LIMIT, HISTORY_MAX_LIMIT,
    RawLimits,      \* ?limit= values, NoNumber among them
    NoNumber,       \* absent, or not a number
    MaxMessages,    \* bound: messages posted
    MaxTime         \* bound: the clock

ASSUME PagingAssumption ==
    /\ HISTORY_DEFAULT_LIMIT \in 1 .. HISTORY_MAX_LIMIT /\ HISTORY_MAX_LIMIT \in Nat
    /\ RawLimits \subseteq Int \cup {NoNumber} /\ NoNumber \notin Int
    /\ MaxMessages \in Nat /\ MaxTime \in Nat

VARIABLES
    now,        \* the broker's clock, in milliseconds
    messages,   \* the topic's messages
    before,     \* the reader's cursor, oldestTs of the last page
    hasMore,    \* of the last page
    begun,      \* how many messages there were at the first page
    pages       \* what the reader has, put together in order

readerVars == <<before, hasMore, begun, pages>>
vars == <<now, messages, readerVars>>

HistoryEntry == [number: 1 .. MaxMessages, ts: 0 .. MaxTime]

\* Types.
TypeOK ==
    /\ now \in 0 .. MaxTime
    /\ messages \in Seq(HistoryEntry) /\ Len(messages) <= MaxMessages
    /\ before \in 0 .. MaxTime \cup {NoNumber}
    /\ hasMore \in BOOLEAN
    /\ begun \in 0 .. MaxMessages
    /\ pages \in Seq(HistoryEntry)

-----------------------------------------------------------------------------
(* One page *)

clampHistoryLimit(raw) ==
    IF raw = NoNumber THEN HISTORY_DEFAULT_LIMIT
    ELSE IF raw < 1 THEN 1
    ELSE IF raw > HISTORY_MAX_LIMIT THEN HISTORY_MAX_LIMIT ELSE raw

\* Faulty Older: the cursor is inclusive.
OlderOrEqual(all, cursor) ==
    IF cursor = NoNumber THEN all ELSE SelectSeq(all, LAMBDA m : m.ts <= cursor)

\* all.filter(m => m.ts < before): kept[n] is what is left of the first n
Older(all, cursor) ==
    LET kept[n \in 0 .. Len(all)] ==
            IF n = 0 THEN <<>>
            ELSE IF all[n].ts < cursor THEN Append(kept[n - 1], all[n]) ELSE kept[n - 1]
    IN IF cursor = NoNumber THEN all ELSE kept[Len(all)]

\* Faulty Start: a group of equal times is split.
StartByCount(older, limit) == IF Len(older) > limit THEN Len(older) - limit ELSE 0

\* Faulty Start: the page shrinks to whole groups.
StartInward(older, limit) ==
    CHOOSE s \in StartByCount(older, limit) .. Len(older) :
        /\ s \in {0, Len(older)} \/ older[s].ts # older[s + 1].ts
        /\ \A k \in (StartByCount(older, limit) + 1) .. (s - 1) : older[k].ts = older[k + 1].ts

\* How many messages stay behind the page: all but limit, and fewer when that
\* would split a group of equal times.
Start(older, limit) ==
    CHOOSE s \in 0 .. StartByCount(older, limit) :
        /\ s = 0 \/ older[s].ts # older[s + 1].ts
        /\ \A k \in (s + 1) .. StartByCount(older, limit) : older[k].ts = older[k + 1].ts

oldestTs(page) == IF page = <<>> THEN NoNumber ELSE page[1].ts

-----------------------------------------------------------------------------
(* Reading and posting *)

Init ==
    /\ now = 0 /\ messages = <<>>
    /\ before = NoNumber /\ hasMore = FALSE /\ begun = 0 /\ pages = <<>>

\* pageTopicHistory, asked for what is older than cursor
Read(raw, cursor, rest) ==
    LET older == Older(messages, cursor)
        start == Start(older, clampHistoryLimit(raw))
        page  == SubSeq(older, start + 1, Len(older))
    IN  /\ pages' = page \o rest
        /\ hasMore' = (start > 0)
        /\ before' = oldestTs(page)
        /\ UNCHANGED <<now, messages>>

FirstPage(raw) == Read(raw, NoNumber, <<>>) /\ begun' = Len(messages)

\* "call again with `before` set to the previous page's `oldestTs` until
\* `hasMore` is false"
NextPage(raw) == hasMore /\ Read(raw, before, pages) /\ UNCHANGED begun

Post ==
    /\ Len(messages) < MaxMessages
    /\ messages' = Append(messages, [number |-> Len(messages) + 1, ts |-> now])
    /\ UNCHANGED <<now, readerVars>>

Tick == now < MaxTime /\ now' = now + 1 /\ UNCHANGED <<messages, readerVars>>

Next ==
    \/ \E raw \in RawLimits : NextPage(raw) \/ (~hasMore /\ FirstPage(raw))
    \/ Post \/ Tick

\* The reader goes on while there is more.
Fairness == WF_vars(\E raw \in RawLimits : NextPage(raw))

Spec == Init /\ [][Next]_vars /\ Fairness

-----------------------------------------------------------------------------
(* Properties *)

\* The pages read so far are, in order, the newest messages there were when
\* reading began: none is dropped or repeated at a page boundary, whatever is
\* posted meanwhile; and hasMore says whether older ones remain.
PagesExact ==
    /\ Len(pages) <= begun
    /\ pages = SubSeq(messages, begun - Len(pages) + 1, begun)
    /\ hasMore <=> Len(pages) < begun

\* A page holds as many messages as were asked for, or all that remain.
PageIsFull ==
    [][\A raw \in RawLimits :
        NextPage(raw) => \/ Len(pages') - Len(pages) >= clampHistoryLimit(raw)
                         \/ ~hasMore']_vars

\* A reader that goes on reaches the first message.
ReadsAll == hasMore ~> (~hasMore /\ Len(pages) = begun)
=============================================================================
