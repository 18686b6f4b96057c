------------------------------ MODULE WebChat ------------------------------
(***************************************************************************)
(* The chat that caliban's web page shows: a client reads the newest page  *)
(* of a conversation, then older pages by cursor, while inputs, events and *)
(* the rows of runs are appended.  A page is a range of rows, and the two  *)
(* queries that find it see two states of the table                        *)
(* (caliban/internal/store/store.go, caliban/internal/web/web.go).         *)
(***************************************************************************)
EXTENDS Integers, Sequences, FiniteSetsExt

CONSTANTS
    MaxRows,           \* bound: rows of the conversation
    MaxRunRows,        \* bound: rows of one run
    PageLimits,        \* targets a client asks for
    DefaultChatTail, MaxChatTail,  \* defaultChatTailLimit, maxChatTailLimit
    MaxOlderChatPage,  \* maxOlderChatPageTargetLimit
    PageCap            \* maxExpandedMessagePage

ASSUME WebChatAssumption ==
    /\ {MaxRows, MaxRunRows, PageCap, DefaultChatTail, MaxChatTail, MaxOlderChatPage} \subseteq Nat \ {0}
    /\ PageLimits \subseteq Nat \ {0}

VARIABLES
    chat,              \* the rows: the run that wrote each, 0 for inputs and events
    inputOf,           \* runs: the row each run answers
    fetch,             \* the request that is being answered
    pages              \* what the client has, newest first

chatVars == <<chat, inputOf, fetch, pages>>

NoFetch == [at |-> "none"]

ChatInit == chat = <<>> /\ inputOf = <<>> /\ fetch = NoFetch /\ pages = <<>>

(* A user message, or an event outside any run. *)
AppendChatRow ==
    /\ Len(chat) < MaxRows
    /\ chat' = Append(chat, 0)
    /\ UNCHANGED <<inputOf, fetch, pages>>

(* A run that answers row i ends: its rows are appended in one transaction. *)
AppendRun(i, n) ==
    /\ i \in DOMAIN chat /\ chat[i] = 0
    /\ \A r \in DOMAIN inputOf : inputOf[r] < i
    /\ Len(chat) + n <= MaxRows
    /\ inputOf' = Append(inputOf, i)
    /\ chat' = chat \o [k \in 1..n |-> Len(inputOf')]
    /\ UNCHANGED <<fetch, pages>>

-----------------------------------------------------------------------------
(* loadMessagesTail and loadMessagesBefore: the newest rows from lower on   *)
(* and ahead of before, at most limit.                                      *)
Load(lower, before, limit) ==
    [lo |-> Max({lower, before - limit}), hi |-> before - 1]

(* The rows of a page that belong to runs name the inputs of those runs. *)
Runs(page) == {chat[k] : k \in page.lo..page.hi} \ {0}
(* Mutant: only the page's first row is asked for its run. *)
OldestRunInputOfFirst(page) == IF chat[page.lo] = 0 THEN 0 ELSE inputOf[chat[page.lo]]
OldestRunInput(page) ==
    IF Runs(page) = {} THEN 0 ELSE Min({inputOf[r] : r \in Runs(page)})

(* The target that a request names, or the default of one that names none   *)
(* (0), and no more than the page may have; what is no positive number is   *)
(* refused.                                                                 *)
AtMost(limit, most) == IF limit > most THEN most ELSE limit
ChatMessageLimit(raw) == IF raw = 0 THEN DefaultChatTail ELSE AtMost(raw, MaxChatTail)
OlderMessageLimit(raw) == AtMost(ChatMessageLimit(raw), MaxOlderChatPage)

BeginFetch(tail, before, limit) ==
    /\ fetch' = [at |-> "expand", tail |-> tail, before |-> before,
                 page |-> Load(1, before, limit), limit |-> limit]
    /\ UNCHANGED <<chat, inputOf, pages>>

(* A client asks for the latest page, or for the one ahead of its cursor. *)
GetChat(raw) ==
    /\ fetch.at = "none" /\ chat # <<>>
    /\ BeginFetch(TRUE, Len(chat) + 1, ChatMessageLimit(raw))

GetOlder(raw) ==
    /\ fetch.at = "none" /\ pages # <<>>
    /\ pages[Len(pages)].cursor # 0
    /\ BeginFetch(FALSE, pages[Len(pages)].cursor, OlderMessageLimit(raw))

(* A page that starts inside a run is read again from that run's input on;  *)
(* the latest page then has what was appended meanwhile.                    *)
Expanded ==
    LET from == OldestRunInput(fetch.page)
        before == IF fetch.tail THEN Len(chat) + 1 ELSE fetch.before
        cap == Max({PageCap, fetch.limit})
    IN IF from > 0 /\ from < fetch.page.lo THEN Load(from, before, cap) ELSE fetch.page

(* The cursor is the first row's id, if there is an older one. *)
Cursor(page) == IF page.lo > 1 THEN page.lo ELSE 0

Expand ==
    /\ fetch.at = "expand"
    /\ fetch' = NoFetch
    /\ LET page == [lo |-> Expanded.lo, hi |-> Expanded.hi, cursor |-> Cursor(Expanded),
                    raw |-> fetch.page, limit |-> fetch.limit]
       IN pages' = IF fetch.tail THEN <<page>> ELSE Append(pages, page)
    /\ UNCHANGED <<chat, inputOf>>

ChatNext ==
    \/ AppendChatRow
    \/ \E i \in 1..MaxRows, n \in 1..MaxRunRows : AppendRun(i, n)
    \/ \E raw \in PageLimits \cup {0} : GetChat(raw) \/ GetOlder(raw)
    \/ Expand

ChatSpec == ChatInit /\ [][ChatNext]_chatVars

-----------------------------------------------------------------------------
(* The pages of a client join: each ends just ahead of the one read before  *)
(* it, and the last has no cursor only when it begins the conversation.  A  *)
(* run that the page asked for has a row of is there with its input, unless *)
(* the page is full.                                                        *)
PagesJoin ==
    \A k \in DOMAIN pages :
        /\ k > 1 => pages[k].hi = pages[k - 1].lo - 1
        /\ pages[k].cursor = 0 <=> pages[k].lo = 1
        /\ \/ pages[k].hi - pages[k].lo + 1 >= PageCap
           \/ \A r \in Runs(pages[k].raw) : inputOf[r] >= pages[k].lo
=============================================================================
