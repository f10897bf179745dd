------------------------------ MODULE Listings ------------------------------
(* The lists a reader pages through (imports, audit, todos, risks, timeline, *)
(* conversations, mail, users).  Every page is one request of two statements, *)
(* one for the rows at an offset and one for the total, and rows appear,      *)
(* move and leave while a reader goes from page to page.                      *)
(*                                                                            *)
(* A row of a list is what its condition and its order look at; texts,        *)
(* scopes and filters that only choose which rows are in question are not.    *)
(* The time of a row is read before its transaction commits, so that rows may *)
(* become visible in another order than their times.                          *)
EXTENDS Integers, FiniteSets, Sequences, SequencesExt

CONSTANTS
    Items,        \* rows, named by their id
    Times,        \* milliseconds
    PageSize,
    MaxListEdits  \* bound: changes of the table while a reader walks

ASSUME ListingsAssumption ==
    /\ Items \subseteq Nat /\ Times \subseteq Nat \ {0}
    /\ PageSize \in Nat \ {0} /\ MaxListEdits \in Nat

VARIABLES
    listing,  \* the list under view
    table,    \* its rows, Absent where there is none
    walk,     \* the reader: what it has read, and what changed meanwhile
    changes

listingVars == <<listing, table, walk, changes>>

Absent == [state |-> "none", rank |-> 0, at |-> 0]

\* A list: the states its rows may be in, those its condition shows, the values
\* of the leading columns of its order (rank, ascending), what an update may
\* change, whether times descend (-1) or ascend (1), the id that ends the order
\* (-1 descending, 1 ascending, 0 none), and whether the total is counted
\* first.  Two times that follow each other in an order are one here.
Listing(states, shows, rank, updates, dir, id, countFirst) ==
    [states |-> states, shows |-> shows, rank |-> rank, updates |-> updates,
     dir |-> dir, id |-> id, countFirst |-> countFirst]

ImportList == Listing({"kept"}, {"kept"}, {0}, {}, -1, -1, TRUE)

\* The keyword looks at the name of the user, who may be renamed.
AuditConditions == {"matches"}
AuditList == Listing({"matches", "renamed"}, AuditConditions, {0}, {"state"}, -1, -1, TRUE)

\* The query may name a status; rank: the urgency, then the due date.
TodoConditions == {"PENDING"}
TodoList == Listing({"PENDING", "COMPLETED"}, TodoConditions, {0, 1}, {"state", "rank", "at"}, -1, 1, FALSE)

\* Current risks unless the query names a status; RESOLVED on the page of resolved risks.
RiskConditions == {"ACTIVE"}
RiskList == Listing({"ACTIVE", "RESOLVED"}, RiskConditions, {0}, {"state", "at"}, -1, 0, FALSE)

\* An event is filtered by what its risk is now, its level or its title.
TimelineConditions == {"HIGH"}
Timeline == Listing({"HIGH", "LOW"}, TimelineConditions, {0}, {"state"}, -1, 0, FALSE)

ConversationList == Listing({"mine", "deleted"}, {"mine"}, {0}, {"state", "at"}, -1, 0, FALSE)

\* rank: 1 (nulls last) when the mail does not say when it was sent.
MessageFilter == {"SYNCED"}
MessageList == Listing({"SYNCED", "FILTERED"}, MessageFilter, {0, 1}, {"state"}, -1, 0, TRUE)
SyncBatchList == Listing({"kept"}, {"kept"}, {0}, {}, -1, 0, TRUE)

\* rank: the status; the state is what else the query asks of a user, its role say.
UserList == Listing({"matches", "other"}, {"matches"}, {0, 1}, {"state", "rank"}, 1, 0, FALSE)

Listings ==
    [imports |-> ImportList, audit |-> AuditList, todos |-> TodoList, risks |-> RiskList,
     timeline |-> Timeline, conversations |-> ConversationList, messages |-> MessageList,
     batches |-> SyncBatchList, users |-> UserList]

L == Listings[listing]
RowsOf(l) == [state : l.states, rank : l.rank, at : Times]

Position(l, r, i) == <<r.rank, l.dir * r.at, l.id * i>>
Lower(a, b) == \E k \in 1..3 : a[k] < b[k] /\ \A j \in 1..(k - 1) : a[j] = b[j]
Shows(r) == r.state \in L.shows
Shown(t) == {i \in Items : Shows(t[i])}
Tied(t) == \E i, j \in Shown(t) : i # j /\ Position(L, t[i], i) = Position(L, t[j], j)
\* The orders the database may return the rows in: any among rows that tie.
Orders(t) ==
    {s \in SetToSeqs(Shown(t)) :
        \A a, b \in DOMAIN s : a < b => ~Lower(Position(L, t[s[b]], s[b]), Position(L, t[s[a]], s[a]))}
-----------------------------------------------------------------------------
(* The table.                                                               *)

\* The trigger of the audit chain moves a late or equal time behind the last one.
TimeAllowed(r) == listing = "audit" => \A i \in Items : table[i] # Absent => table[i].at < r.at

\* History: an untouched row can be passed over once for each row that left or
\* moved back (pulled) and for each that joined after the page's total was
\* counted (late), and read again once for each that joined or moved ahead (pushed).
Watched(i, before, after) ==
    LET left == Shows(before) /\ (~Shows(after) \/ Lower(Position(L, before, i), Position(L, after, i)))
        came == Shows(after) /\ (~Shows(before) \/ Lower(Position(L, after, i), Position(L, before, i)))
    IN  [walk EXCEPT !.touched = @ \union {i},
                       !.pulled = IF left THEN @ + 1 ELSE @,
                       !.pushed = IF came THEN @ + 1 ELSE @,
                       !.late = IF walk.step = "rows" /\ L.countFirst /\ came THEN @ + 1 ELSE @,
                       !.tied = @ \/ Tied([table EXCEPT ![i] = after])]

\* Every table is one a walk may begin with; what counts are changes during it.
Changing == walk.step \notin {"off", "done"} /\ changes < MaxListEdits

Insert(i) ==
    /\ table[i] = Absent /\ Changing
    /\ L.id = 0 => \A j \in Items : j < i => table[j] # Absent
    /\ \E r \in RowsOf(L) :
          /\ TimeAllowed(r)
          /\ table' = [table EXCEPT ![i] = r]
          /\ walk' = Watched(i, Absent, r)
    /\ changes' = changes + 1 /\ UNCHANGED listing

Update(i) ==
    /\ table[i] # Absent /\ Changing
    /\ \E r \in RowsOf(L) \ {table[i]} :
          /\ \A f \in {"state", "rank", "at"} \ L.updates : r[f] = table[i][f]
          /\ table' = [table EXCEPT ![i] = r]
          /\ walk' = Watched(i, table[i], r)
    /\ changes' = changes + 1 /\ UNCHANGED listing
-----------------------------------------------------------------------------
(* The reader.                                                              *)

NotWalking == [step |-> "off", page |-> 0, total |-> 0, got |-> [i \in Items |-> 0], start |-> {},
               touched |-> {}, pulled |-> 0, pushed |-> 0, late |-> 0, tied |-> FALSE]

Statements == IF L.countFirst THEN <<"count", "rows">> ELSE <<"rows", "count">>

Open ==
    /\ walk = NotWalking
    /\ walk' = [NotWalking EXCEPT !.step = Statements[1], !.page = 1, !.start = Shown(table), !.tied = Tied(table)]
    /\ UNCHANGED <<listing, table, changes>>

AfterThis == IF walk.step = Statements[1] THEN Statements[2] ELSE "read"

Count ==
    /\ walk.step = "count"
    /\ walk' = [walk EXCEPT !.total = Cardinality(Shown(table)), !.step = AfterThis]
    /\ UNCHANGED <<listing, table, changes>>

Offset_FromTheNextPage(page) == page * PageSize
Offset(page) == (page - 1) * PageSize
Page(s) == {s[k] : k \in (Offset(walk.page) + 1)..(Offset(walk.page) + PageSize) \cap DOMAIN s}

Rows ==
    /\ walk.step = "rows"
    /\ \E s \in Orders(table) :
          walk' = [walk EXCEPT !.got = [i \in Items |-> IF i \in Page(s) THEN @[i] + 1 ELSE @[i]],
                               !.step = AfterThis]
    /\ UNCHANGED <<listing, table, changes>>

\* The last page is the one the total says it is.
Turn ==
    /\ walk.step = "read"
    /\ walk' = IF walk.page * PageSize < walk.total
               THEN [walk EXCEPT !.page = @ + 1, !.step = Statements[1], !.late = 0]
               ELSE [walk EXCEPT !.step = "done"]
    /\ UNCHANGED <<listing, table, changes>>

\* Where no id is looked at rows are interchangeable: one table of each kind will do.
Kind(r) == IF r = Absent THEN <<2, 0, 0>> ELSE <<IF Shows(r) THEN 0 ELSE 1, r.rank, r.at>>
Representative(t) == L.id = 0 => \A i, j \in Items : i < j => ~Lower(Kind(t[j]), Kind(t[i]))

ListingsInit ==
    /\ listing \in DOMAIN Listings
    /\ table \in {t \in [Items -> RowsOf(L) \union {Absent}] : Representative(t)}
    /\ listing = "audit" => \A i, j \in Items : i # j /\ table[i] # Absent => table[i].at # table[j].at
    /\ walk = NotWalking /\ changes = 0

NoListing ==
    /\ listing = "imports" /\ table = [i \in Items |-> Absent]
    /\ walk = NotWalking /\ changes = 0

ListingsNext ==
    \/ \E i \in Items : Insert(i) \/ Update(i)
    \/ Open \/ Count \/ Rows \/ Turn
-----------------------------------------------------------------------------
ListingsTypeOK ==
    /\ listing \in DOMAIN Listings
    /\ table \in [Items -> RowsOf(L) \union {Absent}]
    /\ walk.step \in {"off", "count", "rows", "read", "done"}
    /\ walk.total \in 0..Cardinality(Items) /\ changes \in 0..MaxListEdits

\* The lists whose order ends with the row's id; the others are only settled
\* while no two of their rows share their times.
Settled == listing \in {"imports", "audit", "todos"} \/ ~walk.tied
\* Rows in the list from the first page to the last that nobody changed.
Stayed == walk.start \ walk.touched

\* A reader that turns the pages of a list to the last one misses no more of
\* the rows that stayed than rows left or moved behind it, or joined between
\* the two statements of the last page: joining rows alone hide none.
MissedArePulled ==
    walk.step = "done" /\ Settled =>
        Cardinality({i \in Stayed : walk.got[i] = 0}) <= walk.pulled + walk.late

\* And it sees no row that stayed twice unless rows joined or moved ahead:
\* while nobody changes anything every row is read exactly once.
RepeatedArePushed ==
    walk.step # "off" /\ Settled =>
        \A i \in Stayed : walk.got[i] <= 1 + walk.pushed
=============================================================================
