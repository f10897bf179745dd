---------------------------- MODULE Collections ----------------------------
(* The supplemental sheet of a workbook and the dashboard that counts it    *)
(* (imports/commit_service.py, dashboard/service.py), over the imports of   *)
(* ImportBatch.  A line of the sheet is imported and rolled back with its   *)
(* batch; an administrator matches it to a project by hand, and it then     *)
(* stands for the amounts the project list leaves open.                     *)
(*                                                                          *)
(* The sessions do not flush before a query (db.py:44), so a query does not *)
(* see what its own transaction has changed on an entity.  A page of the    *)
(* dashboard is several statements of one READ COMMITTED transaction, each  *)
(* of which sees what is committed when it starts.                          *)
EXTENDS ImportBatch, FiniteSetsExt

CONSTANTS
    Lines,         \* lines of supplemental sheets
    SheetOf,       \* the lines of a file
    LineAmounts,   \* a line's amounts: [due, paid, left]
    ListAmounts,   \* the amounts a project list gives a project, by file
    Instalments,   \* monthly amounts of a line or a project: a sequence of [month, amount]
    Attribute,     \* what the heading says of a month: "plan", "actual" or "none"
    Department,    \* of a project, "unassigned" when it has none
    Progress,      \* the projects whose collection progress is described
    OtherRisks,    \* the levels of a project's active risks besides the collection risk
    Readers,       \* [scope, manages]: the projects a reader may see, and whether it manages imports
    ThisMonth

VARIABLES
    line,      \* supplemental_collection_rows
    asked,     \* what the request that holds a line's lock wants, "free" when none does
    counted,   \* supplementalMatchedRows and supplementalUnmatchedRows of a batch
    page       \* the dashboard request under way, with what it has read

sheetVars == <<line, asked, counted, page>>

Unknown == -1
Known(x) == x # Unknown
NoAmounts == [due |-> Unknown, paid |-> Unknown, left |-> Unknown]
NoLine == [status |-> "none", match |-> "none", project |-> "none"]
Ids == Batches \X Lines
LineOf(id) == line[id[1]][id[2]]
SheetLines(b) == IF batch[b].file \in DOMAIN SheetOf THEN SheetOf[batch[b].file] ELSE {}
There(p) == project[p] # NoProject

\* The levels of the active risks of p.
Levels(p) == OtherRisks[p] \union (IF risk[p] = NoRisk THEN {} ELSE {"MEDIUM"})
\* What the project list says of p: nothing before its first import.
Listed(p) == IF project[p].by \in Batches THEN ListAmounts[batch[project[p].by].file] ELSE NoAmounts

NoPage == [kind |-> "none", step |-> 0, scope |-> {}, manages |-> FALSE, projects |-> {},
           amounts |-> <<>>, matched |-> {}, levels |-> <<>>, pending |-> {}, touched |-> {}]

SheetInit ==
    /\ line = [b \in Batches |-> [l \in Lines |-> NoLine]]
    /\ asked = [b \in Batches |-> [l \in Lines |-> "free"]]
    /\ counted = [b \in Batches |-> [matched |-> 0, unmatched |-> 0]]
    /\ page = NoPage

\* History: what changes while a page is read.
Watch ==
    page' = IF page.step = 0 THEN page
            ELSE [page EXCEPT !.touched = @ \union
                    IF page.kind = "collections" THEN {id \in Ids : line'[id[1]][id[2]] # LineOf(id)}
                    ELSE {p \in Projects : project'[p] # project[p] \/ risk'[p] # risk[p]}]
-----------------------------------------------------------------------------
(* The sheet through the life of its batch.                                 *)

\* A statement that writes the lines of b waits for the requests that hold one.
LinesFree(b) == \A l \in Lines : asked[b][l] = "free"

StoreSheet(b, n) ==
    /\ Store(b, n) /\ LinesFree(b)
    /\ line' = [line EXCEPT ![b] = [l \in Lines |->
                  IF l \in SheetLines(b) THEN [NoLine EXCEPT !.status = "READY", !.match = "UNMATCHED"]
                  ELSE NoLine]]
    /\ UNCHANGED <<asked, counted>>

\* The parser never fills matchedImportKey, so that confirming matches nothing.
ConfirmSheet(b) ==
    /\ Confirm(b, TRUE) /\ LinesFree(b)
    /\ line' = IF batch'[b].status # "IMPORTED" THEN line
               ELSE [line EXCEPT ![b] = [l \in Lines |->
                       IF @[l].status = "READY" THEN [@[l] EXCEPT !.status = "IMPORTED"] ELSE @[l]]]
    /\ UNCHANGED <<asked, counted>>

\* A line without its project: the foreign key sets it to null.
Bereaved(r) == IF r.project \in Projects /\ project'[r.project] = NoProject
               THEN [r EXCEPT !.project = "none"] ELSE r

RollbackSheet(b) ==
    /\ Rollback(b) /\ LinesFree(b)
    /\ line' = [c \in Batches |-> [l \in Lines |->
                  IF c = b /\ batch'[b].status = "ROLLED_BACK" /\ line[c][l].status = "IMPORTED"
                  THEN Bereaved([line[c][l] EXCEPT !.status = "ROLLED_BACK"])
                  ELSE Bereaved(line[c][l])]]
    /\ UNCHANGED <<asked, counted>>
-----------------------------------------------------------------------------
(* Matching by hand.  The request locks the line, then its batch.           *)

Ask(b, l, what) ==
    /\ line[b][l].status # "none" /\ asked[b][l] = "free"
    /\ asked' = [asked EXCEPT ![b][l] = what]
    /\ UNCHANGED <<line, counted>>

Matched(b, match) == Cardinality({l \in Lines : line[b][l].match = match})
\* The count is taken under the lock of the batch, before the line's own change is flushed.
RefreshCounts(b) ==
    counted' = [counted EXCEPT ![b] = [matched |-> Matched(b, "MATCHED"),
                                       unmatched |-> Matched(b, "UNMATCHED")]]

MatchSupplemental(b, l) ==
    /\ asked[b][l] \in Projects /\ ~batch[b].undoing
    /\ asked' = [asked EXCEPT ![b][l] = "free"]
    /\ IF line[b][l].status = "IMPORTED" /\ There(asked[b][l])
       THEN /\ line' = [line EXCEPT ![b][l].project = asked[b][l], ![b][l].match = "MATCHED"]
            /\ RefreshCounts(b)
       ELSE UNCHANGED <<line, counted>>

UnmatchSupplemental(b, l) ==
    /\ asked[b][l] = "unmatch" /\ ~batch[b].undoing
    /\ asked' = [asked EXCEPT ![b][l] = "free"]
    /\ IF line[b][l].status = "IMPORTED" /\ line[b][l].project \in Projects
       THEN /\ line' = [line EXCEPT ![b][l].project = "none", ![b][l].match = "UNMATCHED"]
            /\ RefreshCounts(b)
       ELSE UNCHANGED <<line, counted>>

\* A roll back holds the batch and waits for the line, a request the other way round:
\* the database refuses one of them.
Deadlock(b, l) ==
    /\ batch[b].undoing /\ asked[b][l] # "free"
    /\ \/ asked' = [asked EXCEPT ![b][l] = "free"] /\ UNCHANGED batch
       \/ batch' = [batch EXCEPT ![b].undoing = FALSE] /\ UNCHANGED asked
    /\ UNCHANGED <<rows, task, attempt, stored, order, confirming, project, risk, disturbed, line, counted>>
-----------------------------------------------------------------------------
(* Amounts.                                                                 *)

AtLeastZero(x) == IF x < 0 THEN 0 ELSE x

\* One amount follows from two.
Triple(t) ==
    LET due  == IF ~Known(t.due) /\ Known(t.paid) /\ Known(t.left) THEN t.paid + t.left ELSE t.due
        paid == IF ~Known(t.paid) /\ Known(due) /\ Known(t.left) THEN AtLeastZero(due - t.left) ELSE t.paid
        left == IF ~Known(t.left) /\ Known(due) /\ Known(paid) THEN AtLeastZero(due - paid) ELSE t.left
    IN  [due |-> due, paid |-> paid, left |-> left]
Complete(t) == Known(t.due) /\ Known(t.paid) /\ Known(t.left)

\* The lines of a page that are matched to p.
LinesFor(pg, p) == {m.line : m \in {m \in pg.matched : m.project = p}}

Resolve(pg, p) ==
    LET own == Triple(pg.amounts[p])
        mine == LinesFor(pg, p)
        Sum(field) == MapThenSumSet(LAMBDA id : Triple(LineAmounts[id[2]])[field], mine)
    IN  IF Complete(own) THEN [source |-> "PROJECT_LIST", is |-> own]
        ELSE IF mine # {} /\ \A id \in mine : Complete(Triple(LineAmounts[id[2]]))
        THEN [source |-> "SUPPLEMENTAL", is |-> [due |-> Sum("due"), paid |-> Sum("paid"), left |-> Sum("left")]]
        ELSE [source |-> IF pg.amounts[p] # NoAmounts THEN "PROJECT_LIST"
                         ELSE IF mine # {} THEN "SUPPLEMENTAL" ELSE "MISSING",
              is |-> own]

Totals(pg, S) ==
    LET is == [p \in S |-> Resolve(pg, p).is]
        complete == {p \in S : Complete(is[p])}
        Total(field) == IF complete = {} THEN Unknown
                        ELSE MapThenSumSet(LAMBDA p : is[p][field], complete)
    IN  [projects |-> Cardinality(S), complete |-> Cardinality(complete),
         due |-> Total("due"), paid |-> Total("paid"), left |-> Total("left")]

DepartmentsOf(pg) == {Department[p] : p \in pg.projects}
DepartmentItem(pg, d) == Totals(pg, {p \in pg.projects : Department[p] = d})

\* Projects with a risk, those of one level when the reader asks for it.
RiskProjects(pg, level) ==
    {p \in pg.projects : pg.levels[p] # {} /\ (level = "any" \/ level \in pg.levels[p])}
RiskOrder == [HIGH |-> 0, MEDIUM |-> 1, LOW |-> 2, UNKNOWN |-> 3]
\* The level shown is the one that comes last in the order: the mildest.
ShownLevel(levels) == CHOOSE l \in levels : \A k \in levels : RiskOrder[k] <= RiskOrder[l]

\* The instalments of a project by month: of its lines when they are the source.
Monthly(pg, p) ==
    LET records == IF Resolve(pg, p).source = "SUPPLEMENTAL" THEN {id[2] : id \in LinesFor(pg, p)} ELSE {p}
        entries == UNION {{<<r, i>> : i \in DOMAIN Instalments[r]} : r \in records}
        At(e) == Instalments[e[1]][e[2]]
    IN  [month \in {At(e).month : e \in entries} \intersect 1 .. 12 |->
           MapThenSumSet(LAMBDA e : AtLeastZero(At(e).amount), {e \in entries : At(e).month = month})]

NextCollection(pg, p) ==
    LET months == Monthly(pg, p)
        planned == {m \in DOMAIN months : months[m] > 0 /\ Attribute[m] # "actual"}
        ahead == {m \in planned : m >= ThisMonth}
    IN  IF planned # {}
        THEN [source |-> "MONTHLY_PLAN", month |-> Min(IF ahead # {} THEN ahead ELSE planned)]
        ELSE [source |-> IF p \in Progress THEN "PROGRESS_TEXT" ELSE "MISSING", month |-> 0]
-----------------------------------------------------------------------------
(* The pages.  Department and risk collections read projects, matched       *)
(* lines, risks and pending lines in that order; the summary counts the     *)
(* risks, then adds the amounts of the projects that have one.              *)

Open(kind, scope, manages) ==
    /\ page = NoPage
    /\ page' = [NoPage EXCEPT !.kind = kind, !.step = 1, !.scope = scope, !.manages = manages,
                  !.projects = {p \in scope : There(p)},
                  !.amounts = IF kind = "collections" THEN [p \in Projects |-> Listed(p)] ELSE <<>>,
                  !.levels = IF kind = "summary" THEN [p \in Projects |-> Levels(p)] ELSE <<>>]
    /\ UNCHANGED <<line, asked, counted>>

ReadMatched(pg) ==
    [pg EXCEPT !.matched = {[line |-> id, project |-> LineOf(id).project] :
                              id \in {id \in Ids : /\ LineOf(id).project \in pg.projects
                                                   /\ LineOf(id).status = "IMPORTED"
                                                   /\ LineOf(id).match = "MATCHED"
                                                   /\ batch[id[1]].status = "IMPORTED"}}]
ReadRisks(pg) == [pg EXCEPT !.levels = [p \in Projects |-> Levels(p)]]
ReadPending_All(pg) ==
    [pg EXCEPT !.pending = {id \in Ids : pg.manages /\ LineOf(id).status = "IMPORTED"
                                         /\ batch[id[1]].status = "IMPORTED"}]
ReadPending(pg) ==
    [pg EXCEPT !.pending = {id \in Ids : pg.manages /\ LineOf(id).status = "IMPORTED"
                                         /\ LineOf(id).match = "UNMATCHED"
                                         /\ batch[id[1]].status = "IMPORTED"}]

WithRisk(p) == There(p) /\ Levels(p) # {}
\* The second statement of the summary: the projects that still have a risk, and their amounts.
ReadAmounts(pg) ==
    [pg EXCEPT !.matched = {p \in pg.scope : WithRisk(p)}, !.amounts = [p \in Projects |-> Listed(p)]]

ReadOn ==
    /\ \/ page.kind = "collections" /\ page.step = 1 /\ page' = [ReadMatched(page) EXCEPT !.step = 2]
       \/ page.kind = "collections" /\ page.step = 2 /\ page' = [ReadRisks(page) EXCEPT !.step = 3]
       \/ page.kind = "collections" /\ page.step = 3 /\ page' = [ReadPending(page) EXCEPT !.step = 4]
       \/ page.kind = "summary" /\ page.step = 1 /\ page' = [ReadAmounts(page) EXCEPT !.step = 4]
    /\ UNCHANGED <<line, asked, counted>>

Answer ==
    /\ page.step = 4 /\ page' = NoPage
    /\ UNCHANGED <<line, asked, counted>>

BothKnown(t) == Known(t.paid) /\ Known(t.left)
\* What the summary shows: the risk projects, those with both amounts, and the rest.
Summary(pg) ==
    LET risky == {p \in pg.projects : pg.levels[p] # {}}
        complete == {p \in pg.matched : BothKnown(pg.amounts[p])}
    IN  [complete |-> complete, missing |-> Cardinality(risky) - Cardinality(complete),
         paid |-> MapThenSumSet(LAMBDA p : pg.amounts[p].paid, complete),
         left |-> MapThenSumSet(LAMBDA p : pg.amounts[p].left, complete)]
-----------------------------------------------------------------------------
SheetStep ==
    /\ \/ \E b \in Batches :
            \/ \E n \in Tries : StoreSheet(b, n)
            \/ ConfirmSheet(b) \/ RollbackSheet(b)
       \/ /\ \/ \E f \in Files : Upload(f, TRUE)
             \/ \E b \in Batches : Claim(b) \/ ConfirmRead(b) \/ RollbackCheck(b)
          /\ UNCHANGED <<line, asked, counted>>
       \/ \E b \in Batches, l \in Lines : Deadlock(b, l)
       \/ /\ \E b \in Batches, l \in Lines :
                \/ \E what \in Projects \union {"unmatch"} : Ask(b, l, what)
                \/ MatchSupplemental(b, l) \/ UnmatchSupplemental(b, l)
          /\ UNCHANGED vars
    /\ Watch

PageStep ==
    /\ \/ \E kind \in {"collections", "summary"}, r \in Readers : Open(kind, r.scope, r.manages)
       \/ ReadOn \/ Answer
    /\ UNCHANGED vars

SheetNext == SheetStep \/ PageStep
-----------------------------------------------------------------------------
\* Every variable holds what its table or its request can hold.
SheetTypeOK ==
    /\ TypeOK
    /\ \A id \in Ids : /\ LineOf(id).status \in {"none", "READY", "IMPORTED", "ROLLED_BACK"}
                       /\ LineOf(id).match \in {"none", "UNMATCHED", "MATCHED"}
                       /\ LineOf(id).project \in Projects \union {"none"}
                       /\ asked[id[1]][id[2]] \in Projects \union {"free", "unmatch"}
    /\ page.step \in 0 .. 4 /\ page.touched \subseteq Ids \union Projects

\* However matches and unmatches of one batch overlap, the counts its page shows are
\* those from before the last of them, and never further behind.
CountsLagOneChange ==
    \A b \in Batches : counted[b].matched + counted[b].unmatched > 0 =>
       /\ counted[b].matched - Matched(b, "MATCHED") \in -1 .. 1
       /\ counted[b].matched + counted[b].unmatched = Cardinality(SheetLines(b))

\* A line counts as pending, or for the project it is matched to.
Seen(r, there(_)) == r.status = "IMPORTED" /\ (r.match = "UNMATCHED" \/ (r.project \in Projects /\ there(r.project)))

\* An imported line leaves both sums only with its batch, or when a roll back of
\* another import deletes the project it was matched to.
OnlyADeletedProjectHidesALine ==
    [][\A id \in Ids :
         LET new == line'[id[1]][id[2]] IN
         /\ Seen(LineOf(id), There) /\ new.status = "IMPORTED"
         /\ ~(new.match = "UNMATCHED" \/ new.project \in Projects)
         => LineOf(id).project \in Projects /\ project'[LineOf(id).project] = NoProject]_<<vars, sheetVars>>

\* Whatever is matched, imported or rolled back while the page is read, a line that
\* itself did not change is in the page once: in the amounts or in the pending lines.
LinesCountedOnce ==
    page.kind = "collections" /\ page.step = 4 /\ page.manages /\ page.scope = Projects =>
       \A id \in Ids \ page.touched :
          (IF id \in page.pending THEN 1 ELSE 0) + Cardinality({m \in page.matched : m.line = id})
             = IF Seen(LineOf(id), There) THEN 1 ELSE 0

\* The departments of a page add up to its totals, projects without a department
\* and without amounts included; and each department's own page says the same.
DepartmentsAddUp ==
    page.kind = "collections" /\ page.step = 4 =>
       LET all == Totals(page, page.projects)
           item == [d \in DepartmentsOf(page) |-> DepartmentItem(page, d)]
           Over(field) == MapThenSumSet(LAMBDA d : AtLeastZero(item[d][field]), DepartmentsOf(page))
       IN  \A field \in {"projects", "complete", "due", "paid", "left"} : AtLeastZero(all[field]) = Over(field)

\* What a page shows as a risk project's next instalment is planned and not past,
\* unless the whole of its plan is.
NextIsAhead ==
    page.kind = "collections" /\ page.step = 4 =>
       \A p \in RiskProjects(page, "any") :
          LET next == NextCollection(page, p)
              months == Monthly(page, p)
              plan == {m \in DOMAIN months : Attribute[m] # "actual" /\ months[m] > 0}
          IN  /\ ShownLevel(page.levels[p]) \in page.levels[p]
              /\ IF plan = {} THEN next.source # "MONTHLY_PLAN"
                 ELSE /\ next.month \in plan
                      /\ next.month < ThisMonth => \A m \in plan : next.month <= m /\ m < ThisMonth

\* Over projects and risks that do not change meanwhile, the summary's missing
\* projects are those without both amounts, and its sums are those that the risk
\* collections show for the same projects.
SummaryAddsUp ==
    page.kind = "summary" /\ page.step = 4 /\ page.touched \intersect Projects = {} =>
       LET shown == Summary(page)
           risky == {p \in page.projects : page.levels[p] # {}}
       IN  /\ shown.missing = Cardinality(risky \ shown.complete)
           /\ \A p \in shown.complete : Complete(Triple(page.amounts[p]))
           /\ shown.left = MapThenSumSet(LAMBDA p : Triple(page.amounts[p]).left, shown.complete)
           /\ shown.paid = MapThenSumSet(LAMBDA p : Triple(page.amounts[p]).paid, shown.complete)

\* The pages over the imported amounts add up, with the tables they are read from.
PagesAddUp ==
    /\ [](SheetTypeOK /\ CountsLagOneChange /\ LinesCountedOnce /\ DepartmentsAddUp /\ NextIsAhead /\ SummaryAddsUp)
    /\ OnlyADeletedProjectHidesALine
=============================================================================
