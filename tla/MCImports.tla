----------------------------- MODULE MCImports -----------------------------
(* The imports in two views of one database: "batches" are two workbooks     *)
(* without a supplemental sheet, with lost leases, late attempts and failing *)
(* files; "sheet" is a workbook with a sheet of two lines beside one that    *)
(* creates a project, with the matching by hand and the dashboard.           *)
(* Both flag the first project; the second workbook of the first view warns  *)
(* and names the second project twice.                                       *)
EXTENDS Collections, TLC

CONSTANTS fA, fB, fS, fN, p1, p2, l1, l2

VARIABLE focus

Row(p, r, g) == [project |-> p, risky |-> r, grade |-> g]
MCRowsOf == (fA :> <<Row(p1, TRUE, "READY")>>) @@
            (fB :> <<Row(p1, TRUE, "WARNING"), Row(p2, TRUE, "READY"), Row(p2, TRUE, "READY")>>) @@
            (fS :> <<Row(p1, TRUE, "READY")>>) @@ (fN :> <<Row(p2, FALSE, "READY")>>)
MCSheetOf == fS :> {l1, l2}
Money(d, p, l) == [due |-> d, paid |-> p, left |-> l]
MCLineAmounts == (l1 :> Money(9, 4, Unknown)) @@ (l2 :> Money(Unknown, 2, 1))
MCListAmounts == (fA :> NoAmounts) @@ (fB :> NoAmounts) @@ (fS :> Money(Unknown, 3, 5)) @@ (fN :> Money(Unknown, 7, Unknown))
Entry(m, a) == [month |-> m, amount |-> a]
MCInstalments == (l1 :> <<Entry(5, 2), Entry(8, 1)>>) @@ (l2 :> <<Entry(8, 2), Entry(3, Unknown)>>) @@
                 (p1 :> <<Entry(2, 4), Entry(7, 1), Entry(9, 3)>>) @@ (p2 :> <<>>)
MCAttribute == [m \in 1 .. 12 |-> IF m = 7 THEN "actual" ELSE IF m < 6 THEN "none" ELSE "plan"]
MCDepartment == (p1 :> "sales") @@ (p2 :> "unassigned")
MCOtherRisks == (p1 :> {}) @@ (p2 :> {"HIGH", "LOW"})
MCReaders == {[scope |-> {p1, p2}, manages |-> TRUE], [scope |-> {p2}, manages |-> FALSE]}

Sheets == {fS, fN}
allVars == <<vars, sheetVars, focus>>

MCInit ==
    /\ Init /\ SheetInit
    /\ focus \in {"batches", "sheet", "pages"}
    /\ focus # "batches" => project = (p1 :> [by |-> 0, version |-> 1]) @@ (p2 :> NoProject)

\* Bounds of both views of the sheet: one confirmation at a time, requests once the
\* batch was imported.
Bounded ==
    /\ \A b, c \in Batches : confirming'[b] > 0 /\ confirming'[c] > 0 => b = c
    /\ \A b \in Batches : /\ confirming'[b] <= 1
                          /\ asked'[b] # asked[b] => batch[b].status \in {"IMPORTED", "ROLLED_BACK"}

\* Bounds of the view with pages: one request at a time; and while a page is read,
\* nothing that neither the page nor a line depends on, and one transaction's
\* lines or projects; one upload after the other.
Calm ==
    /\ \A i, j \in Ids : asked'[i[1]][i[2]] # "free" /\ asked'[j[1]][j[2]] # "free" => i = j
    /\ page = NoPage /\ page' # NoPage => \E b \in Batches : batch[b].status = "IMPORTED"
    /\ page.touched # {} => page'.touched \in {page.touched, {}}
    /\ page # NoPage => task' = task /\ \A b \in Batches : confirming'[b] <= confirming[b]
    /\ Cardinality(Existing') > Cardinality(Existing) => \A b \in Existing : batch[b].status = "IMPORTED"

MCNext ==
    /\ \/ focus = "batches" /\ Next /\ UNCHANGED sheetVars
       \/ focus = "sheet" /\ SheetStep /\ Bounded
       \/ focus = "pages" /\ SheetNext /\ Bounded /\ Calm
    /\ UNCHANGED focus
    /\ \A b \in Batches : batch'[b].status # "none" => ((batch'[b].file \in Sheets) <=> (focus # "batches"))

MCSpec == MCInit /\ [][MCNext]_allVars
=============================================================================
