---------------------------- MODULE BackupProofs ----------------------------
(***************************************************************************)
(* Imports, retention and backups, which are three layers of one state.     *)
(*                                                                         *)
(* A workbook is imported once at a time, for any number of workbooks,      *)
(* projects, uploads, attempts and confirmations, and every row keeps the   *)
(* type of its table through imports and roll backs.  These go through the  *)
(* rows of a batch with recursive functions, whose values are typed by the  *)
(* well-foundedness of Nat: a function by recursion exists                  *)
(* (RecursionExists), and a least index whose value were ill-typed does not *)
(* (ImportedTyped, RestoredTyped).                                          *)
(*                                                                         *)
(* The disk holds what the rows promise and a protected source is kept, for *)
(* any number of holds and deaths of the cleanup.  A backup changes nothing *)
(* of the retention (BackupKeepsRetention), so that these are facts of      *)
(* Retention.  For PreviewHasSource a task that has ended must stay so, and *)
(* the cleanup must have found it ended: KeepInv follows the cleanup        *)
(* through its three commits.                                               *)
(*                                                                         *)
(* What backup and restore report is true, for any number of backups and    *)
(* faults.  It rests on what a capture of stopped services is (CaptureInv), *)
(* carried from the job to the artifact and to the restore that has read it *)
(* (RestoreInv).                                                            *)
(***************************************************************************)
EXTENDS Backup, SequenceTheorems, FiniteSetTheorems, WellFoundedInduction, TLAPS

-----------------------------------------------------------------------------
(* The imports.                                                             *)

USE RowsAssumption, BoundsAssumption

Grade == {"READY", "WARNING", "ERROR"}
RowStatus == Grade \union {"IMPORTED", "ROLLED_BACK"}
BatchStatus == {"none", "PROCESSING", "PREVIEWED", "FAILED", "IMPORTED", "ROLLED_BACK"}
Value == [by : Int, version : Nat]
Row == [project : Projects, risky : BOOLEAN, status : RowStatus, before : Value, riskBefore : Nat]
Sheet == Seq([project : Projects, risky : BOOLEAN, grade : Grade])

\* What the rows are worked on with: the projects, their risks, and n rows.
Work(n) == [project : [Projects -> Value], risk : [Projects -> Nat],
            rows : {q \in Seq(Row) : Len(q) = n}]

TypesInv ==
    /\ batch \in [Batches -> [file : Files \union {"none"}, undoing : BOOLEAN, status : BatchStatus]]
    /\ rows \in [Batches -> Seq(Row)]
    /\ task \in [Batches -> [status : {"none", "RETRY", "RUNNING", "SUCCEEDED", "FAILED"},
                             tries : 0 .. MaxTries]]
    /\ attempt \in [Batches -> [Tries -> {"none", "handling", "done", "dead"}]]
    /\ stored \in SUBSET Batches
    /\ order \in SUBSET (Batches \X Batches)
    /\ confirming \in [Batches -> 0 .. MaxConfirms]
    /\ project \in [Projects -> Value]
    /\ risk \in [Projects -> Nat]
    /\ disturbed \in SUBSET Projects

\* The batches are created one after the other, and only one that was created has
\* a task, attempts, a file, confirmations or a roll back; a task that may be
\* claimed has an attempt left.
ExistingInv ==
    /\ \E n \in 0 .. MaxBatch : Existing = 1 .. n
    /\ stored \subseteq Existing
    /\ \A b \in Existing : batch[b].file \in Files
    /\ \A b \in Batches \ Existing :
         /\ task[b] = [status |-> "none", tries |-> 0]
         /\ confirming[b] = 0 /\ ~batch[b].undoing
         /\ \A n \in Tries : attempt[b][n] = "none"
    /\ \A b \in Batches : task[b].status = "RETRY" => task[b].tries < MaxTries

OrderInv == \A b, c \in Batches : {<<b, c>>, <<c, b>>} \subseteq order => b = c

\* The invariant behind OneImportPerFile.
ImportedInv ==
    \A b, c \in Existing :
       batch[b].status = "IMPORTED" /\ batch[c].status = "IMPORTED"
          /\ batch[b].file = batch[c].file => b = c

ImportInv == TypesInv /\ ExistingInv /\ OrderInv /\ ImportedInv
-----------------------------------------------------------------------------
(* Recursion over the rows.                                                *)

NatLess == {pair \in Nat \X Nat : pair[1] < pair[2]}

\* A set of numbers that holds 0 and with i the next one holds every number up to n.
LEMMA UpTo ==
  ASSUME NEW n \in Nat, NEW S,
         0 \in S, \A i \in 0 .. n - 1 : i \in S => i + 1 \in S
  PROVE  0 .. n \subseteq S
<1> DEFINE T == {i \in 0 .. n : i \notin S}
<1>1. SUFFICES ASSUME T # {} PROVE FALSE
  OBVIOUS
<1>2. IsWellFoundedOn(NatLess, Nat)
  BY NatLessThanWellFounded, Zenon DEF NatLess, OpToRel
<1>3. T \subseteq Nat
  OBVIOUS
<1>4. PICK x \in T : \A y \in T : ~ (<<y, x>> \in NatLess)
  BY <1>1, <1>2, <1>3, WFMin
<1>5. x \in 0 .. n /\ x \notin S /\ x # 0
  OBVIOUS
<1>6. x - 1 \in 0 .. n - 1 /\ (x - 1) + 1 = x
  BY <1>5
<1>7. x - 1 \notin S
  BY <1>5, <1>6
<1>8. x - 1 \in T
  BY <1>6, <1>7
<1>9. <<x - 1, x>> \in Nat \X Nat /\ <<x - 1, x>>[1] = x - 1 /\ <<x - 1, x>>[2] = x
  BY <1>5, <1>6
<1>10. <<x - 1, x>> \in NatLess
  BY <1>5, <1>9 DEF NatLess
<1>11. QED
  BY <1>4, <1>8, <1>10

\* step[<<v, i>>] is the value that follows v at i.
Steps(n, V) == [V \X (1 .. n) -> V]
Follows(g, n, V, first, step) ==
    /\ g \in [0 .. n -> V]
    /\ g[0] = first
    /\ \A i \in 1 .. n : g[i] = step[<<g[i - 1], i>>]

\* Recursion defines a function.
LEMMA RecursionExists ==
  ASSUME NEW n \in Nat, NEW V, NEW first \in V, NEW step \in Steps(n, V)
  PROVE  \E g : Follows(g, n, V, first, step)
<1> DEFINE Good(m, g) == /\ g[0] = first
                         /\ \A i \in 1 .. m : g[i] = step[<<g[i - 1], i>>]
           S == {m \in 0 .. n : \E g \in [0 .. n -> V] : Good(m, g)}
<1>1. 0 \in S
  <2>1. [i \in 0 .. n |-> first] \in [0 .. n -> V]
    OBVIOUS
  <2>2. Good(0, [i \in 0 .. n |-> first])
    OBVIOUS
  <2>3. 0 \in 0 .. n
    OBVIOUS
  <2>4. QED
    BY <2>1, <2>2, <2>3, Zenon
<1>2. ASSUME NEW m \in 0 .. n - 1, m \in S PROVE m + 1 \in S
  <2>1. PICK g \in [0 .. n -> V] : Good(m, g)
    BY <1>2
  <2> DEFINE h == [g EXCEPT ![m + 1] = step[<<g[m], m + 1>>]]
  <2>2. m \in 0 .. n /\ m + 1 \in 1 .. n /\ m + 1 \in 0 .. n
    OBVIOUS
  <2>3. step[<<g[m], m + 1>>] \in V
    BY <2>2 DEF Steps
  <2>4. h \in [0 .. n -> V]
    BY <2>3
  <2>5. \A i \in 0 .. m : h[i] = g[i]
    OBVIOUS
  <2>6. h[m + 1] = step[<<g[m], m + 1>>] /\ h[m] = g[m] /\ h[0] = g[0]
    BY <2>2
  <2>7. ASSUME NEW i \in 1 .. m + 1 PROVE h[i] = step[<<h[i - 1], i>>]
    <3>1. CASE i = m + 1
      <4>1. i - 1 = m
        BY <3>1
      <4>2. h[i] = step[<<g[m], m + 1>>] /\ h[i - 1] = g[m]
        BY <3>1, <4>1, <2>6, Zenon
      <4> QED BY <3>1, <4>1, <4>2, Zenon
    <3>2. CASE i # m + 1
      <4>1. i \in 1 .. m /\ i \in 0 .. m /\ i - 1 \in 0 .. m
        BY <3>2
      <4> QED BY <4>1, <2>1, <2>5
    <3>3. QED
      BY <3>1, <3>2
  <2>8. Good(m + 1, h)
    BY <2>1, <2>6, <2>7
  <2>9. QED
    BY <2>2, <2>4, <2>8
<1>3. 0 .. n \subseteq S
  <2> HIDE DEF S
  <2> QED BY <1>1, <1>2, UpTo
<1>4. n \in S
  <2> HIDE DEF S
  <2>1. n \in 0 .. n
    OBVIOUS
  <2> QED BY <1>3, <2>1
<1>5. PICK g \in [0 .. n -> V] : Good(n, g)
  <2> HIDE DEF Good
  <2> QED BY <1>4, Zenon
<1>6. Follows(g, n, V, first, step)
  BY <1>5 DEF Follows
<1>7. QED
  BY <1>6

\* What every step keeps, the last value has.
LEMMA RecursionKeeps ==
  ASSUME NEW n \in Nat, NEW V, NEW g,
         g[0] \in V, \A i \in 1 .. n : g[i - 1] \in V => g[i] \in V
  PROVE  g[n] \in V
<1> DEFINE S == {i \in 0 .. n : g[i] \in V}
<1>1. 0 \in S
  OBVIOUS
<1>2. ASSUME NEW i \in 0 .. n - 1, i \in S PROVE i + 1 \in S
  <2>1. i + 1 \in 1 .. n /\ i + 1 \in 0 .. n /\ (i + 1) - 1 = i
    OBVIOUS
  <2>2. g[i + 1] \in V
    BY <1>2, <2>1
  <2>3. QED
    BY <2>1, <2>2
<1>3. 0 .. n \subseteq S
  <2> HIDE DEF S
  <2> QED BY <1>1, <1>2, UpTo
<1>4. n \in 0 .. n
  OBVIOUS
<1>5. QED
  BY <1>3, <1>4

-----------------------------------------------------------------------------
(* The rows of a batch.                                                    *)

LEMMA WorkParts ==
  ASSUME NEW n \in Nat, NEW s \in Work(n)
  PROVE  /\ s.project \in [Projects -> Value] /\ s.risk \in [Projects -> Nat]
         /\ s.rows \in Seq(Row) /\ Len(s.rows) = n
         /\ \A i \in 1 .. n : s.rows[i] \in Row
<1>1. /\ s.project \in [Projects -> Value] /\ s.risk \in [Projects -> Nat]
      /\ s.rows \in {q \in Seq(Row) : Len(q) = n}
  BY DEF Work
<1>2. s.rows \in Seq(Row) /\ Len(s.rows) = n
  BY <1>1
<1>3. \A i \in 1 .. n : s.rows[i] \in Row
  BY <1>2, ElementOfSeq
<1>4. QED
  BY <1>1, <1>2, <1>3

LEMMA WorkFrom ==
  ASSUME NEW n \in Nat, NEW s \in Work(n), NEW i \in 1 .. n, NEW r \in Row,
         NEW P \in [Projects -> Value], NEW R \in [Projects -> Nat]
  PROVE  [project |-> P, risk |-> R, rows |-> [s.rows EXCEPT ![i] = r]] \in Work(n)
<1>1. s.rows \in Seq(Row) /\ Len(s.rows) = n
  BY WorkParts
<1>2. [s.rows EXCEPT ![i] = r] \in Seq(Row) /\ Len([s.rows EXCEPT ![i] = r]) = n
  BY <1>1, ExceptSeq
<1>3. [s.rows EXCEPT ![i] = r] \in {q \in Seq(Row) : Len(q) = n}
  BY <1>2
<1>4. QED
  BY <1>3 DEF Work

\* Importing a row keeps the types and the number of the rows.
LEMMA ImportRowTyped ==
  ASSUME NEW n \in Nat, NEW s \in Work(n), NEW b \in Batches, NEW i \in 1 .. n
  PROVE  ImportRow(s, b, i) \in Work(n)
<1> DEFINE r == s.rows[i]
           p == r.project
           old == s.project[p]
           imported == [[[r EXCEPT !.status = "IMPORTED"] EXCEPT !.before = old]
                            EXCEPT !.riskBefore = s.risk[p]]
           P == [s.project EXCEPT ![p] = [by |-> b, version |-> old.version + 1]]
           R == IF r.risky /\ s.risk[p] = NoRisk THEN [s.risk EXCEPT ![p] = b] ELSE s.risk
<1>1. /\ s.project \in [Projects -> Value] /\ s.risk \in [Projects -> Nat]
      /\ s.rows \in Seq(Row) /\ Len(s.rows) = n /\ r \in Row
  BY WorkParts
<1>2. p \in Projects /\ old \in Value /\ s.risk[p] \in Nat
  BY <1>1 DEF Row
<1>3. imported \in Row
  BY <1>1, <1>2 DEF Row, RowStatus
<1>4. P \in [Projects -> Value]
  <2>1. [by |-> b, version |-> old.version + 1] \in Value
    BY <1>2 DEF Value, Batches
  <2>2. QED
    BY <1>1, <2>1
<1>5. R \in [Projects -> Nat]
  <2>1. b \in Nat
    BY DEF Batches
  <2>2. [s.risk EXCEPT ![p] = b] \in [Projects -> Nat]
    BY <1>1, <2>1
  <2>3. QED
    BY <1>1, <2>2, Zenon
<1>6. [s.rows EXCEPT ![i].status = "IMPORTED", ![i].before = old, ![i].riskBefore = s.risk[p]]
         = [s.rows EXCEPT ![i] = imported]
  <2>1. i \in DOMAIN s.rows
    BY <1>1, LenProperties
  <2>2. QED
    BY <2>1
<1>7. [project |-> P, risk |-> R, rows |-> [s.rows EXCEPT ![i] = imported]] \in Work(n)
  <2> HIDE DEF P, R, imported
  <2> QED BY <1>3, <1>4, <1>5, WorkFrom
<1>8. QED
  BY <1>6, <1>7 DEF ImportRow

\* So does putting one back, when its snapshot has the type of a project.
LEMMA RestoreRowTyped ==
  ASSUME NEW n \in Nat, NEW s \in Work(n), NEW i \in 1 .. n
  PROVE  RestoreRow(s, i) \in Work(n)
<1> DEFINE r == s.rows[i]
           p == r.project
           back == [r EXCEPT !.status = "ROLLED_BACK"]
           P == IF s.project[p] = NoProject THEN s.project
                ELSE [s.project EXCEPT ![p] = r.before]
           R == IF s.project[p] # NoProject /\ r.before = NoProject
                THEN [s.risk EXCEPT ![p] = NoRisk]
                ELSE IF r.risky /\ s.risk[p] # NoRisk
                THEN [s.risk EXCEPT ![p] = r.riskBefore] ELSE s.risk
<1>1. /\ s.project \in [Projects -> Value] /\ s.risk \in [Projects -> Nat]
      /\ s.rows \in Seq(Row) /\ Len(s.rows) = n /\ r \in Row
  BY WorkParts
<1>2. p \in Projects /\ r.before \in Value /\ r.riskBefore \in Nat
  BY <1>1 DEF Row
<1>3. back \in Row
  BY <1>1 DEF Row, RowStatus
<1>4. P \in [Projects -> Value] /\ R \in [Projects -> Nat]
  BY <1>1, <1>2 DEF NoRisk
<1>5. [s.rows EXCEPT ![i].status = "ROLLED_BACK"] = [s.rows EXCEPT ![i] = back]
  <2>1. i \in DOMAIN s.rows
    BY <1>1, LenProperties
  <2>2. QED
    BY <2>1
<1>6. [project |-> P, risk |-> R, rows |-> [s.rows EXCEPT ![i] = back]] \in Work(n)
  <2> HIDE DEF P, R, back
  <2> QED BY <1>3, <1>4, WorkFrom
<1>7. QED
  BY <1>5, <1>6 DEF RestoreRow

\* An import goes through all rows of the batch and keeps the types.
LEMMA ImportedTyped ==
  ASSUME TypesInv, NEW b \in Batches
  PROVE  Imported(b) \in Work(Len(rows[b]))
<1> DEFINE n == Len(rows[b])
           first == [project |-> project, risk |-> risk, rows |-> rows[b]]
           Equation(g) == g = [i \in 0 .. n |-> IF i = 0 THEN first ELSE ImportRow(g[i - 1], b, i)]
           after == CHOOSE g : Equation(g)
           step == [x \in Work(n) \X (1 .. n) |-> ImportRow(x[1], b, x[2])]
<1>1. n \in Nat /\ first \in Work(n)
  <2>1. /\ rows[b] \in Seq(Row) /\ project \in [Projects -> Value]
        /\ risk \in [Projects -> Nat]
    BY DEF TypesInv
  <2>2. n \in Nat
    BY <2>1, LenProperties
  <2>3. QED
    BY <2>1, <2>2 DEF Work
<1>2. step \in Steps(n, Work(n))
  <2>1. ASSUME NEW x \in Work(n) \X (1 .. n) PROVE ImportRow(x[1], b, x[2]) \in Work(n)
    <3>1. x[1] \in Work(n) /\ x[2] \in 1 .. n
      OBVIOUS
    <3>2. QED
      BY <1>1, <3>1, ImportRowTyped
  <2>2. QED
    BY <2>1 DEF Steps
<1>3. \E g : Equation(g)
  <2> HIDE DEF step, first, n
  <2>0. PICK g : Follows(g, n, Work(n), first, step)
    BY <1>1, <1>2, RecursionExists
  <2>1. /\ g \in [0 .. n -> Work(n)] /\ g[0] = first
        /\ \A i \in 1 .. n : g[i] = step[<<g[i - 1], i>>]
    BY <2>0 DEF Follows
  <2>2. ASSUME NEW i \in 1 .. n PROVE g[i] = ImportRow(g[i - 1], b, i)
    <3>1. i - 1 \in 0 .. n
      BY <1>1
    <3>2. g[i - 1] \in Work(n)
      BY <2>1, <3>1
    <3>3. step[<<g[i - 1], i>>] = ImportRow(g[i - 1], b, i)
      BY <3>2 DEF step
    <3>4. QED
      BY <2>1, <3>3
  <2>3. ASSUME NEW i \in 0 .. n
        PROVE  g[i] = IF i = 0 THEN first ELSE ImportRow(g[i - 1], b, i)
    <3>1. CASE i = 0
      BY <2>1, <3>1
    <3>2. CASE i # 0
      <4>1. i \in 1 .. n
        BY <3>2, <1>1
      <4>2. QED
        BY <4>1, <2>2, <3>2
    <3>3. QED
      BY <3>1, <3>2
  <2>4. g = [i \in 0 .. n |-> IF i = 0 THEN first ELSE ImportRow(g[i - 1], b, i)]
    BY <2>1, <2>3, Zenon
  <2>5. QED
    BY <2>4, Zenon
<1>4. Equation(after)
  <2> HIDE DEF Equation
  <2> QED BY <1>3, Zenon
<1>5. after[0] = first /\ \A i \in 1 .. n : after[i] = ImportRow(after[i - 1], b, i)
  <2> HIDE DEF after, first, n
  <2>1. after = [i \in 0 .. n |-> IF i = 0 THEN first ELSE ImportRow(after[i - 1], b, i)]
    BY <1>4
  <2>2. 0 \in 0 .. n /\ \A i \in 1 .. n : i \in 0 .. n /\ i # 0
    BY <1>1
  <2>3. after[0] = first
    BY <2>1, <2>2, Zenon
  <2>4. \A i \in 0 .. n : after[i] = IF i = 0 THEN first ELSE ImportRow(after[i - 1], b, i)
    BY <2>1, Zenon
  <2>5. QED
    BY <2>2, <2>3, <2>4
<1>6. after[n] \in Work(n)
  <2> HIDE DEF after, first, n
  <2>1. ASSUME NEW i \in 1 .. n, after[i - 1] \in Work(n) PROVE after[i] \in Work(n)
    <3>1. ImportRow(after[i - 1], b, i) \in Work(n)
      BY <1>1, <2>1, ImportRowTyped
    <3>2. QED
      BY <1>5, <3>1
  <2>2. QED
    BY <1>1, <1>5, <2>1, RecursionKeeps
<1>7. Imported(b) = after[n]
  BY DEF Imported
<1>8. QED
  BY <1>6, <1>7

\* So does a roll back.
LEMMA RestoredTyped ==
  ASSUME TypesInv, NEW b \in Batches
  PROVE  Restored(b) \in Work(Len(rows[b]))
<1> DEFINE n == Len(rows[b])
           first == [project |-> project, risk |-> risk, rows |-> rows[b]]
           Equation(g) == g = [i \in 0 .. n |-> IF i = 0 THEN first ELSE RestoreRow(g[i - 1], i)]
           after == CHOOSE g : Equation(g)
           step == [x \in Work(n) \X (1 .. n) |-> RestoreRow(x[1], x[2])]
<1>1. n \in Nat /\ first \in Work(n)
  <2>1. /\ rows[b] \in Seq(Row) /\ project \in [Projects -> Value]
        /\ risk \in [Projects -> Nat]
    BY DEF TypesInv
  <2>2. n \in Nat
    BY <2>1, LenProperties
  <2>3. QED
    BY <2>1, <2>2 DEF Work
<1>2. step \in Steps(n, Work(n))
  <2>1. ASSUME NEW x \in Work(n) \X (1 .. n) PROVE RestoreRow(x[1], x[2]) \in Work(n)
    <3>1. x[1] \in Work(n) /\ x[2] \in 1 .. n
      OBVIOUS
    <3>2. QED
      BY <1>1, <3>1, RestoreRowTyped
  <2>2. QED
    BY <2>1 DEF Steps
<1>3. \E g : Equation(g)
  <2> HIDE DEF step, first, n
  <2>0. PICK g : Follows(g, n, Work(n), first, step)
    BY <1>1, <1>2, RecursionExists
  <2>1. /\ g \in [0 .. n -> Work(n)] /\ g[0] = first
        /\ \A i \in 1 .. n : g[i] = step[<<g[i - 1], i>>]
    BY <2>0 DEF Follows
  <2>2. ASSUME NEW i \in 1 .. n PROVE g[i] = RestoreRow(g[i - 1], i)
    <3>1. i - 1 \in 0 .. n
      BY <1>1
    <3>2. g[i - 1] \in Work(n)
      BY <2>1, <3>1
    <3>3. step[<<g[i - 1], i>>] = RestoreRow(g[i - 1], i)
      BY <3>2 DEF step
    <3>4. QED
      BY <2>1, <3>3
  <2>3. ASSUME NEW i \in 0 .. n
        PROVE  g[i] = IF i = 0 THEN first ELSE RestoreRow(g[i - 1], i)
    <3>1. CASE i = 0
      BY <2>1, <3>1
    <3>2. CASE i # 0
      <4>1. i \in 1 .. n
        BY <3>2, <1>1
      <4>2. QED
        BY <4>1, <2>2, <3>2
    <3>3. QED
      BY <3>1, <3>2
  <2>4. g = [i \in 0 .. n |-> IF i = 0 THEN first ELSE RestoreRow(g[i - 1], i)]
    BY <2>1, <2>3, Zenon
  <2>5. QED
    BY <2>4, Zenon
<1>4. Equation(after)
  <2> HIDE DEF Equation
  <2> QED BY <1>3, Zenon
<1>5. after[0] = first /\ \A i \in 1 .. n : after[i] = RestoreRow(after[i - 1], i)
  <2> HIDE DEF after, first, n
  <2>1. after = [i \in 0 .. n |-> IF i = 0 THEN first ELSE RestoreRow(after[i - 1], i)]
    BY <1>4
  <2>2. 0 \in 0 .. n /\ \A i \in 1 .. n : i \in 0 .. n /\ i # 0
    BY <1>1
  <2>3. after[0] = first
    BY <2>1, <2>2, Zenon
  <2>4. \A i \in 0 .. n : after[i] = IF i = 0 THEN first ELSE RestoreRow(after[i - 1], i)
    BY <2>1, Zenon
  <2>5. QED
    BY <2>2, <2>3, <2>4
<1>6. after[n] \in Work(n)
  <2> HIDE DEF after, first, n
  <2>1. ASSUME NEW i \in 1 .. n, after[i - 1] \in Work(n) PROVE after[i] \in Work(n)
    <3>1. RestoreRow(after[i - 1], i) \in Work(n)
      BY <1>1, <2>1, RestoreRowTyped
    <3>2. QED
      BY <1>5, <3>1
  <2>2. QED
    BY <1>1, <1>5, <2>1, RecursionKeeps
<1>7. Restored(b) = after[n]
  BY DEF Restored
<1>8. QED
  BY <1>6, <1>7
-----------------------------------------------------------------------------
(* The steps.                                                              *)

TaskRecord == [status : {"none", "RETRY", "RUNNING", "SUCCEEDED", "FAILED"}, tries : 0 .. MaxTries]
Attempts == [Tries -> {"none", "handling", "done", "dead"}]

BatchRecord == [file : Files \union {"none"}, undoing : BOOLEAN, status : BatchStatus]

\* A batch that exists changes its status and its roll back.
LEMMA BatchMoved ==
  ASSUME TypesInv, NEW b \in Existing, NEW st \in BatchStatus \ {"none"}, NEW u \in BOOLEAN,
         batch' = [batch EXCEPT ![b] = [file |-> batch[b].file, undoing |-> u, status |-> st]]
  PROVE  /\ batch' \in [Batches -> BatchRecord] /\ Existing' = Existing
         /\ \A c \in Batches : batch'[c].file = batch[c].file
         /\ batch'[b].status = st /\ batch'[b].undoing = u
         /\ \A c \in Batches \ {b} : batch'[c] = batch[c]
<1>1. b \in Batches /\ batch \in [Batches -> BatchRecord]
  BY DEF Existing, TypesInv, BatchRecord
<1>2. [file |-> batch[b].file, undoing |-> u, status |-> st] \in BatchRecord
  BY <1>1 DEF BatchRecord
<1>3. batch' \in [Batches -> BatchRecord]
  BY <1>1, <1>2
<1>4. /\ \A c \in Batches : batch'[c].file = batch[c].file
      /\ batch'[b].status = st /\ batch'[b].undoing = u
      /\ \A c \in Batches \ {b} : batch'[c] = batch[c]
  BY <1>1
<1>5. batch[b].status # "none"
  BY DEF Existing
<1>6. \A c \in Batches : batch'[c].status # "none" <=> batch[c].status # "none"
  BY <1>4, <1>5
<1>7. Existing' = Existing
  BY <1>6 DEF Existing
<1>8. QED
  BY <1>3, <1>4, <1>7

\* The two forms in which the actions write it.
LEMMA StatusWritten ==
  ASSUME TypesInv, NEW b \in Existing, NEW st
  PROVE  [batch EXCEPT ![b].status = st]
            = [batch EXCEPT ![b] = [file |-> batch[b].file, undoing |-> batch[b].undoing, status |-> st]]
<1>1. b \in Batches /\ batch \in [Batches -> BatchRecord] /\ batch[b] \in BatchRecord
  BY DEF Existing, TypesInv, BatchRecord
<1>2. [batch[b] EXCEPT !.status = st]
         = [file |-> batch[b].file, undoing |-> batch[b].undoing, status |-> st]
  BY <1>1 DEF BatchRecord
<1>3. QED
  BY <1>1, <1>2

LEMMA UndoingWritten ==
  ASSUME TypesInv, NEW b \in Existing, NEW u
  PROVE  [batch EXCEPT ![b].undoing = u]
            = [batch EXCEPT ![b] = [file |-> batch[b].file, undoing |-> u, status |-> batch[b].status]]
<1>1. b \in Batches /\ batch \in [Batches -> BatchRecord] /\ batch[b] \in BatchRecord
  BY DEF Existing, TypesInv, BatchRecord
<1>2. [batch[b] EXCEPT !.undoing = u]
         = [file |-> batch[b].file, undoing |-> u, status |-> batch[b].status]
  BY <1>1 DEF BatchRecord
<1>3. QED
  BY <1>1, <1>2

LEMMA RolledBackWritten ==
  ASSUME TypesInv, NEW b \in Existing, NEW u
  PROVE  [batch EXCEPT ![b].undoing = u, ![b].status = "ROLLED_BACK"]
            = [batch EXCEPT ![b] = [file |-> batch[b].file, undoing |-> u, status |-> "ROLLED_BACK"]]
<1>1. b \in Batches /\ batch \in [Batches -> BatchRecord] /\ batch[b] \in BatchRecord
  BY DEF Existing, TypesInv, BatchRecord
<1>2. [[batch[b] EXCEPT !.undoing = u] EXCEPT !.status = "ROLLED_BACK"]
         = [file |-> batch[b].file, undoing |-> u, status |-> "ROLLED_BACK"]
  <2>1. [batch[b] EXCEPT !.undoing = u]
           = [file |-> batch[b].file, undoing |-> u, status |-> batch[b].status]
    BY <1>1 DEF BatchRecord
  <2>2. [[file |-> batch[b].file, undoing |-> u, status |-> batch[b].status] EXCEPT !.status = "ROLLED_BACK"]
           = [file |-> batch[b].file, undoing |-> u, status |-> "ROLLED_BACK"]
    OBVIOUS
  <2>3. QED
    BY <2>1, <2>2, Zenon
<1>3. QED
  BY <1>1, <1>2

\* The parts of the invariant that a step disturbs by moving batches it knows.
LEMMA SameBatches ==
  ASSUME ImportInv, Existing' = Existing,
         \A c \in Batches : batch'[c].file = batch[c].file,
         \A c \in Existing : batch'[c].status = "IMPORTED" => batch[c].status = "IMPORTED"
  PROVE  ImportedInv' /\ (\A b \in Existing' : batch'[b].file \in Files)
<1>1. Existing \subseteq Batches
  BY DEF Existing
<1>2. ASSUME NEW b \in Existing', NEW c \in Existing',
             batch'[b].status = "IMPORTED", batch'[c].status = "IMPORTED",
             batch'[b].file = batch'[c].file
      PROVE  b = c
  <2>1. b \in Existing /\ c \in Existing /\ b \in Batches /\ c \in Batches
    BY <1>1
  <2>2. /\ batch[b].status = "IMPORTED" /\ batch[c].status = "IMPORTED"
        /\ batch[b].file = batch[c].file
    BY <1>2, <2>1
  <2>3. QED
    BY <2>1, <2>2 DEF ImportInv, ImportedInv
<1>3. \A b \in Existing' : batch'[b].file \in Files
  BY <1>1 DEF ImportInv, ExistingInv
<1>4. ImportedInv'
  BY <1>2, Zenon DEF ImportedInv
<1>5. QED
  BY <1>3, <1>4

LEMMA InitHolds == Init => ImportInv
<1> SUFFICES ASSUME Init PROVE ImportInv
  OBVIOUS
<1>1. TypesInv
  <2>1. batch \in [Batches -> [file : Files \union {"none"}, undoing : BOOLEAN, status : BatchStatus]]
    BY DEF Init, NoBatch, BatchStatus
  <2>2. rows \in [Batches -> Seq(Row)]
    BY EmptySeq DEF Init
  <2>3. /\ task \in [Batches -> [status : {"none", "RETRY", "RUNNING", "SUCCEEDED", "FAILED"},
                                 tries : 0 .. MaxTries]]
        /\ attempt \in [Batches -> [Tries -> {"none", "handling", "done", "dead"}]]
    BY DEF Init
  <2>4. project \in [Projects -> Value] /\ risk \in [Projects -> Nat]
    BY DEF Init, NoProject, Value, NoRisk
  <2>5. /\ stored \in SUBSET Batches /\ order \in SUBSET (Batches \X Batches)
        /\ confirming \in [Batches -> 0 .. MaxConfirms] /\ disturbed \in SUBSET Projects
    BY DEF Init
  <2>6. QED
    BY <2>1, <2>2, <2>3, <2>4, <2>5 DEF TypesInv
<1>2. Existing = {}
  BY DEF Init, Existing, NoBatch
<1>3. ExistingInv
  <2>1. Existing = 1 .. 0 /\ 0 \in 0 .. MaxBatch
    BY <1>2
  <2>2. \A b \in Batches : /\ task[b] = [status |-> "none", tries |-> 0]
                           /\ confirming[b] = 0 /\ ~batch[b].undoing
                           /\ \A n \in Tries : attempt[b][n] = "none"
    BY DEF Init, NoBatch
  <2>3. stored = {}
    BY DEF Init
  <2>4. QED
    BY <1>2, <2>1, <2>2, <2>3 DEF ExistingInv
<1>4. OrderInv /\ ImportedInv
  BY <1>2 DEF OrderInv, ImportedInv, Init
<1>5. QED
  BY <1>1, <1>3, <1>4 DEF ImportInv

LEMMA UploadKept ==
  ASSUME ImportInv, NEW f \in Files, NEW reply \in BOOLEAN, Upload(f, reply)
  PROVE  ImportInv'
<1> DEFINE b == Cardinality(Existing) + 1
           new == [[batch[b] EXCEPT !.file = f] EXCEPT !.status = "PROCESSING"]
<1>1. PICK n \in 0 .. MaxBatch : Existing = 1 .. n
  BY DEF ImportInv, ExistingInv
<1>2. b = n + 1 /\ b \in Batches /\ b \notin Existing
  <2>1. Cardinality(Existing) = n
    BY <1>1, FS_Interval
  <2>2. b \in Batches
    BY DEF Upload
  <2>3. QED
    BY <1>1, <2>1, <2>2
<1> HIDE DEF b
<1>3. /\ batch' = [batch EXCEPT ![b] = new]
      /\ task' = [task EXCEPT ![b].status = "RETRY"]
      /\ stored' \in {stored, stored \union {b}}
      /\ UNCHANGED <<rows, attempt, order, confirming, project, risk, disturbed>>
  <2>1. /\ batch' = [batch EXCEPT ![b].file = f, ![b].status = "PROCESSING"]
        /\ task' = [task EXCEPT ![b].status = "RETRY"]
        /\ stored' = IF reply THEN stored \union {b} ELSE stored
        /\ UNCHANGED <<rows, attempt, order, confirming, project, risk, disturbed>>
    BY DEF Upload, b
  <2>2. batch \in [Batches -> BatchRecord] /\ batch[b] \in BatchRecord
    BY <1>2 DEF ImportInv, TypesInv, BatchRecord
  <2>3. [batch EXCEPT ![b].file = f, ![b].status = "PROCESSING"] = [batch EXCEPT ![b] = new]
    BY <1>2, <2>2 DEF BatchRecord
  <2>4. QED
    BY <2>1, <2>3
<1>4. /\ new \in BatchRecord /\ new.file = f /\ new.status = "PROCESSING"
      /\ new.undoing = batch[b].undoing
  <2>1. batch[b] \in BatchRecord
    BY <1>2 DEF ImportInv, TypesInv, BatchRecord
  <2>2. QED
    BY <2>1 DEF BatchRecord, BatchStatus
<1>5. /\ batch' \in [Batches -> BatchRecord] /\ batch'[b] = new
      /\ \A c \in Batches \ {b} : batch'[c] = batch[c]
  <2>1. batch \in [Batches -> BatchRecord]
    BY DEF ImportInv, TypesInv, BatchRecord
  <2>2. QED
    BY <1>2, <1>3, <1>4, <2>1
<1>6. Existing' = Existing \union {b}
  <2>1. \A c \in Batches : batch'[c].status # "none" <=> c = b \/ batch[c].status # "none"
    BY <1>4, <1>5
  <2>2. QED
    BY <1>2, <2>1 DEF Existing
<1>12. \A c \in Existing : c \in Batches /\ c # b
  BY <1>2 DEF Existing
<1>7. /\ task' \in [Batches -> [status : {"none", "RETRY", "RUNNING", "SUCCEEDED", "FAILED"},
                                tries : 0 .. MaxTries]]
      /\ task'[b].status = "RETRY" /\ task'[b].tries = task[b].tries
      /\ \A c \in Batches \ {b} : task'[c] = task[c]
  <2>1. task \in [Batches -> [status : {"none", "RETRY", "RUNNING", "SUCCEEDED", "FAILED"},
                              tries : 0 .. MaxTries]]
    BY DEF ImportInv, TypesInv
  <2>2. QED
    BY <1>2, <1>3, <2>1
<1>8. TypesInv'
  <2>1. stored' \in SUBSET Batches
    BY <1>2, <1>3 DEF ImportInv, TypesInv
  <2>2. QED
    BY <1>3, <1>5, <1>7, <2>1 DEF ImportInv, TypesInv, BatchRecord
<1>9. ExistingInv'
  <2>1. Existing' = 1 .. (n + 1) /\ n + 1 \in 0 .. MaxBatch
    BY <1>1, <1>2, <1>6 DEF Batches
  <2>2. stored' \subseteq Existing'
    BY <1>3, <1>6 DEF ImportInv, ExistingInv
  <2>3. \A c \in Existing' : batch'[c].file \in Files
    <3>1. \A c \in Existing : batch[c].file \in Files
      BY DEF ImportInv, ExistingInv
    <3>2. QED
      BY <1>4, <1>5, <1>6, <1>12, <3>1
  <2>4. \A c \in Batches \ Existing' :
          /\ task'[c] = [status |-> "none", tries |-> 0] /\ confirming'[c] = 0 /\ ~batch'[c].undoing
          /\ \A a \in Tries : attempt'[c][a] = "none"
    <3>1. \A c \in Batches \ Existing :
            /\ task[c] = [status |-> "none", tries |-> 0] /\ confirming[c] = 0 /\ ~batch[c].undoing
            /\ \A a \in Tries : attempt[c][a] = "none"
      BY DEF ImportInv, ExistingInv
    <3>2. QED
      BY <1>3, <1>5, <1>6, <1>7, <3>1
  <2>5. \A c \in Batches : task'[c].status = "RETRY" => task'[c].tries < MaxTries
    <3>1. task[b].tries = 0 /\ \A c \in Batches : task[c].status = "RETRY" => task[c].tries < MaxTries
      BY <1>2 DEF ImportInv, ExistingInv
    <3>2. QED
      BY <1>7, <3>1
  <2>6. QED
    BY <2>1, <2>2, <2>3, <2>4, <2>5 DEF ExistingInv
<1>10. OrderInv' /\ ImportedInv'
  <2>1. OrderInv'
    BY <1>3 DEF ImportInv, OrderInv
  <2>2. ImportedInv'
    <3>1. \A c, d \in Existing :
            batch[c].status = "IMPORTED" /\ batch[d].status = "IMPORTED"
               /\ batch[c].file = batch[d].file => c = d
      BY DEF ImportInv, ImportedInv
    <3>2. ASSUME NEW c \in Existing', NEW d \in Existing',
                 batch'[c].status = "IMPORTED", batch'[d].status = "IMPORTED",
                 batch'[c].file = batch'[d].file
          PROVE  c = d
      <4>1. c # b /\ d # b
        BY <1>4, <1>5, <3>2
      <4>2. c \in Existing /\ d \in Existing /\ batch'[c] = batch[c] /\ batch'[d] = batch[d]
        BY <1>5, <1>6, <1>12, <4>1
      <4>3. QED
        BY <3>1, <3>2, <4>2
    <3>3. QED
      BY <3>2, Zenon DEF ImportedInv
  <2>3. QED
    BY <2>1, <2>2
<1>11. QED
  BY <1>8, <1>9, <1>10 DEF ImportInv
\* What ExistingInv asks of a step that creates no batch.
LEMMA NoneCreated ==
  ASSUME ImportInv, Existing' = Existing, stored' \subseteq stored,
         \A b \in Existing : batch'[b].file \in Files,
         \A b \in Batches \ Existing :
            /\ task'[b] = task[b] /\ attempt'[b] = attempt[b] /\ confirming'[b] = confirming[b]
            /\ batch'[b] = batch[b],
         \A b \in Existing : task'[b].status = "RETRY" => task'[b].tries < MaxTries
  PROVE  ExistingInv'
<1>1. \E n \in 0 .. MaxBatch : Existing' = 1 .. n
  BY DEF ImportInv, ExistingInv
<1>2. stored' \subseteq Existing'
  BY DEF ImportInv, ExistingInv
<1>3. \A b \in Batches \ Existing :
         /\ task[b] = [status |-> "none", tries |-> 0]
         /\ confirming[b] = 0 /\ ~batch[b].undoing
         /\ \A n \in Tries : attempt[b][n] = "none"
  BY DEF ImportInv, ExistingInv
<1>4. \A b \in Batches \ Existing' :
         /\ task'[b] = [status |-> "none", tries |-> 0]
         /\ confirming'[b] = 0 /\ ~batch'[b].undoing
         /\ \A n \in Tries : attempt'[b][n] = "none"
  BY <1>3
<1>5. \A b \in Batches : task'[b].status = "RETRY" => task'[b].tries < MaxTries
  <2>1. ASSUME NEW b \in Batches \ Existing PROVE task'[b].status # "RETRY"
    BY <1>3
  <2>2. QED
    BY <2>1
<1>6. QED
  BY <1>1, <1>2, <1>4, <1>5 DEF ExistingInv

\* A task of a batch that exists, and its attempts, move.
LEMMA TaskWritten ==
  ASSUME ImportInv, NEW b \in Existing, NEW t \in TaskRecord, t.status = "RETRY" => t.tries < MaxTries,
         task' \in {task, [task EXCEPT ![b] = t]}, NEW n, NEW at \in {"handling", "done", "dead"},
         attempt' \in {attempt, [attempt EXCEPT ![b][n] = at]}
  PROVE  /\ task' \in [Batches -> TaskRecord] /\ attempt' \in [Batches -> Attempts]
         /\ \A c \in Batches \ {b} : task'[c] = task[c] /\ attempt'[c] = attempt[c]
         /\ \A c \in Batches : task'[c].status = "RETRY" => task'[c].tries < MaxTries
<1>1. b \in Batches
  BY DEF Existing
<1>2. task \in [Batches -> TaskRecord]
  BY DEF ImportInv, TypesInv, TaskRecord
<1>3. task' \in [Batches -> TaskRecord] /\ \A c \in Batches \ {b} : task'[c] = task[c]
  BY <1>1, <1>2
<1>4. attempt' \in [Batches -> Attempts] /\ \A c \in Batches \ {b} : attempt'[c] = attempt[c]
  <2>1. attempt \in [Batches -> Attempts] /\ attempt[b] \in Attempts
    BY <1>1 DEF ImportInv, TypesInv, Attempts
  <2>2. [attempt[b] EXCEPT ![n] = at] \in Attempts
    BY <2>1 DEF Attempts
  <2>3. [attempt EXCEPT ![b][n] = at] = [attempt EXCEPT ![b] = [attempt[b] EXCEPT ![n] = at]]
    BY <1>1, <2>1
  <2>4. [attempt EXCEPT ![b][n] = at] \in [Batches -> Attempts]
    BY <2>1, <2>2, <2>3
  <2>5. \A c \in Batches \ {b} : [attempt EXCEPT ![b][n] = at][c] = attempt[c]
    BY <1>1, <2>1
  <2>6. QED
    BY <2>1, <2>4, <2>5
<1>5. \A c \in Batches : task'[c].status = "RETRY" => task'[c].tries < MaxTries
  <2>1. \A c \in Batches : task[c].status = "RETRY" => task[c].tries < MaxTries
    BY DEF ImportInv, ExistingInv
  <2>2. task'[b] \in {task[b], t}
    BY <1>1, <1>2
  <2>3. QED
    BY <1>1, <1>3, <2>1, <2>2
<1>6. QED
  BY <1>3, <1>4, <1>5

LEMMA TaskMoved ==
  ASSUME ImportInv, NEW b \in Existing, NEW t \in TaskRecord, t.status = "RETRY" => t.tries < MaxTries,
         task' = [task EXCEPT ![b] = t], NEW n, NEW at \in {"handling", "done", "dead"},
         attempt' \in {attempt, [attempt EXCEPT ![b][n] = at]},
         UNCHANGED <<batch, rows, stored, order, confirming, project, risk, disturbed>>
  PROVE  ImportInv'
<1>1. /\ task' \in [Batches -> TaskRecord] /\ attempt' \in [Batches -> Attempts]
      /\ \A c \in Batches \ {b} : task'[c] = task[c] /\ attempt'[c] = attempt[c]
      /\ \A c \in Batches : task'[c].status = "RETRY" => task'[c].tries < MaxTries
  BY TaskWritten
<1>2. TypesInv'
  BY <1>1 DEF ImportInv, TypesInv, TaskRecord, Attempts
<1>3. Existing' = Existing /\ \A c \in Existing : batch'[c].file \in Files /\ c \in Batches
  BY DEF ImportInv, ExistingInv, Existing
<1>4. ExistingInv'
  BY <1>1, <1>3, NoneCreated
<1>5. OrderInv' /\ ImportedInv'
  BY <1>3, SameBatches DEF ImportInv, OrderInv
<1>6. QED
  BY <1>2, <1>4, <1>5 DEF ImportInv

\* An attempt ends: the batch has the rows it read, or has failed.
LEMMA AttemptEnded ==
  ASSUME ImportInv, NEW b \in Existing, NEW n, NEW st \in {"FAILED", "PREVIEWED"},
         batch' = [batch EXCEPT ![b].status = st],
         NEW t \in TaskRecord, t.status = "RETRY" => t.tries < MaxTries,
         task' \in {task, [task EXCEPT ![b] = t]},
         attempt' = [attempt EXCEPT ![b][n] = "done"],
         rows' \in [Batches -> Seq(Row)], disturbed' \subseteq Projects,
         UNCHANGED <<stored, order, confirming, project, risk>>
  PROVE  ImportInv'
<1>1. /\ task' \in [Batches -> TaskRecord] /\ attempt' \in [Batches -> Attempts]
      /\ \A c \in Batches \ {b} : task'[c] = task[c] /\ attempt'[c] = attempt[c]
      /\ \A c \in Batches : task'[c].status = "RETRY" => task'[c].tries < MaxTries
  BY TaskWritten
<1>2. /\ batch' \in [Batches -> BatchRecord] /\ Existing' = Existing
      /\ \A c \in Batches : batch'[c].file = batch[c].file
      /\ batch'[b].status = st
      /\ \A c \in Batches \ {b} : batch'[c] = batch[c]
  <2>1. TypesInv /\ batch[b].undoing \in BOOLEAN
    BY DEF ImportInv, TypesInv, Existing
  <2>2. st \in BatchStatus \ {"none"}
    BY DEF BatchStatus
  <2>3. batch' = [batch EXCEPT ![b] = [file |-> batch[b].file, undoing |-> batch[b].undoing, status |-> st]]
    BY <2>1, StatusWritten
  <2>4. QED
    BY <2>1, <2>2, <2>3, BatchMoved
<1>3. TypesInv'
  BY <1>1, <1>2 DEF ImportInv, TypesInv, TaskRecord, Attempts, BatchRecord
<1>4. \A c \in Existing : c \in Batches /\ batch'[c].file \in Files
  BY <1>2 DEF ImportInv, ExistingInv, Existing
<1>5. ExistingInv'
  BY <1>1, <1>2, <1>4, NoneCreated
<1>6. OrderInv' /\ ImportedInv'
  BY <1>2, <1>4, SameBatches DEF ImportInv, OrderInv
<1>7. QED
  BY <1>3, <1>5, <1>6 DEF ImportInv

\* A task that is not "none", or an attempt at it, belongs to a batch that exists.
LEMMA TasksExist ==
  ASSUME ImportInv, NEW b \in Batches
  PROVE  /\ task[b] \in TaskRecord /\ task[b] = [status |-> task[b].status, tries |-> task[b].tries]
         /\ task[b].status # "none" => b \in Existing
         /\ \A n \in Tries : attempt[b][n] # "none" => b \in Existing
         /\ confirming[b] # 0 => b \in Existing
         /\ batch[b].undoing => b \in Existing
         /\ batch[b].status # "none" => b \in Existing
         /\ task[b].status = "RETRY" => task[b].tries < MaxTries
<1>1. task[b] \in TaskRecord
  BY DEF ImportInv, TypesInv, TaskRecord
<1>2. task[b] = [status |-> task[b].status, tries |-> task[b].tries]
  BY <1>1 DEF TaskRecord
<1>3. b \notin Existing => /\ task[b] = [status |-> "none", tries |-> 0]
                           /\ confirming[b] = 0 /\ ~batch[b].undoing
                           /\ \A n \in Tries : attempt[b][n] = "none"
  BY DEF ImportInv, ExistingInv
<1>4. batch[b].status # "none" => b \in Existing
  BY DEF Existing
<1>5. QED
  BY <1>1, <1>2, <1>3, <1>4 DEF ImportInv, ExistingInv

LEMMA ClaimKept ==
  ASSUME ImportInv, NEW b \in Batches, Claim(b)
  PROVE  ImportInv'
<1> DEFINE t == [status |-> "RUNNING", tries |-> task[b].tries + 1]
<1>1. b \in Existing /\ task[b].tries < MaxTries /\ task[b] \in TaskRecord
  BY TasksExist DEF Claim
<1>2. t \in TaskRecord
  BY <1>1 DEF TaskRecord
<1>3. /\ task' = [task EXCEPT ![b] = t]
      /\ attempt' = [attempt EXCEPT ![b][task[b].tries + 1] = "handling"]
      /\ UNCHANGED <<batch, rows, stored, order, confirming, project, risk, disturbed>>
  BY DEF Claim
<1>4. t.status # "RETRY"
  OBVIOUS
<1> HIDE DEF t
<1>5. QED
  BY <1>1, <1>2, <1>3, <1>4, TaskMoved

\* Where a failed or lost attempt leaves its task.
LEMMA AfterFailureTyped ==
  ASSUME ImportInv, NEW b \in Batches
  PROVE  /\ [status |-> AfterFailure(b), tries |-> task[b].tries] \in TaskRecord
         /\ AfterFailure(b) = "RETRY" => task[b].tries < MaxTries
<1>1. task[b] \in TaskRecord
  BY TasksExist
<1>2. QED
  BY <1>1 DEF TaskRecord, AfterFailure

LEMMA LoseLeaseKept ==
  ASSUME ImportInv, NEW b \in Batches, NEW dies \in BOOLEAN, LoseLease(b, dies)
  PROVE  ImportInv'
<1> DEFINE t == [status |-> AfterFailure(b), tries |-> task[b].tries]
<1>1. b \in Existing /\ task[b] = [status |-> task[b].status, tries |-> task[b].tries]
  BY TasksExist DEF LoseLease
<1>2. t \in TaskRecord /\ (t.status = "RETRY" => t.tries < MaxTries)
  BY AfterFailureTyped
<1>3. /\ task' = [task EXCEPT ![b] = t]
      /\ attempt' \in {attempt, [attempt EXCEPT ![b][task[b].tries] = "dead"]}
      /\ UNCHANGED <<batch, rows, stored, order, confirming, project, risk, disturbed>>
  <2>1. /\ task' = [task EXCEPT ![b].status = AfterFailure(b)]
        /\ attempt' \in {attempt, [attempt EXCEPT ![b][task[b].tries] = "dead"]}
        /\ UNCHANGED <<batch, rows, stored, order, confirming, project, risk, disturbed>>
    BY DEF LoseLease
  <2>2. [task[b] EXCEPT !.status = AfterFailure(b)] = t
    BY <1>1
  <2>3. [task EXCEPT ![b].status = AfterFailure(b)] = [task EXCEPT ![b] = t]
    <3> HIDE DEF t
    <3> QED BY <2>2 DEF ImportInv, TypesInv
  <2>4. QED
    BY <2>1, <2>3
<1> HIDE DEF t
<1>4. QED
  BY <1>1, <1>2, <1>3, TaskMoved
\* finish_task writes what it is given, or nothing.
LEMMA FinishedTyped ==
  ASSUME ImportInv, NEW b \in Batches, NEW n, NEW status, Finished(b, n, status)
  PROVE  task' \in {task, [task EXCEPT ![b] = [status |-> status, tries |-> task[b].tries]]}
<1>1. task[b] = [status |-> task[b].status, tries |-> task[b].tries]
  BY TasksExist
<1>2. [task[b] EXCEPT !.status = status] = [status |-> status, tries |-> task[b].tries]
  BY <1>1
<1>3. [task EXCEPT ![b].status = status]
         = [task EXCEPT ![b] = [status |-> status, tries |-> task[b].tries]]
  BY <1>2 DEF ImportInv, TypesInv
<1>4. QED
  BY <1>3 DEF Finished

\* What a race disturbs are projects.
LEMMA NamedTyped ==
  ASSUME ImportInv, NEW b \in Existing
  PROVE  Named(batch[b].file) \subseteq Projects
<1>1. batch[b].file \in Files
  BY DEF ImportInv, ExistingInv
<1>2. RowsOf[batch[b].file] \in Sheet
  BY <1>1 DEF Sheet, Grade
<1>3. DOMAIN RowsOf[batch[b].file] = 1 .. Len(RowsOf[batch[b].file])
  BY <1>2, LenProperties DEF Sheet
<1>4. \A i \in DOMAIN RowsOf[batch[b].file] :
         RowsOf[batch[b].file][i] \in [project : Projects, risky : BOOLEAN, grade : Grade]
  BY <1>2, <1>3, ElementOfSeq DEF Sheet
<1>5. QED
  BY <1>4 DEF Named

LEMMA FailKept ==
  ASSUME ImportInv, NEW b \in Batches, NEW n \in Tries, Fail(b, n)
  PROVE  ImportInv'
<1> DEFINE t == [status |-> AfterFailure(b), tries |-> task[b].tries]
<1>1. b \in Existing
  BY TasksExist DEF Fail
<1>2. t \in TaskRecord /\ (t.status = "RETRY" => t.tries < MaxTries)
  BY AfterFailureTyped
<1>3. /\ batch' = [batch EXCEPT ![b].status = "FAILED"]
      /\ attempt' = [attempt EXCEPT ![b][n] = "done"]
      /\ UNCHANGED <<rows, stored, order, confirming, project, risk>>
  BY DEF Fail
<1>4. task' \in {task, [task EXCEPT ![b] = t]}
  BY FinishedTyped DEF Fail
<1>5. disturbed' \subseteq Projects /\ rows' \in [Batches -> Seq(Row)]
  BY <1>1, NamedTyped DEF Fail, ImportInv, TypesInv
<1> HIDE DEF t
<1>6. QED
  BY <1>1, <1>2, <1>3, <1>4, <1>5, AttemptEnded

\* The rows of a workbook, as they are first stored.
LEMMA FreshRowsTyped ==
  ASSUME NEW f \in Files
  PROVE  [i \in DOMAIN RowsOf[f] |-> FreshRow(RowsOf[f][i])] \in Seq(Row)
<1> DEFINE q == RowsOf[f]
           fresh == [i \in DOMAIN q |-> FreshRow(q[i])]
<1>1. q \in Sheet /\ Len(q) \in Nat /\ DOMAIN q = 1 .. Len(q)
  <2>1. q \in Sheet
    BY DEF Sheet, Grade
  <2>2. QED
    BY <2>1, LenProperties DEF Sheet
<1>2. ASSUME NEW i \in 1 .. Len(q) PROVE FreshRow(q[i]) \in Row
  <2>1. q[i] \in [project : Projects, risky : BOOLEAN, grade : Grade]
    BY <1>1, ElementOfSeq DEF Sheet
  <2>2. NoProject \in Value /\ NoRisk \in Nat
    BY DEF NoProject, Value, NoRisk
  <2>3. q[i].project \in Projects /\ q[i].risky \in BOOLEAN /\ q[i].grade \in RowStatus
    BY <2>1 DEF RowStatus
  <2>4. QED
    BY <2>2, <2>3 DEF FreshRow, Row
<1>3. fresh \in [1 .. Len(q) -> Row]
  BY <1>1, <1>2
<1>4. fresh \in Seq(Row)
  <2> HIDE DEF fresh
  <2> QED BY <1>1, <1>3, SeqDef
<1>5. QED
  BY <1>4

LEMMA StoreKept ==
  ASSUME ImportInv, NEW b \in Batches, NEW n \in Tries, Store(b, n)
  PROVE  ImportInv'
<1> DEFINE t == [status |-> "SUCCEEDED", tries |-> task[b].tries]
           fresh == [i \in DOMAIN RowsOf[batch[b].file] |-> FreshRow(RowsOf[batch[b].file][i])]
<1>1. b \in Existing
  BY TasksExist DEF Store
<1>2. t \in TaskRecord /\ t.status # "RETRY"
  <2>1. task[b] \in TaskRecord
    BY TasksExist
  <2>2. QED
    BY <2>1 DEF TaskRecord
<1>3. /\ batch' = [batch EXCEPT ![b].status = "PREVIEWED"]
      /\ attempt' = [attempt EXCEPT ![b][n] = "done"]
      /\ rows' = [rows EXCEPT ![b] = fresh]
      /\ UNCHANGED <<stored, order, confirming, project, risk>>
  BY DEF Store
<1>4. task' \in {task, [task EXCEPT ![b] = t]}
  BY FinishedTyped DEF Store
<1>5. disturbed' \subseteq Projects
  BY <1>1, NamedTyped DEF Store, ImportInv, TypesInv
<1>6. rows' \in [Batches -> Seq(Row)]
  <2>1. batch[b].file \in Files
    BY <1>1 DEF ImportInv, ExistingInv
  <2>2. fresh \in Seq(Row)
    BY <2>1, FreshRowsTyped
  <2> HIDE DEF fresh
  <2>3. QED
    BY <1>3, <2>2 DEF ImportInv, TypesInv
<1> HIDE DEF t, fresh
<1>7. QED
  BY <1>1, <1>2, <1>3, <1>4, <1>5, <1>6, AttemptEnded
\* The bound on the confirmations under way bounds those of each batch.
LEMMA ConfirmingBounded ==
  ASSUME TypesInv, NEW b \in Batches, Cardinality(UnderWay) < MaxConfirms
  PROVE  confirming[b] < MaxConfirms
<1>1. confirming[b] \in 0 .. MaxConfirms
  BY DEF TypesInv
<1>2. SUFFICES ASSUME confirming[b] = MaxConfirms PROVE FALSE
  BY <1>1
<1> DEFINE all == {b} \X (1 .. MaxConfirms)
<1>3. IsFiniteSet(Batches \X (1 .. MaxConfirms))
  <2>1. IsFiniteSet(Batches) /\ IsFiniteSet(1 .. MaxConfirms)
    BY FS_Interval DEF Batches
  <2>2. QED
    BY <2>1, FS_Product
<1>4. IsFiniteSet(UnderWay)
  <2>1. UnderWay \in SUBSET (Batches \X (1 .. MaxConfirms))
    BY DEF UnderWay
  <2>2. QED
    BY <1>3, <2>1, FS_Subset
<1>5. Cardinality(all) = MaxConfirms
  <2>1. IsFiniteSet({b}) /\ Cardinality({b}) = 1
    BY FS_Singleton
  <2>2. IsFiniteSet(1 .. MaxConfirms) /\ Cardinality(1 .. MaxConfirms) = MaxConfirms
    BY FS_Interval
  <2>3. Cardinality(all) = Cardinality({b}) * Cardinality(1 .. MaxConfirms)
    BY <2>1, <2>2, FS_Product
  <2>4. QED
    BY <2>1, <2>2, <2>3
<1>6. all \in SUBSET UnderWay
  BY <1>2 DEF UnderWay
<1>7. Cardinality(all) <= Cardinality(UnderWay) /\ Cardinality(UnderWay) \in Nat
  BY <1>4, <1>6, FS_Subset, FS_CardinalityType
<1>8. QED
  BY <1>5, <1>7

LEMMA ConfirmReadKept ==
  ASSUME ImportInv, NEW b \in Batches, ConfirmRead(b)
  PROVE  ImportInv'
<1>1. b \in Existing /\ confirming[b] < MaxConfirms /\ confirming[b] \in 0 .. MaxConfirms
  <2>1. TypesInv /\ Cardinality(UnderWay) < MaxConfirms
    BY DEF ImportInv, ConfirmRead
  <2>2. confirming[b] < MaxConfirms
    BY <2>1, ConfirmingBounded
  <2>3. QED
    BY <2>1, <2>2, TasksExist DEF ConfirmRead, TypesInv
<1>2. /\ confirming' = [confirming EXCEPT ![b] = confirming[b] + 1]
      /\ UNCHANGED <<batch, rows, task, attempt, stored, order, project, risk, disturbed>>
  BY DEF ConfirmRead
<1>3. confirming' \in [Batches -> 0 .. MaxConfirms] /\ \A c \in Batches \ {b} : confirming'[c] = confirming[c]
  BY <1>1, <1>2 DEF ImportInv, TypesInv
<1>4. TypesInv'
  BY <1>2, <1>3 DEF ImportInv, TypesInv
<1>5. Existing' = Existing /\ \A c \in Existing : batch'[c].file \in Files /\ c \in Batches
  BY <1>2 DEF ImportInv, ExistingInv, Existing
<1>6. ExistingInv'
  <2>1. \A c \in Existing : task'[c].status = "RETRY" => task'[c].tries < MaxTries
    BY <1>2, <1>5, TasksExist
  <2>2. QED
    BY <1>1, <1>2, <1>3, <1>5, <2>1, NoneCreated
<1>7. OrderInv' /\ ImportedInv'
  BY <1>2, <1>5, SameBatches DEF ImportInv, OrderInv
<1>8. QED
  BY <1>4, <1>6, <1>7 DEF ImportInv

\* The last confirmed batch comes after all others, and still only once.
LEMMA OrderKept ==
  ASSUME ImportInv, NEW b \in Batches,
         order' = {o \in order : o[1] # b} \union
                     {<<c, b>> : c \in {b} \union {o[1] : o \in order}}
  PROVE  OrderInv' /\ order' \in SUBSET (Batches \X Batches)
<1>1. order \in SUBSET (Batches \X Batches)
  BY DEF ImportInv, TypesInv
<1>2. \A o \in order : o[1] \in Batches
  BY <1>1
<1>3. order' \in SUBSET (Batches \X Batches)
  BY <1>1, <1>2
<1>4. ASSUME NEW c \in Batches, NEW d \in Batches, <<c, d>> \in order', <<d, c>> \in order'
      PROVE  c = d
  <2>1. (<<c, d>> \in order /\ c # b) \/ d = b
    BY <1>4
  <2>2. (<<d, c>> \in order /\ d # b) \/ c = b
    BY <1>4
  <2>3. QED
    BY <2>1, <2>2 DEF ImportInv, OrderInv
<1>5. QED
  BY <1>3, <1>4 DEF OrderInv

\* A confirmation that is refused only leaves the queue.
LEMMA RefusedKept ==
  ASSUME ImportInv, NEW b \in Existing, confirming[b] > 0,
         confirming' = [confirming EXCEPT ![b] = confirming[b] - 1],
         UNCHANGED <<batch, rows, task, attempt, stored, order, project, risk, disturbed>>
  PROVE  ImportInv'
<1>1. b \in Batches
  BY DEF Existing
<1>2. confirming' \in [Batches -> 0 .. MaxConfirms] /\ \A c \in Batches \ {b} : confirming'[c] = confirming[c]
  BY <1>1 DEF ImportInv, TypesInv
<1>3. TypesInv'
  BY <1>2 DEF ImportInv, TypesInv
<1>4. Existing' = Existing /\ \A c \in Existing : batch'[c].file \in Files /\ c \in Batches
  BY DEF ImportInv, ExistingInv, Existing
<1>5. ExistingInv'
  <2>1. \A c \in Existing : task'[c].status = "RETRY" => task'[c].tries < MaxTries
    BY <1>4, TasksExist
  <2>2. QED
    BY <1>2, <1>4, <2>1, NoneCreated
<1>6. OrderInv' /\ ImportedInv'
  BY <1>4, SameBatches DEF ImportInv, OrderInv
<1>7. QED
  BY <1>3, <1>5, <1>6 DEF ImportInv

\* What a confirmation and a roll back write has its type.
LEMMA WorkWritten ==
  ASSUME TypesInv, NEW b \in Batches, NEW w \in Work(Len(rows[b])),
         rows' = [rows EXCEPT ![b] = w.rows], project' = w.project, risk' = w.risk
  PROVE  /\ rows' \in [Batches -> Seq(Row)]
         /\ project' \in [Projects -> Value] /\ risk' \in [Projects -> Nat]
<1>1. rows[b] \in Seq(Row) /\ rows \in [Batches -> Seq(Row)]
  BY DEF TypesInv
<1>2. Len(rows[b]) \in Nat
  BY <1>1, LenProperties
<1>3. w.project \in [Projects -> Value] /\ w.risk \in [Projects -> Nat] /\ w.rows \in Seq(Row)
  BY <1>2, WorkParts
<1>4. QED
  BY <1>1, <1>3

LEMMA ConfirmKept ==
  ASSUME ImportInv, NEW b \in Batches, NEW acknowledged \in BOOLEAN, Confirm(b, acknowledged)
  PROVE  ImportInv'
<1>1. /\ b \in Existing /\ confirming[b] > 0 /\ TypesInv
      /\ confirming' = [confirming EXCEPT ![b] = confirming[b] - 1]
      /\ UNCHANGED <<task, attempt, stored>>
  <2>1. TypesInv /\ confirming[b] > 0 /\ confirming[b] \in 0 .. MaxConfirms
    BY DEF Confirm, ImportInv, TypesInv
  <2>2. confirming[b] # 0
    BY <2>1
  <2>3. b \in Existing
    BY <2>2, TasksExist
  <2>4. QED
    BY <2>1, <2>3 DEF Confirm
<1>2. CASE ~MayConfirm(b, acknowledged)
  <2>1. UNCHANGED <<rows, project, risk, batch, order, disturbed>>
    BY <1>2 DEF Confirm
  <2>2. QED
    BY <1>1, <2>1, RefusedKept
<1>3. CASE MayConfirm(b, acknowledged)
  <2>1. /\ rows' = [rows EXCEPT ![b] = Imported(b).rows]
        /\ project' = Imported(b).project /\ risk' = Imported(b).risk
        /\ batch' = [batch EXCEPT ![b].status = "IMPORTED"]
        /\ order' = {o \in order : o[1] # b} \union
                       {<<c, b>> : c \in {b} \union {o[1] : o \in order}}
        /\ disturbed' \subseteq disturbed \union Twice(batch[b].file) \union Overtaken(b)
                                  \union Named(batch[b].file)
    BY <1>3 DEF Confirm
  <2>2. \A c \in Existing \ {b} : batch[c].file = batch[b].file => batch[c].status # "IMPORTED"
    BY <1>3 DEF MayConfirm, Of
  <2>3. /\ rows' \in [Batches -> Seq(Row)]
        /\ project' \in [Projects -> Value] /\ risk' \in [Projects -> Nat]
    <3>1. Imported(b) \in Work(Len(rows[b]))
      BY <1>1, ImportedTyped
    <3>2. QED
      BY <1>1, <2>1, <3>1, WorkWritten
  <2>4. /\ batch' \in [Batches -> BatchRecord] /\ Existing' = Existing
        /\ \A c \in Batches : batch'[c].file = batch[c].file
        /\ \A c \in Batches \ {b} : batch'[c] = batch[c]
    <3>1. batch[b].undoing \in BOOLEAN /\ "IMPORTED" \in BatchStatus \ {"none"}
      BY DEF ImportInv, TypesInv, BatchStatus
    <3>2. batch' = [batch EXCEPT ![b] = [file |-> batch[b].file, undoing |-> batch[b].undoing,
                                         status |-> "IMPORTED"]]
      BY <1>1, <2>1, StatusWritten
    <3>3. QED
      BY <1>1, <3>1, <3>2, BatchMoved
  <2>5. OrderInv' /\ order' \in SUBSET (Batches \X Batches)
    BY <2>1, OrderKept
  <2>6. disturbed' \in SUBSET Projects
    <3>1. Named(batch[b].file) \subseteq Projects /\ Twice(batch[b].file) \subseteq Projects
      BY <1>1, NamedTyped DEF Twice
    <3>2. Overtaken(b) \subseteq Projects /\ disturbed \subseteq Projects
      BY <1>1, <3>1 DEF Overtaken, TypesInv
    <3>3. QED
      BY <2>1, <3>1, <3>2
  <2>7. /\ confirming' \in [Batches -> 0 .. MaxConfirms]
        /\ \A c \in Batches \ {b} : confirming'[c] = confirming[c]
    BY <1>1 DEF TypesInv
  <2>8. TypesInv'
    BY <1>1, <2>3, <2>4, <2>5, <2>6, <2>7 DEF TypesInv, BatchRecord
  <2>9. \A c \in Existing : c \in Batches /\ batch'[c].file \in Files
    BY <2>4 DEF ImportInv, ExistingInv, Existing
  <2>10. ExistingInv'
    <3>1. \A c \in Existing : task'[c].status = "RETRY" => task'[c].tries < MaxTries
      BY <1>1, <2>9, TasksExist
    <3>2. QED
      BY <1>1, <2>4, <2>7, <2>9, <3>1, NoneCreated
  <2>11. ImportedInv'
    <3>1. ASSUME NEW c \in Existing', NEW d \in Existing',
                 batch'[c].status = "IMPORTED", batch'[d].status = "IMPORTED",
                 batch'[c].file = batch'[d].file
          PROVE  c = d
      <4>1. c \in Existing /\ d \in Existing /\ c \in Batches /\ d \in Batches
        BY <2>4, <2>9
      <4>2. batch[c].file = batch[d].file
        BY <2>4, <3>1, <4>1
      <4>3. CASE c = b \/ d = b
        BY <2>2, <2>4, <3>1, <4>1, <4>2, <4>3
      <4>4. CASE c # b /\ d # b
        BY <2>4, <3>1, <4>1, <4>2, <4>4 DEF ImportInv, ImportedInv
      <4>5. QED
        BY <4>3, <4>4
    <3>2. QED
      BY <3>1, Zenon DEF ImportedInv
  <2>12. QED
    BY <2>5, <2>8, <2>10, <2>11 DEF ImportInv
<1>4. QED
  BY <1>2, <1>3

\* A roll back begins, ends, or takes the rows back.
LEMMA UndoingKept ==
  ASSUME ImportInv, NEW b \in Existing, NEW st \in BatchStatus \ {"none"}, NEW u \in BOOLEAN,
         batch' = [batch EXCEPT ![b] = [file |-> batch[b].file, undoing |-> u, status |-> st]],
         st = "IMPORTED" => batch[b].status = "IMPORTED",
         rows' \in [Batches -> Seq(Row)], project' \in [Projects -> Value], risk' \in [Projects -> Nat],
         UNCHANGED <<task, attempt, stored, order, confirming, disturbed>>
  PROVE  ImportInv'
<1>1. /\ batch' \in [Batches -> BatchRecord] /\ Existing' = Existing
      /\ \A c \in Batches : batch'[c].file = batch[c].file
      /\ batch'[b].status = st
      /\ \A c \in Batches \ {b} : batch'[c] = batch[c]
  BY BatchMoved DEF ImportInv
<1>2. TypesInv'
  BY <1>1 DEF ImportInv, TypesInv, BatchRecord
<1>3. \A c \in Existing : c \in Batches /\ batch'[c].file \in Files
  BY <1>1 DEF ImportInv, ExistingInv, Existing
<1>4. ExistingInv'
  <2>1. \A c \in Existing : task'[c].status = "RETRY" => task'[c].tries < MaxTries
    BY <1>3, TasksExist
  <2>2. QED
    BY <1>1, <1>3, <2>1, NoneCreated
<1>5. OrderInv' /\ ImportedInv'
  <2>1. \A c \in Existing : batch'[c].status = "IMPORTED" => batch[c].status = "IMPORTED"
    BY <1>1, <1>3
  <2>2. QED
    BY <1>1, <2>1, SameBatches DEF ImportInv, OrderInv
<1>6. QED
  BY <1>2, <1>4, <1>5 DEF ImportInv

LEMMA RollbackCheckKept ==
  ASSUME ImportInv, NEW b \in Batches, RollbackCheck(b)
  PROVE  ImportInv'
<1>1. /\ b \in Existing /\ batch[b].status \in BatchStatus \ {"none"} /\ TypesInv
      /\ batch' = [batch EXCEPT ![b].undoing = TRUE]
      /\ UNCHANGED <<rows, task, attempt, stored, order, confirming, project, risk, disturbed>>
  BY TasksExist DEF RollbackCheck, BatchStatus, ImportInv
<1>2. batch' = [batch EXCEPT ![b] = [file |-> batch[b].file, undoing |-> TRUE, status |-> batch[b].status]]
  BY <1>1, UndoingWritten
<1>3. rows' \in [Batches -> Seq(Row)] /\ project' \in [Projects -> Value] /\ risk' \in [Projects -> Nat]
  BY <1>1 DEF TypesInv
<1>4. QED
  BY <1>1, <1>2, <1>3, UndoingKept

LEMMA RollbackKept ==
  ASSUME ImportInv, NEW b \in Batches, Rollback(b)
  PROVE  ImportInv'
<1>1. /\ b \in Existing /\ TypesInv /\ batch[b].status \in BatchStatus \ {"none"}
      /\ UNCHANGED <<task, attempt, stored, order, confirming, disturbed>>
  <2>1. b \in Existing
    BY TasksExist DEF Rollback
  <2>2. QED
    BY <2>1 DEF Rollback, ImportInv, TypesInv, Existing
<1>2. CASE Gone(b) \/ Collides(b)
  <2>1. batch' = [batch EXCEPT ![b].undoing = FALSE] /\ UNCHANGED <<rows, project, risk>>
    BY <1>2 DEF Rollback
  <2>2. batch' = [batch EXCEPT ![b] = [file |-> batch[b].file, undoing |-> FALSE, status |-> batch[b].status]]
    BY <1>1, <2>1, UndoingWritten
  <2>3. rows' \in [Batches -> Seq(Row)] /\ project' \in [Projects -> Value] /\ risk' \in [Projects -> Nat]
    BY <1>1, <2>1 DEF TypesInv
  <2>4. QED
    BY <1>1, <2>2, <2>3, UndoingKept
<1>3. CASE ~(Gone(b) \/ Collides(b))
  <2>1. /\ batch' = [batch EXCEPT ![b].undoing = FALSE, ![b].status = "ROLLED_BACK"]
        /\ rows' = [rows EXCEPT ![b] = Restored(b).rows]
        /\ project' = Restored(b).project /\ risk' = Restored(b).risk
    BY <1>3 DEF Rollback
  <2>2. batch' = [batch EXCEPT ![b] = [file |-> batch[b].file, undoing |-> FALSE, status |-> "ROLLED_BACK"]]
    <3> DEFINE u == FALSE
    <3>1. batch' = [batch EXCEPT ![b].undoing = u, ![b].status = "ROLLED_BACK"]
      BY <2>1
    <3> HIDE DEF u
    <3>2. batch' = [batch EXCEPT ![b] = [file |-> batch[b].file, undoing |-> u, status |-> "ROLLED_BACK"]]
      BY <1>1, <3>1, RolledBackWritten
    <3>3. QED
      BY <3>2 DEF u
  <2>3. rows' \in [Batches -> Seq(Row)] /\ project' \in [Projects -> Value] /\ risk' \in [Projects -> Nat]
    <3>1. Restored(b) \in Work(Len(rows[b]))
      BY <1>1, RestoredTyped
    <3>2. QED
      BY <1>1, <2>1, <3>1, WorkWritten
  <2>4. "ROLLED_BACK" \in BatchStatus \ {"none"} /\ "ROLLED_BACK" # "IMPORTED"
    BY DEF BatchStatus
  <2>5. QED
    BY <1>1, <2>2, <2>3, <2>4, UndoingKept
<1>4. QED
  BY <1>2, <1>3

\* The disk may forget sources, and what the invariant does not speak of may change.
LEMMA ForgettingKept ==
  ASSUME ImportInv, stored' \subseteq stored,
         UNCHANGED <<batch, rows, task, attempt, order, confirming, project, risk, disturbed>>
  PROVE  ImportInv'
<1>1. TypesInv'
  BY DEF ImportInv, TypesInv
<1>2. Existing' = Existing /\ \A c \in Existing : batch'[c].file \in Files /\ c \in Batches
  BY DEF ImportInv, ExistingInv, Existing
<1>3. ExistingInv'
  <2>1. \A c \in Existing : task'[c].status = "RETRY" => task'[c].tries < MaxTries
    BY <1>2, TasksExist
  <2>2. QED
    BY <1>2, <2>1, NoneCreated
<1>4. OrderInv' /\ ImportedInv'
  BY <1>2, SameBatches DEF ImportInv, OrderInv
<1>5. QED
  BY <1>1, <1>3, <1>4 DEF ImportInv

LEMMA NextKept == ImportInv /\ [Next]_vars => ImportInv'
<1> SUFFICES ASSUME ImportInv, [Next]_vars PROVE ImportInv'
  OBVIOUS
<1>1. ASSUME NEW f \in Files, NEW reply \in BOOLEAN, Upload(f, reply) PROVE ImportInv'
  BY <1>1, UploadKept
<1>2. ASSUME NEW b \in Batches,
             \/ Claim(b)
             \/ \E dies \in BOOLEAN : LoseLease(b, dies)
             \/ \E n \in Tries : Fail(b, n) \/ Store(b, n)
             \/ ConfirmRead(b)
             \/ \E acknowledged \in BOOLEAN : Confirm(b, acknowledged)
             \/ RollbackCheck(b)
             \/ Rollback(b)
      PROVE  ImportInv'
  BY <1>2, ClaimKept, LoseLeaseKept, FailKept, StoreKept, ConfirmReadKept, ConfirmKept,
     RollbackCheckKept, RollbackKept
<1>3. CASE UNCHANGED vars
  <2>1. /\ stored' \subseteq stored
        /\ UNCHANGED <<batch, rows, task, attempt, order, confirming, project, risk, disturbed>>
    BY <1>3 DEF vars
  <2>2. QED
    BY <2>1, ForgettingKept
<1>4. QED
  BY <1>1, <1>2, <1>3 DEF Next
-----------------------------------------------------------------------------
(* What follows.                                                           *)

LEMMA ImportInvTypes == ImportInv => TypeOK
<1> SUFFICES ASSUME ImportInv PROVE TypeOK
  OBVIOUS
<1>1. \A b \in Batches : \A i \in DOMAIN rows[b] :
         rows[b][i].status \in {"READY", "WARNING", "ERROR", "IMPORTED", "ROLLED_BACK"}
  <2>1. ASSUME NEW b \in Batches, NEW i \in DOMAIN rows[b] PROVE rows[b][i] \in Row
    <3>1. rows[b] \in Seq(Row)
      BY DEF ImportInv, TypesInv
    <3>2. i \in 1 .. Len(rows[b])
      BY <3>1, LenProperties
    <3>3. QED
      BY <3>1, <3>2, ElementOfSeq
  <2>2. QED
    BY <2>1 DEF Row, RowStatus, Grade
<1>2. stored \subseteq Existing
  BY DEF ImportInv, ExistingInv
<1>3. QED
  BY <1>1, <1>2 DEF ImportInv, TypesInv, OrderInv, TypeOK, BatchStatus

LEMMA ImportInvOne == ImportInv => OneImportPerFile
<1> SUFFICES ASSUME ImportInv, NEW f \in Files
             PROVE  Cardinality({b \in Of(f) : batch[b].status = "IMPORTED"}) <= 1
  BY DEF OneImportPerFile
<1> DEFINE I == {b \in Of(f) : batch[b].status = "IMPORTED"}
<1>1. ASSUME NEW b \in I, NEW c \in I PROVE b = c
  <2>1. /\ b \in Existing /\ batch[b].file = f /\ batch[b].status = "IMPORTED"
        /\ c \in Existing /\ batch[c].file = f /\ batch[c].status = "IMPORTED"
    BY DEF Of
  <2>2. QED
    BY <2>1 DEF ImportInv, ImportedInv
<1>2. CASE I = {}
  <2>1. Cardinality(I) = 0
    <3> HIDE DEF I
    <3> QED BY <1>2, FS_EmptySet
  <2>2. QED
    BY <2>1
<1>3. CASE I # {}
  <2>1. PICK b \in I : I = {b}
    BY <1>1, <1>3
  <2>2. Cardinality(I) = 1
    <3> HIDE DEF I
    <3> QED BY <2>1, FS_Singleton
  <2>3. QED
    BY <2>2
<1>4. QED
  BY <1>2, <1>3

\* Every variable of the import, the rows and the order of confirmation included, holds
\* what its table can hold (imports/models.py), for any workbooks and bounds.
THEOREM ImportTypes == Spec => []TypeOK
<1>1. Init => ImportInv
  BY InitHolds
<1>2. ImportInv /\ [Next]_vars => ImportInv'
  BY NextKept
<1>3. QED
  BY <1>1, <1>2, ImportInvTypes, PTL DEF Spec

\* A workbook is imported at most once at a time (duplicate_policy.py and confirm in
\* commit_service.py), though confirmations decide on a status read before their locks.
THEOREM ImportedOnce == Spec => []OneImportPerFile
<1>1. Init => ImportInv
  BY InitHolds
<1>2. ImportInv /\ [Next]_vars => ImportInv'
  BY NextKept
<1>3. QED
  BY <1>1, <1>2, ImportInvOne, PTL DEF Spec

-----------------------------------------------------------------------------
(* Retention, backup and restore.                                           *)

LEMMA BoundsAreNat ==
  /\ MaxBatch \in Nat \ {0} /\ MaxTries \in Nat \ {0} /\ MaxConfirms \in Nat
  /\ MaxTime \in Nat /\ SourceKeep \in Nat /\ RollbackKeep \in Nat /\ MaxHolds \in Nat
  /\ MaxCrashes \in Nat /\ MaxBackups \in Nat /\ BackupTime \in Nat /\ MaxFaults \in Nat
  BY BoundsAssumption, RetentionAssumption, BackupAssumption

USE BoundsAreNat

KeyStatus == {"none", "source", "deleted", "complete"}
HoldRecord == [status : {"none", "ACTIVE", "RELEASED", "EXPIRED"}, until : 0 .. MaxTime]
CleanerRecord == [phase : {"idle", "unlinked", "tombstoned", "swept"},
                  batch : 0 .. MaxBatch, asOf : 0 .. MaxTime]

KeepTypes ==
    /\ now \in 0 .. MaxTime
    /\ key \in [Batches -> KeyStatus]
    /\ litter \in [Batches -> SUBSET {"dir", "marker"}]
    /\ expires \in [Batches -> Nat] /\ protected \in [Batches -> Nat]
    /\ hold \in [Batches -> HoldRecord]
    /\ holds \in [Batches -> Nat]
    /\ cleaner \in CleanerRecord
    /\ answered \in SUBSET Existing

\* Where the cleanup of a batch stands, and what it has left behind it.
CleanerInv ==
    /\ cleaner.phase # "idle" => cleaner.batch \in Existing
    /\ cleaner.phase = "unlinked" =>
         /\ cleaner.batch \notin stored /\ "marker" \in litter[cleaner.batch]
    /\ cleaner.phase = "tombstoned" => key[cleaner.batch] = "deleted"
    /\ cleaner.phase = "swept" => key[cleaner.batch] = "deleted" /\ litter[cleaner.batch] = {}

\* The keys of all batches, answered or not.
KeyInv ==
    /\ \A b \in Batches : key[b] = "none" <=> b \notin Existing
    /\ \A b \in Existing : key[b] \in {"deleted", "complete"} => b \notin stored
    /\ \A b \in Existing : key[b] = "complete" => litter[b] = {}
    /\ \A b \in answered : key[b] = "source" => b \in stored \/ "marker" \in litter[b]

KeepInv == ImportInv /\ KeepTypes /\ CleanerInv /\ KeyInv /\ PreviewHasSource
-----------------------------------------------------------------------------
(* What the steps of the import mean for the retention.                    *)

\* A batch that exists still does when it is written.
LEMMA ExistingWritten ==
  ASSUME TypesInv, NEW b \in Existing, NEW st \in BatchStatus \ {"none"}, NEW u \in BOOLEAN,
         \/ batch' = [batch EXCEPT ![b].status = st]
         \/ batch' = [batch EXCEPT ![b].undoing = u]
         \/ batch' = [batch EXCEPT ![b].undoing = u, ![b].status = "ROLLED_BACK"]
  PROVE  Existing' = Existing
<1>1. batch[b].undoing \in BOOLEAN /\ batch[b].status \in BatchStatus \ {"none"}
  BY DEF TypesInv, Existing
<1>2. CASE batch' = [batch EXCEPT ![b].status = st]
  <2>1. batch' = [batch EXCEPT ![b] = [file |-> batch[b].file, undoing |-> batch[b].undoing, status |-> st]]
    BY <1>2, StatusWritten
  <2>2. QED
    BY <1>1, <2>1, BatchMoved
<1>3. CASE batch' = [batch EXCEPT ![b].undoing = u]
  <2>1. batch' = [batch EXCEPT ![b] = [file |-> batch[b].file, undoing |-> u, status |-> batch[b].status]]
    BY <1>3, UndoingWritten
  <2>2. QED
    BY <1>1, <2>1, BatchMoved
<1>4. CASE batch' = [batch EXCEPT ![b].undoing = u, ![b].status = "ROLLED_BACK"]
  <2>1. batch' = [batch EXCEPT ![b] = [file |-> batch[b].file, undoing |-> u, status |-> "ROLLED_BACK"]]
    BY <1>4, RolledBackWritten
  <2>2. "ROLLED_BACK" \in BatchStatus \ {"none"}
    BY DEF BatchStatus
  <2>3. QED
    BY <2>1, <2>2, BatchMoved
<1>5. QED
  BY <1>2, <1>3, <1>4

\* They create no batch and forget none, and a preview that has ended stays so.
LEMMA ImportStepMoves ==
  ASSUME ImportInv, NEW b \in Batches,
         \/ Claim(b)
         \/ \E dies \in BOOLEAN : LoseLease(b, dies)
         \/ \E n \in Tries : Fail(b, n) \/ Store(b, n)
         \/ ConfirmRead(b)
         \/ \E acknowledged \in BOOLEAN : Confirm(b, acknowledged)
         \/ RollbackCheck(b)
         \/ Rollback(b)
  PROVE  /\ Existing' = Existing /\ stored' = stored
         /\ \A c \in Batches : task'[c].status \in Live => task[c].status \in Live
<1>1. /\ task \in [Batches -> TaskRecord] /\ batch \in [Batches -> BatchRecord]
  BY DEF ImportInv, TypesInv, TaskRecord, BatchRecord
<1>2. CASE Claim(b)
  <2>1. Existing' = Existing /\ stored' = stored
    BY <1>2 DEF Claim, Existing
  <2>2. task[b].status = "RETRY" /\ \A c \in Batches \ {b} : task'[c] = task[c]
    BY <1>1, <1>2 DEF Claim
  <2>3. QED
    BY <2>1, <2>2 DEF Live
<1>3. ASSUME NEW dies \in BOOLEAN, LoseLease(b, dies)
      PROVE  /\ Existing' = Existing /\ stored' = stored
             /\ \A c \in Batches : task'[c].status \in Live => task[c].status \in Live
  <2>1. Existing' = Existing /\ stored' = stored
    BY <1>3 DEF LoseLease, Existing
  <2>2. task[b].status = "RUNNING" /\ \A c \in Batches \ {b} : task'[c] = task[c]
    BY <1>1, <1>3 DEF LoseLease
  <2>3. QED
    BY <2>1, <2>2 DEF Live
<1>4. ASSUME NEW n \in Tries, NEW st, Finished(b, n, st)
      PROVE  \A c \in Batches : task'[c].status \in Live => task[c].status \in Live
  <2>1. CASE task' = task
    BY <2>1
  <2>2. CASE task' # task
    <3>1. task[b] = [status |-> "RUNNING", tries |-> n] /\ task' = [task EXCEPT ![b].status = st]
      BY <1>4, <2>2 DEF Finished
    <3>2. task[b].status = "RUNNING" /\ \A c \in Batches \ {b} : task'[c] = task[c]
      BY <1>1, <3>1
    <3>3. QED
      BY <3>2 DEF Live
  <2>3. QED
    BY <2>1, <2>2
<1>5. ASSUME NEW n \in Tries, Fail(b, n) \/ Store(b, n)
      PROVE  /\ Existing' = Existing /\ stored' = stored
             /\ \A c \in Batches : task'[c].status \in Live => task[c].status \in Live
  <2>1. b \in Existing
    BY <1>5, TasksExist DEF Fail, Store
  <2>2. PICK st \in {"FAILED", "PREVIEWED"} : batch' = [batch EXCEPT ![b].status = st]
    BY <1>5 DEF Fail, Store
  <2>3. Existing' = Existing /\ stored' = stored
    <3>1. st \in BatchStatus \ {"none"}
      BY DEF BatchStatus
    <3>2. QED
      BY <1>5, <2>1, <2>2, <3>1, ExistingWritten DEF Fail, Store, ImportInv
  <2>4. QED
    BY <1>4, <1>5, <2>3 DEF Fail, Store
<1>6. CASE ConfirmRead(b)
  <2>1. UNCHANGED <<batch, task, stored>>
    BY <1>6 DEF ConfirmRead
  <2>2. QED
    BY <2>1 DEF Existing
<1>7. ASSUME NEW acknowledged \in BOOLEAN, Confirm(b, acknowledged)
      PROVE  /\ Existing' = Existing /\ stored' = stored
             /\ \A c \in Batches : task'[c].status \in Live => task[c].status \in Live
  <2>1. /\ confirming[b] > 0 /\ UNCHANGED <<task, stored>>
        /\ batch' \in {batch, [batch EXCEPT ![b].status = "IMPORTED"]}
    BY <1>7 DEF Confirm
  <2>2. confirming[b] # 0
    BY <2>1 DEF ImportInv, TypesInv
  <2>3. b \in Existing
    BY <2>2, TasksExist
  <2>4. Existing' = Existing
    <3>1. CASE batch' = batch
      BY <3>1 DEF Existing
    <3>2. CASE batch' = [batch EXCEPT ![b].status = "IMPORTED"]
      <4>1. "IMPORTED" \in BatchStatus \ {"none"} /\ TypesInv
        BY DEF BatchStatus, ImportInv
      <4>2. QED
        BY <2>3, <3>2, <4>1, ExistingWritten
    <3>3. QED
      BY <2>1, <3>1, <3>2
  <2>5. QED
    BY <2>1, <2>4
<1>8. CASE RollbackCheck(b) \/ Rollback(b)
  <2>1. UNCHANGED <<task, stored>>
    BY <1>8 DEF RollbackCheck, Rollback
  <2>2. b \in Existing
    BY <1>8, TasksExist DEF RollbackCheck, Rollback
  <2>3. PICK u \in BOOLEAN : \/ batch' = [batch EXCEPT ![b].undoing = u]
                             \/ batch' = [batch EXCEPT ![b].undoing = u, ![b].status = "ROLLED_BACK"]
    <3>1. CASE RollbackCheck(b)
      BY <3>1 DEF RollbackCheck
    <3>2. CASE Rollback(b)
      BY <3>2 DEF Rollback
    <3>3. QED
      BY <1>8, <3>1, <3>2
  <2>4. "IMPORTED" \in BatchStatus \ {"none"} /\ TypesInv
    BY DEF BatchStatus, ImportInv
  <2>5. Existing' = Existing
    BY <2>2, <2>3, <2>4, ExistingWritten
  <2>6. QED
    BY <2>1, <2>5
<1>9. QED
  BY <1>2, <1>3, <1>5, <1>6, <1>7, <1>8

\* A step that leaves disk, keys and cleanup as they are.
LEMMA Untouched ==
  ASSUME KeepInv, ImportInv', Existing' = Existing, stored' = stored,
         \A c \in Batches : task'[c].status \in Live => task[c].status \in Live,
         UNCHANGED <<key, litter, cleaner, answered>>,
         now' \in 0 .. MaxTime, expires' \in [Batches -> Nat], protected' \in [Batches -> Nat],
         hold' \in [Batches -> HoldRecord], holds' \in [Batches -> Nat]
  PROVE  KeepInv'
<1>1. KeepTypes'
  BY DEF KeepInv, KeepTypes
<1>2. CleanerInv' /\ KeyInv'
  BY DEF KeepInv, CleanerInv, KeyInv
<1>3. PreviewHasSource'
  <2>1. \A b \in answered : b \in Batches
    BY DEF KeepInv, KeepTypes, Existing
  <2>2. QED
    BY <2>1 DEF KeepInv, PreviewHasSource
<1>4. QED
  BY <1>1, <1>2, <1>3 DEF KeepInv

LEMMA KeepInit == RetentionInit => KeepInv
<1> SUFFICES ASSUME RetentionInit PROVE KeepInv
  OBVIOUS
<1>1. ImportInv
  BY InitHolds DEF RetentionInit
<1>2. Existing = {}
  BY DEF RetentionInit, Init, Existing, NoBatch
<1>3. KeepTypes
  <2>1. /\ now \in 0 .. MaxTime /\ key \in [Batches -> KeyStatus]
        /\ litter \in [Batches -> SUBSET {"dir", "marker"}]
        /\ expires \in [Batches -> Nat] /\ protected \in [Batches -> Nat]
        /\ holds \in [Batches -> Nat] /\ answered \in SUBSET Existing
    BY DEF RetentionInit, KeyStatus
  <2>2. hold \in [Batches -> HoldRecord]
    BY DEF RetentionInit, NoHold, HoldRecord
  <2>3. cleaner \in CleanerRecord
    BY DEF RetentionInit, Idle, CleanerRecord
  <2>4. QED
    BY <2>1, <2>2, <2>3 DEF KeepTypes
<1>4. CleanerInv
  <2>1. cleaner.phase = "idle"
    BY DEF RetentionInit, Idle
  <2>2. QED
    BY <2>1 DEF CleanerInv
<1>5. KeyInv /\ PreviewHasSource
  BY <1>2 DEF RetentionInit, KeyInv, PreviewHasSource
<1>6. QED
  BY <1>1, <1>3, <1>4, <1>5 DEF KeepInv

LEMMA KeptKept ==
  ASSUME KeepInv, NEW f \in Files, NEW ok \in BOOLEAN, Kept(f, ok)
  PROVE  KeepInv'
<1> DEFINE b == Cardinality(Existing) + 1
<1>1. ImportInv /\ Upload(f, ok)
  BY DEF KeepInv, Kept
<1>2. ImportInv'
  BY <1>1, UploadKept
<1>3. b \in Batches /\ b \notin Existing
  <2>1. PICK n \in 0 .. MaxBatch : Existing = 1 .. n
    BY <1>1 DEF ImportInv, ExistingInv
  <2>2. Cardinality(Existing) = n
    BY <2>1, FS_Interval
  <2>3. b \in Batches
    BY <1>1 DEF Upload
  <2>4. QED
    BY <2>1, <2>2, <2>3
<1>4. /\ batch' = [batch EXCEPT ![b].file = f, ![b].status = "PROCESSING"]
      /\ task' = [task EXCEPT ![b].status = "RETRY"]
      /\ stored' = (IF ok THEN stored \union {b} ELSE stored)
  BY <1>1 DEF Upload
<1>5. /\ key' = [key EXCEPT ![b] = "source"]
      /\ litter' = [litter EXCEPT ![b] = IF ok THEN {"dir"} ELSE {}]
      /\ expires' = [expires EXCEPT ![b] = now + SourceKeep]
      /\ answered' = (IF ok THEN answered \union {b} ELSE answered)
      /\ UNCHANGED <<now, protected, hold, holds, cleaner>>
  BY DEF Kept
<1> HIDE DEF b
<1>6. Existing' = Existing \union {b}
  <2>1. batch \in [Batches -> BatchRecord]
    BY <1>1 DEF ImportInv, TypesInv, BatchRecord
  <2>2. \A c \in Batches : batch'[c].status # "none" <=> c = b \/ batch[c].status # "none"
    BY <1>3, <1>4, <2>1
  <2>3. QED
    BY <1>3, <2>2 DEF Existing
<1>7. KeepTypes /\ CleanerInv /\ KeyInv /\ PreviewHasSource
  BY DEF KeepInv
<1>8. Existing \subseteq Batches /\ answered \subseteq Existing
  BY <1>7 DEF Existing, KeepTypes
<1>9. KeepTypes'
  <2>1. key' \in [Batches -> KeyStatus] /\ litter' \in [Batches -> SUBSET {"dir", "marker"}]
    <3>1. "source" \in KeyStatus /\ (IF ok THEN {"dir"} ELSE {}) \in SUBSET {"dir", "marker"}
      BY DEF KeyStatus
    <3>2. key \in [Batches -> KeyStatus] /\ litter \in [Batches -> SUBSET {"dir", "marker"}]
      BY <1>7 DEF KeepTypes
    <3>3. QED
      BY <1>5, <3>1, <3>2
  <2>2. expires' \in [Batches -> Nat]
    <3>1. now + SourceKeep \in Nat /\ expires \in [Batches -> Nat]
      BY <1>7 DEF KeepTypes
    <3>2. QED
      BY <1>5, <3>1
  <2>3. answered' \in SUBSET Existing'
    BY <1>5, <1>6, <1>8
  <2>4. QED
    BY <1>5, <1>7, <2>1, <2>2, <2>3 DEF KeepTypes
<1>10. /\ key'[b] = "source" /\ (ok => b \in stored')
       /\ \A c \in Batches \ {b} : key'[c] = key[c] /\ litter'[c] = litter[c] /\ task'[c] = task[c]
       /\ \A c \in Existing : c # b /\ (c \in stored' <=> c \in stored)
  <2>1. task \in [Batches -> TaskRecord]
    BY <1>1 DEF ImportInv, TypesInv, TaskRecord
  <2>2. QED
    BY <1>3, <1>4, <1>5, <1>7, <2>1 DEF KeepTypes
<1>11. CleanerInv'
  <2>1. cleaner.phase # "idle" => cleaner.batch \in Existing
    BY <1>7 DEF CleanerInv
  <2>2. QED
    BY <1>5, <1>6, <1>7, <1>8, <1>10, <2>1 DEF CleanerInv
<1>12. KeyInv'
  <2>1. \A c \in Batches : key'[c] = "none" <=> c \notin Existing'
    BY <1>6, <1>7, <1>10 DEF KeyInv
  <2>2. ASSUME NEW c \in Existing'
        PROVE  /\ key'[c] \in {"deleted", "complete"} => c \notin stored'
               /\ key'[c] = "complete" => litter'[c] = {}
    <3>1. CASE c = b
      BY <1>10, <3>1
    <3>2. CASE c # b
      <4>1. c \in Existing /\ c \in Batches
        BY <1>6, <1>8, <3>2
      <4>2. QED
        BY <1>7, <1>10, <3>2, <4>1 DEF KeyInv
    <3>3. QED
      BY <3>1, <3>2
  <2>3. ASSUME NEW c \in answered', key'[c] = "source"
        PROVE  c \in stored' \/ "marker" \in litter'[c]
    <3>1. CASE c = b
      <4>1. ok
        BY <1>3, <1>5, <1>8, <2>3, <3>1
      <4>2. QED
        BY <1>10, <3>1, <4>1
    <3>2. CASE c # b
      <4>1. c \in answered /\ c \in Existing /\ c \in Batches
        BY <1>5, <1>8, <3>2
      <4>2. QED
        BY <1>7, <1>10, <2>3, <3>2, <4>1 DEF KeyInv
    <3>3. QED
      BY <3>1, <3>2
  <2>4. QED
    BY <2>1, <2>2, <2>3 DEF KeyInv
<1>13. PreviewHasSource'
  <2>1. ASSUME NEW c \in answered', task'[c].status \in Live PROVE c \in stored'
    <3>1. CASE c = b
      <4>1. ok
        BY <1>3, <1>5, <1>8, <3>1
      <4>2. QED
        BY <1>10, <3>1, <4>1
    <3>2. CASE c # b
      <4>1. c \in answered /\ c \in Existing /\ c \in Batches
        BY <1>5, <1>8, <3>2
      <4>2. QED
        BY <1>7, <1>10, <2>1, <3>2, <4>1 DEF PreviewHasSource
    <3>3. QED
      BY <3>1, <3>2
  <2>2. QED
    BY <2>1 DEF PreviewHasSource
<1>14. QED
  BY <1>2, <1>9, <1>11, <1>12, <1>13 DEF KeepInv

LEMMA ProtectKept ==
  ASSUME KeepInv, NEW b \in Batches, NEW ok \in BOOLEAN, Protect(b, ok)
  PROVE  KeepInv'
<1>1. ImportInv /\ Confirm(b, ok) /\ UNCHANGED <<now, key, litter, expires, hold, holds, cleaner, answered>>
  BY DEF KeepInv, Protect
<1>2. ImportInv'
  BY <1>1, ConfirmKept
<1>3. /\ Existing' = Existing /\ stored' = stored
      /\ \A c \in Batches : task'[c].status \in Live => task[c].status \in Live
  BY <1>1, ImportStepMoves
<1>4. protected' \in [Batches -> Nat]
  BY DEF KeepInv, KeepTypes, Protect
<1>5. QED
  BY <1>1, <1>2, <1>3, <1>4, Untouched DEF KeepInv, KeepTypes

LEMMA UnprotectKept ==
  ASSUME KeepInv, NEW b \in Batches, Unprotect(b)
  PROVE  KeepInv'
<1>1. ImportInv /\ Rollback(b) /\ UNCHANGED <<now, key, litter, expires, hold, holds, cleaner, answered>>
  BY DEF KeepInv, Unprotect
<1>2. ImportInv'
  BY <1>1, RollbackKept
<1>3. /\ Existing' = Existing /\ stored' = stored
      /\ \A c \in Batches : task'[c].status \in Live => task[c].status \in Live
  BY <1>1, ImportStepMoves
<1>4. protected' \in [Batches -> Nat]
  BY DEF KeepInv, KeepTypes, Unprotect
<1>5. QED
  BY <1>1, <1>2, <1>3, <1>4, Untouched DEF KeepInv, KeepTypes

LEMMA ImportStepKept ==
  ASSUME KeepInv, NEW b \in Batches, ImportStep(b)
  PROVE  KeepInv'
<1>1. /\ ImportInv /\ UNCHANGED <<now, key, litter, expires, protected, hold, holds, cleaner, answered>>
      /\ \/ Claim(b)
         \/ \E dies \in BOOLEAN : LoseLease(b, dies)
         \/ \E n \in Tries : Fail(b, n) \/ Store(b, n)
         \/ ConfirmRead(b)
         \/ RollbackCheck(b)
  BY DEF KeepInv, ImportStep, keeping
<1>2. ImportInv'
  BY <1>1, ClaimKept, LoseLeaseKept, FailKept, StoreKept, ConfirmReadKept, RollbackCheckKept
<1>3. /\ Existing' = Existing /\ stored' = stored
      /\ \A c \in Batches : task'[c].status \in Live => task[c].status \in Live
  BY <1>1, ImportStepMoves
<1>4. QED
  BY <1>1, <1>2, <1>3, Untouched DEF KeepInv, KeepTypes
-----------------------------------------------------------------------------
(* Holds, the clock and the cleanup.                                       *)

LEMMA HoldWritten ==
  ASSUME KeepTypes, NEW b \in Batches, NEW st \in {"ACTIVE", "RELEASED", "EXPIRED"}
  PROVE  [hold EXCEPT ![b].status = st] \in [Batches -> HoldRecord]
<1>1. hold \in [Batches -> HoldRecord] /\ hold[b] \in HoldRecord
  BY DEF KeepTypes
<1>2. [hold[b] EXCEPT !.status = st] \in HoldRecord
  BY <1>1 DEF HoldRecord
<1>3. QED
  BY <1>1, <1>2

\* A step of the holds or of the clock.
LEMMA HoldKept ==
  ASSUME KeepInv, NEW b \in Batches, NEW until \in 0 .. MaxTime, NEW t,
         CreateHold(b, until) \/ ReleaseHold(b) \/ Skip(b, t) \/ Tick
  PROVE  KeepInv'
<1>1. KeepTypes /\ ImportInv
  BY DEF KeepInv
<1>2. UNCHANGED vars /\ UNCHANGED <<key, litter, expires, protected, cleaner, answered>>
  BY DEF CreateHold, ReleaseHold, Skip, Tick, keeping
<1>3. UNCHANGED <<batch, rows, task, attempt, stored, order, confirming, project, risk, disturbed>>
  BY <1>2 DEF vars
<1>4. ImportInv' /\ Existing' = Existing
  BY <1>1, <1>3, ForgettingKept DEF Existing
<1>5. now' \in 0 .. MaxTime /\ holds' \in [Batches -> Nat]
  BY <1>1 DEF KeepTypes, CreateHold, ReleaseHold, Skip, Tick, keeping
<1>6. hold' \in [Batches -> HoldRecord]
  <2>1. CASE CreateHold(b, until)
    <3>1. [status |-> "ACTIVE", until |-> until] \in HoldRecord
      BY DEF HoldRecord
    <3>2. QED
      BY <1>1, <2>1, <3>1 DEF CreateHold, KeepTypes
  <2>2. CASE ReleaseHold(b)
    <3>1. PICK st \in {"RELEASED", "EXPIRED"} : hold' = [hold EXCEPT ![b].status = st]
      BY <2>2 DEF ReleaseHold
    <3>2. QED
      BY <1>1, <3>1, HoldWritten
  <2>3. CASE Skip(b, t)
    BY <1>1, <2>3, HoldWritten DEF Skip
  <2>4. CASE Tick
    BY <1>1, <2>4 DEF Tick, keeping, KeepTypes
  <2>5. QED
    BY <2>1, <2>2, <2>3, <2>4
<1>7. \A c \in Batches : task'[c].status \in Live => task[c].status \in Live
  BY <1>3
<1>8. expires' \in [Batches -> Nat] /\ protected' \in [Batches -> Nat]
  BY <1>1, <1>2 DEF KeepTypes
<1>9. QED
  BY <1>2, <1>3, <1>4, <1>5, <1>6, <1>7, <1>8, Untouched

\* The cleanup takes a batch whose preview has ended: nobody will look for its source.
LEMMA DeleteKept ==
  ASSUME KeepInv, NEW b \in Batches, NEW t \in 0 .. MaxTime, Delete(b, t)
  PROVE  KeepInv'
<1>1. ImportInv /\ KeepTypes /\ CleanerInv /\ KeyInv /\ PreviewHasSource
  BY DEF KeepInv
<1>2. /\ b \in Existing /\ key[b] = "source" /\ cleaner = Idle
      /\ stored' = stored \ {b}
      /\ litter' = [litter EXCEPT ![b] = {"dir", "marker"}]
      /\ cleaner' = [phase |-> "unlinked", batch |-> b, asOf |-> t]
      /\ UNCHANGED <<batch, rows, task, attempt, order, confirming, project, risk, disturbed>>
      /\ UNCHANGED <<now, key, expires, protected, hold, holds, answered, crashes>>
  BY DEF Delete, Free
<1>3. task[b].status \notin Live
  BY DEF Delete, Decision
<1>4. ImportInv' /\ Existing' = Existing
  BY <1>1, <1>2, ForgettingKept DEF Existing
<1>5. cleaner' \in CleanerRecord
  <2>1. b \in 0 .. MaxBatch
    BY DEF Batches
  <2>2. QED
    BY <1>2, <2>1 DEF CleanerRecord
<1>6. /\ litter' \in [Batches -> SUBSET {"dir", "marker"}] /\ "marker" \in litter'[b]
      /\ \A c \in Batches \ {b} : litter'[c] = litter[c]
  BY <1>1, <1>2 DEF KeepTypes
<1>7. KeepTypes'
  BY <1>1, <1>2, <1>4, <1>5, <1>6 DEF KeepTypes
<1>8. CleanerInv'
  BY <1>2, <1>4, <1>6 DEF CleanerInv
<1>9. KeyInv'
  <2>1. \A c \in Existing : c \in Batches
    BY DEF Existing
  <2>2. answered \subseteq Existing
    BY <1>1 DEF KeepTypes
  <2>3. QED
    BY <1>1, <1>2, <1>4, <1>6, <2>1, <2>2 DEF KeyInv
<1>10. PreviewHasSource'
  BY <1>1, <1>2, <1>3 DEF PreviewHasSource
<1>11. QED
  BY <1>4, <1>7, <1>8, <1>9, <1>10 DEF KeepInv

LEMMA PhaseWritten ==
  ASSUME KeepTypes, NEW ph \in {"tombstoned", "swept"}
  PROVE  /\ [cleaner EXCEPT !.phase = ph] \in CleanerRecord
         /\ [cleaner EXCEPT !.phase = ph].phase = ph
         /\ [cleaner EXCEPT !.phase = ph].batch = cleaner.batch
<1>1. cleaner \in CleanerRecord
  BY DEF KeepTypes
<1>2. QED
  BY <1>1 DEF CleanerRecord

\* The later commits of the cleanup: they speak of one batch whose source is gone.
LEMMA CommitKept ==
  ASSUME KeepInv, CommitTombstone
  PROVE  KeepInv'
<1> DEFINE b == cleaner.batch
<1>1. ImportInv /\ KeepTypes /\ CleanerInv /\ KeyInv /\ PreviewHasSource
  BY DEF KeepInv
<1>2. /\ cleaner.phase = "unlinked" /\ key' = [key EXCEPT ![b] = "deleted"]
      /\ hold' = (IF Due(b, cleaner.asOf) THEN [hold EXCEPT ![b].status = "EXPIRED"] ELSE hold)
      /\ cleaner' = [cleaner EXCEPT !.phase = "tombstoned"]
      /\ UNCHANGED vars /\ UNCHANGED <<now, litter, expires, protected, holds, answered, crashes>>
  BY DEF CommitTombstone
<1>3. UNCHANGED <<batch, rows, task, attempt, stored, order, confirming, project, risk, disturbed>>
  BY <1>2 DEF vars
<1>4. ImportInv' /\ Existing' = Existing
  BY <1>1, <1>3, ForgettingKept DEF Existing
<1>5. b \in Existing /\ b \notin stored /\ b \in Batches
  BY <1>1, <1>2 DEF CleanerInv, Existing
<1>6. cleaner' \in CleanerRecord /\ cleaner'.phase = "tombstoned" /\ cleaner'.batch = b
  BY <1>1, <1>2, PhaseWritten
<1>7. hold' \in [Batches -> HoldRecord]
  BY <1>1, <1>2, <1>5, HoldWritten DEF KeepTypes
<1>8. /\ key' \in [Batches -> KeyStatus] /\ key'[b] = "deleted"
      /\ \A c \in Batches \ {b} : key'[c] = key[c]
  <2>1. "deleted" \in KeyStatus /\ key \in [Batches -> KeyStatus]
    BY <1>1 DEF KeyStatus, KeepTypes
  <2> HIDE DEF b
  <2>2. QED
    BY <1>2, <1>5, <2>1
<1>9. KeepTypes'
  BY <1>1, <1>2, <1>4, <1>6, <1>7, <1>8 DEF KeepTypes
<1>10. CleanerInv'
  BY <1>4, <1>5, <1>6, <1>8 DEF CleanerInv
<1>11. KeyInv'
  <2>1. \A c \in Existing : c \in Batches
    BY DEF Existing
  <2>2. answered \subseteq Existing
    BY <1>1 DEF KeepTypes
  <2> HIDE DEF b
  <2>3. QED
    BY <1>1, <1>2, <1>3, <1>4, <1>5, <1>8, <2>1, <2>2 DEF KeyInv
<1>12. PreviewHasSource'
  BY <1>1, <1>2, <1>3 DEF PreviewHasSource
<1>13. QED
  BY <1>4, <1>9, <1>10, <1>11, <1>12 DEF KeepInv

LEMMA SweepKept ==
  ASSUME KeepInv, Sweep
  PROVE  KeepInv'
<1> DEFINE b == cleaner.batch
<1>1. ImportInv /\ KeepTypes /\ CleanerInv /\ KeyInv /\ PreviewHasSource
  BY DEF KeepInv
<1>2. /\ cleaner.phase = "tombstoned" /\ litter' = [litter EXCEPT ![b] = {}]
      /\ cleaner' = [cleaner EXCEPT !.phase = "swept"]
      /\ UNCHANGED vars /\ UNCHANGED <<now, key, expires, protected, hold, holds, answered, crashes>>
  BY DEF Sweep
<1>3. UNCHANGED <<batch, rows, task, attempt, stored, order, confirming, project, risk, disturbed>>
  BY <1>2 DEF vars
<1>4. ImportInv' /\ Existing' = Existing
  BY <1>1, <1>3, ForgettingKept DEF Existing
<1>5. b \in Existing /\ key[b] = "deleted" /\ b \in Batches
  BY <1>1, <1>2 DEF CleanerInv, Existing
<1>6. cleaner' \in CleanerRecord /\ cleaner'.phase = "swept" /\ cleaner'.batch = b
  BY <1>1, <1>2, PhaseWritten
<1>7. /\ litter' \in [Batches -> SUBSET {"dir", "marker"}] /\ litter'[b] = {}
      /\ \A c \in Batches \ {b} : litter'[c] = litter[c]
  <2>1. litter \in [Batches -> SUBSET {"dir", "marker"}] /\ {} \in SUBSET {"dir", "marker"}
    BY <1>1 DEF KeepTypes
  <2> HIDE DEF b
  <2>2. QED
    BY <1>2, <1>5, <2>1
<1>8. KeepTypes'
  BY <1>1, <1>2, <1>4, <1>6, <1>7 DEF KeepTypes
<1>9. CleanerInv'
  BY <1>2, <1>4, <1>5, <1>6, <1>7 DEF CleanerInv
<1>10. KeyInv'
  <2>1. \A c \in Existing : c \in Batches
    BY DEF Existing
  <2>2. answered \subseteq Existing
    BY <1>1 DEF KeepTypes
  <2> HIDE DEF b
  <2>3. QED
    BY <1>1, <1>2, <1>3, <1>4, <1>5, <1>7, <2>1, <2>2 DEF KeyInv
<1>11. PreviewHasSource'
  BY <1>1, <1>2, <1>3 DEF PreviewHasSource
<1>12. QED
  BY <1>4, <1>8, <1>9, <1>10, <1>11 DEF KeepInv

\* The deletion of a tombstone's batch is completed, by the task or by the next one.
LEMMA CompleteKept ==
  ASSUME KeepInv, NEW b \in Existing, key[b] \in {"deleted", "complete"},
         litter' \in {litter, [litter EXCEPT ![b] = {}]}, litter'[b] = {},
         key' = [key EXCEPT ![b] = "complete"], cleaner' = Idle,
         UNCHANGED vars, UNCHANGED <<now, expires, protected, hold, holds, answered>>
  PROVE  KeepInv'
<1>1. ImportInv /\ KeepTypes /\ CleanerInv /\ KeyInv /\ PreviewHasSource
  BY DEF KeepInv
<1>2. UNCHANGED <<batch, rows, task, attempt, stored, order, confirming, project, risk, disturbed>>
  BY DEF vars
<1>3. ImportInv' /\ Existing' = Existing
  BY <1>1, <1>2, ForgettingKept DEF Existing
<1>4. b \in Batches /\ b \notin stored
  BY <1>1 DEF KeyInv, Existing
<1>5. /\ key' \in [Batches -> KeyStatus] /\ key'[b] = "complete"
      /\ \A c \in Batches \ {b} : key'[c] = key[c]
  <2>1. "complete" \in KeyStatus /\ key \in [Batches -> KeyStatus]
    BY <1>1 DEF KeyStatus, KeepTypes
  <2>2. QED
    BY <1>4, <2>1
<1>6. /\ litter' \in [Batches -> SUBSET {"dir", "marker"}]
      /\ \A c \in Batches \ {b} : litter'[c] = litter[c]
  <2>1. litter \in [Batches -> SUBSET {"dir", "marker"}] /\ {} \in SUBSET {"dir", "marker"}
    BY <1>1 DEF KeepTypes
  <2>2. QED
    BY <1>4, <2>1
<1>7. cleaner' \in CleanerRecord /\ cleaner'.phase = "idle"
  BY DEF Idle, CleanerRecord
<1>8. KeepTypes'
  BY <1>1, <1>3, <1>5, <1>6, <1>7 DEF KeepTypes
<1>9. CleanerInv'
  BY <1>7 DEF CleanerInv
<1>10. KeyInv'
  <2>1. \A c \in Existing : c \in Batches
    BY DEF Existing
  <2>2. answered \subseteq Existing
    BY <1>1 DEF KeepTypes
  <2>3. QED
    BY <1>1, <1>2, <1>3, <1>4, <1>5, <1>6, <2>1, <2>2 DEF KeyInv
<1>11. PreviewHasSource'
  BY <1>1, <1>2 DEF PreviewHasSource
<1>12. QED
  BY <1>3, <1>8, <1>9, <1>10, <1>11 DEF KeepInv

LEMMA MarkCompleteKept ==
  ASSUME KeepInv, MarkComplete
  PROVE  KeepInv'
<1> DEFINE b == cleaner.batch
<1>1. cleaner.phase = "swept" /\ b \in Existing /\ key[b] = "deleted" /\ litter[b] = {}
  BY DEF KeepInv, CleanerInv, MarkComplete
<1>2. /\ key' = [key EXCEPT ![b] = "complete"] /\ cleaner' = Idle /\ litter' = litter
      /\ UNCHANGED vars /\ UNCHANGED <<now, expires, protected, hold, holds, answered>>
  BY <1>1 DEF MarkComplete
<1> HIDE DEF b
<1>3. QED
  BY <1>1, <1>2, CompleteKept

LEMMA RecoverKept ==
  ASSUME KeepInv, NEW b \in Batches, Recover(b)
  PROVE  KeepInv'
<1>1. /\ b \in Existing /\ key[b] = "deleted" /\ cleaner = Idle
      /\ litter' = [litter EXCEPT ![b] = {}] /\ key' = [key EXCEPT ![b] = "complete"]
      /\ UNCHANGED vars /\ UNCHANGED <<now, expires, protected, hold, holds, cleaner, answered>>
  BY DEF Recover, Free
<1>2. litter'[b] = {}
  BY <1>1 DEF KeepInv, KeepTypes
<1>3. QED
  BY <1>1, <1>2, CompleteKept

\* A cleanup that dies leaves the marker, or what its removal left, and the key it committed.
LEMMA CrashKept ==
  ASSUME KeepInv, NEW left \in {{"dir", "marker"}, {"dir"}}, CrashCleaner(left)
  PROVE  KeepInv'
<1> DEFINE b == cleaner.batch
<1>1. ImportInv /\ KeepTypes /\ CleanerInv /\ KeyInv /\ PreviewHasSource
  BY DEF KeepInv
<1>2. /\ cleaner' = Idle
      /\ litter' = (IF cleaner.phase = "tombstoned" THEN [litter EXCEPT ![b] = left] ELSE litter)
      /\ UNCHANGED vars /\ UNCHANGED <<now, key, expires, protected, hold, holds, answered>>
  BY DEF CrashCleaner
<1>3. UNCHANGED <<batch, rows, task, attempt, stored, order, confirming, project, risk, disturbed>>
  BY <1>2 DEF vars
<1>4. ImportInv' /\ Existing' = Existing
  BY <1>1, <1>3, ForgettingKept DEF Existing
<1>5. /\ litter' \in [Batches -> SUBSET {"dir", "marker"}]
      /\ \A c \in Batches : litter'[c] # litter[c] => key[c] = "deleted"
  <2>1. litter \in [Batches -> SUBSET {"dir", "marker"}] /\ left \in SUBSET {"dir", "marker"}
    BY <1>1 DEF KeepTypes
  <2>2. cleaner.phase = "tombstoned" => key[b] = "deleted"
    BY <1>1 DEF CleanerInv
  <2> HIDE DEF b
  <2>3. QED
    BY <1>2, <2>1, <2>2
<1>6. cleaner' \in CleanerRecord /\ cleaner'.phase = "idle"
  BY <1>2 DEF Idle, CleanerRecord
<1>7. KeepTypes'
  BY <1>1, <1>2, <1>4, <1>5, <1>6 DEF KeepTypes
<1>8. CleanerInv'
  BY <1>6 DEF CleanerInv
<1>9. KeyInv'
  <2>1. \A c \in Existing : c \in Batches
    BY DEF Existing
  <2>2. answered \subseteq Existing
    BY <1>1 DEF KeepTypes
  <2>3. QED
    BY <1>1, <1>2, <1>3, <1>4, <1>5, <2>1, <2>2 DEF KeyInv
<1>10. PreviewHasSource'
  BY <1>1, <1>2, <1>3 DEF PreviewHasSource
<1>11. QED
  BY <1>4, <1>7, <1>8, <1>9, <1>10 DEF KeepInv

LEMMA RetentionKept == KeepInv /\ [RetentionNext]_retentionVars => KeepInv'
<1> SUFFICES ASSUME KeepInv, [RetentionNext]_retentionVars PROVE KeepInv'
  OBVIOUS
<1>1. ASSUME NEW f \in Files, NEW ok \in BOOLEAN, Kept(f, ok) PROVE KeepInv'
  BY <1>1, KeptKept
<1>2. ASSUME NEW b \in Batches,
             \/ \E ok \in BOOLEAN : Protect(b, ok)
             \/ Unprotect(b)
             \/ ImportStep(b)
             \/ \E until \in 0 .. MaxTime : CreateHold(b, until)
             \/ ReleaseHold(b)
      PROVE  KeepInv'
  <2>1. CASE \E ok \in BOOLEAN : Protect(b, ok)
    BY <2>1, ProtectKept
  <2>2. CASE Unprotect(b) \/ ImportStep(b)
    BY <2>2, UnprotectKept, ImportStepKept
  <2>3. CASE ReleaseHold(b) \/ \E until \in 0 .. MaxTime : CreateHold(b, until)
    <3>1. 0 \in 0 .. MaxTime
      OBVIOUS
    <3>2. QED
      BY <2>3, <3>1, HoldKept
  <2>4. QED
    BY <1>2, <2>1, <2>2, <2>3
<1>3. CASE Cleanup
  <2>1. ASSUME NEW b \in Batches, NEW t \in 0 .. MaxTime, Delete(b, t) \/ Skip(b, t) PROVE KeepInv'
    <3>1. 0 \in 0 .. MaxTime
      OBVIOUS
    <3>2. QED
      BY <2>1, <3>1, DeleteKept, HoldKept
  <2>2. QED
    BY <1>3, <2>1, CommitKept, SweepKept, MarkCompleteKept, RecoverKept DEF Cleanup
<1>4. ASSUME NEW left \in {{"dir", "marker"}, {"dir"}}, CrashCleaner(left) PROVE KeepInv'
  BY <1>4, CrashKept
<1>5. CASE Tick
  <2>1. 1 \in Batches /\ 0 \in 0 .. MaxTime
    BY DEF Batches
  <2>2. QED
    BY <1>5, <2>1, HoldKept
<1>6. CASE UNCHANGED retentionVars
  <2>1. /\ UNCHANGED <<batch, rows, task, attempt, stored, order, confirming, project, risk, disturbed>>
        /\ UNCHANGED <<now, key, litter, expires, protected, hold, holds, cleaner, answered>>
    BY <1>6 DEF retentionVars, vars, keeping
  <2>2. ImportInv' /\ Existing' = Existing
    BY <2>1, ForgettingKept DEF KeepInv, Existing
  <2>3. QED
    BY <2>1, <2>2, Untouched DEF KeepInv, KeepTypes
<1>7. QED
  BY <1>1, <1>2, <1>3, <1>4, <1>5, <1>6 DEF RetentionNext

LEMMA KeepInvTypes == KeepInv => RetentionTypeOK
<1> SUFFICES ASSUME KeepInv PROVE RetentionTypeOK
  OBVIOUS
<1>1. TypeOK
  BY ImportInvTypes DEF KeepInv
<1>2. QED
  BY <1>1 DEF KeepInv, KeepTypes, RetentionTypeOK, KeyStatus, HoldRecord, CleanerRecord

LEMMA KeepInvSources == KeepInv => SourcesHold
<1> SUFFICES ASSUME KeepInv PROVE SourcesHold
  OBVIOUS
<1>1. answered \subseteq Existing
  BY DEF KeepInv, KeepTypes
<1>2. KeyTellsTheTruth
  BY <1>1 DEF KeepInv, KeyInv, KeyTellsTheTruth
<1>3. QED
  BY <1>2 DEF KeepInv, SourcesHold

\* What an eligible batch is at a time that has passed, it is now.
LEMMA EligibleNow ==
  ASSUME KeepTypes, NEW b \in Batches, NEW t \in 0 .. MaxTime, t <= now, Decision(b, t) = "ELIGIBLE"
  PROVE  ~Held(b, now) /\ now >= protected[b] /\ now >= expires[b]
<1>1. now \in Nat /\ protected[b] \in Nat /\ expires[b] \in Nat /\ hold[b] \in HoldRecord
  BY DEF KeepTypes
<1>2. hold[b].until \in Nat
  BY <1>1 DEF HoldRecord
<1>3. ~Held(b, t) /\ ~(protected[b] # 0 /\ t < protected[b]) /\ ~(t < expires[b])
  BY DEF Decision
<1>4. ~Held(b, now)
  BY <1>1, <1>2, <1>3 DEF Held, Due
<1>5. QED
  BY <1>1, <1>3, <1>4

LEMMA OnlyDeleteUnlinks ==
  ASSUME KeepInv, RetentionNext
  PROVE  \A b \in stored \ stored' :
            /\ ~Held(b, now) /\ now >= protected[b] /\ now >= expires[b]
<1>1. ASSUME NEW b \in Batches, NEW t \in 0 .. MaxTime, Delete(b, t)
      PROVE  \A c \in stored \ stored' : /\ ~Held(c, now) /\ now >= protected[c] /\ now >= expires[c]
  <2>1. stored' = stored \ {b} /\ t <= now /\ Decision(b, t) = "ELIGIBLE"
    BY <1>1 DEF Delete
  <2>2. ~Held(b, now) /\ now >= protected[b] /\ now >= expires[b]
    BY <2>1, EligibleNow DEF KeepInv
  <2>3. QED
    BY <2>1, <2>2
<1>2. ASSUME NEW f \in Files, NEW ok \in BOOLEAN, Kept(f, ok) PROVE stored \subseteq stored'
  BY <1>2 DEF Kept, Upload
<1>3. ASSUME NEW b \in Batches, (\E ok \in BOOLEAN : Protect(b, ok)) \/ Unprotect(b) \/ ImportStep(b)
      PROVE  stored' = stored
  BY <1>3, ImportStepMoves DEF Protect, Unprotect, ImportStep, KeepInv
<1>4. ASSUME NEW b, NEW t, NEW left,
             \/ CreateHold(b, t) \/ ReleaseHold(b) \/ Skip(b, t) \/ CommitTombstone \/ Sweep
             \/ MarkComplete \/ Recover(b) \/ CrashCleaner(left) \/ Tick
      PROVE  stored' = stored
  <2>1. UNCHANGED vars
    BY <1>4 DEF CreateHold, ReleaseHold, Skip, CommitTombstone, Sweep, MarkComplete, Recover, CrashCleaner, Tick
  <2>2. QED
    BY <2>1 DEF vars
<1>5. QED
  BY <1>1, <1>2, <1>3, <1>4 DEF RetentionNext, Cleanup

\* Every variable of the retention, and of the import under it, has its type.
THEOREM RetentionTypes == RetentionSpec => []RetentionTypeOK
<1>1. RetentionInit => KeepInv
  BY KeepInit
<1>2. KeepInv /\ [RetentionNext]_retentionVars => KeepInv'
  BY RetentionKept
<1>3. QED
  BY <1>1, <1>2, KeepInvTypes, PTL DEF RetentionSpec
-----------------------------------------------------------------------------
(* A backup changes nothing of the retention.                               *)

LEMMA BesideIsRetention ==
  ASSUME KeepInv, Beside
  PROVE  RetentionNext
<1>1. now \in 0 .. MaxTime
  BY DEF KeepInv, KeepTypes
<1>2. ASSUME NEW b \in Batches, Preview(b) PROVE ImportStep(b)
  BY <1>2 DEF Preview, ImportStep
<1>3. ASSUME NEW b \in Batches, Preview(b) \/ Delete(b, now) \/ Recover(b) PROVE RetentionNext
  BY <1>1, <1>2, <1>3 DEF RetentionNext, Cleanup
<1>4. QED
  BY <1>3 DEF Beside, RetentionNext, Cleanup

LEMMA AllIsRetention ==
  ASSUME KeepInv, [AllNext]_allVars
  PROVE  [RetentionNext]_retentionVars
  BY BesideIsRetention DEF AllNext, allVars

\* A backup, its faults and a restore leave retention as its own specification has it: what
\* goes on beside them are steps of retention, and theirs change nothing it reads.
THEOREM BackupKeepsRetention == BackupSpec => RetentionSpec
<1>1. BackupInit => RetentionInit /\ KeepInv
  BY KeepInit DEF BackupInit
<1>2. KeepInv /\ [AllNext]_allVars => [RetentionNext]_retentionVars
  BY AllIsRetention
<1>3. KeepInv /\ [RetentionNext]_retentionVars => KeepInv'
  BY RetentionKept
<1>4. QED
  BY <1>1, <1>2, <1>3, PTL DEF BackupSpec, RetentionSpec

\* A preview that may be tried finds its file, and every storage key tells the truth about
\* the disk, also with backups at work.
THEOREM SourcesKept == BackupSpec => []SourcesHold
<1>1. RetentionInit => KeepInv
  BY KeepInit
<1>2. KeepInv /\ [RetentionNext]_retentionVars => KeepInv'
  BY RetentionKept
<1>3. QED
  BY <1>1, <1>2, KeepInvSources, BackupKeepsRetention, PTL DEF RetentionSpec

\* No source is unlinked while it is held, before its day, or while a rollback may need it,
\* by the clock of that moment.
THEOREM ProtectedKept == BackupSpec => ProtectedIsKept
<1>1. RetentionInit => KeepInv
  BY KeepInit
<1>2. KeepInv /\ [RetentionNext]_retentionVars => KeepInv'
  BY RetentionKept
<1>3. KeepInv /\ [RetentionNext]_retentionVars
         => [\A b \in stored \ stored' :
               /\ ~Held(b, now) /\ now >= protected[b] /\ now >= expires[b]]_retentionVars
  BY OnlyDeleteUnlinks
<1>4. QED
  BY <1>1, <1>2, <1>3, BackupKeepsRetention, PTL DEF RetentionSpec, ProtectedIsKept
-----------------------------------------------------------------------------
KeyRows == [batch : Batches, key : KeyStatus]
Phases == {"idle", "probing", "dumped", "archived", "written", "failed", "ok", "bad"}
JobRecord == [phase : Phases, run : 0 .. MaxBackups, compose : BOOLEAN, quiet : BOOLEAN,
              keys : SUBSET KeyRows, unlinked : SUBSET Batches, files : SUBSET Batches]
ArtifactRecord == [run : 0 .. MaxBackups, kek : Nat, damage : {"none", "header", "parts"}, quiet : BOOLEAN,
                   keys : SUBSET KeyRows, unlinked : SUBSET Batches, files : SUBSET Batches]
RestorePhases == {"idle", "open", "verify", "extracted", "restored", "failed"}
RestoreRecord == [phase : RestorePhases,
                  why : {"none", "damage", "key", "target", "pg_restore", "audit", "missing"},
                  of : ArtifactRecord \union {NoArtifact}]
TargetRecord == [db : {"empty", "partial", "whole"}, keys : SUBSET KeyRows, disk : SUBSET Batches]

BackupTypes ==
    /\ focus \in {"keeping", "backup"} /\ stopped \in BOOLEAN
    /\ job \in JobRecord
    /\ artifact \in ArtifactRecord \union {NoArtifact}
    /\ ring \in [active : Nat, kept : SUBSET Nat]
    /\ restore \in RestoreRecord /\ target \in TargetRecord
    /\ faults \in 0 .. MaxFaults

\* A capture misses no source but those a cleanup was deleting.
Complete(c) == c.quiet => Sources(c.keys) \ c.files \subseteq c.unlinked

CaptureInv ==
    /\ focus = "keeping" => job = NoJob
    /\ job.phase \in {"probing", "dumped"} /\ job.quiet => stopped
    /\ job.phase = "dumped" /\ job.quiet => Sources(job.keys) \ stored \subseteq job.unlinked
    /\ job.phase = "archived" => Complete(job)
    /\ artifact # NoArtifact => Complete(artifact)
    /\ SuccessRunsAgain

\* What the restore has read and done so far.
RestoreInv ==
    /\ restore.phase \notin {"idle", "failed"} => restore.of # NoArtifact
    /\ restore.of # NoArtifact => Complete(restore.of)
    /\ restore.phase \in {"verify", "extracted"} => target.db = "whole" /\ target.keys = restore.of.keys
    /\ restore.phase = "extracted" => target.disk = restore.of.files
    /\ restore.why = "missing" =>
         /\ restore.phase = "failed" /\ restore.of # NoArtifact
         /\ target.keys = restore.of.keys
         /\ target.disk = restore.of.files \cap Sources(restore.of.keys)
    /\ RestoredWhole

BackupInv == KeepInv /\ BackupTypes /\ CaptureInv /\ RestoreInv

\* What of the artifact carries over to whoever has read it.
Artifacts == ArtifactRecord \union {NoArtifact}

LEMMA BackupStarts == BackupInit => BackupInv
<1> SUFFICES ASSUME BackupInit PROVE BackupInv
  OBVIOUS
<1>1. KeepInv
  BY KeepInit DEF BackupInit
<1>2. BackupTypes
  <2>1. job \in JobRecord
    BY DEF BackupInit, NoJob, JobRecord, Phases
  <2>2. restore \in RestoreRecord
    BY DEF BackupInit, NoRestore, RestoreRecord, RestorePhases
  <2>3. target \in TargetRecord
    BY DEF BackupInit, EmptyTarget, TargetRecord
  <2>4. ring \in [active : Nat, kept : SUBSET Nat]
    BY DEF BackupInit
  <2>5. focus \in {"keeping", "backup"} /\ stopped \in BOOLEAN
    BY DEF BackupInit
  <2>6. artifact \in ArtifactRecord \union {NoArtifact}
    BY DEF BackupInit
  <2>7. faults \in 0 .. MaxFaults
    BY DEF BackupInit
  <2>8. QED
    BY <2>1, <2>2, <2>3, <2>4, <2>5, <2>6, <2>7 DEF BackupTypes
<1>3. CaptureInv
  BY DEF BackupInit, CaptureInv, NoJob, SuccessRunsAgain
<1>4. RestoreInv
  BY DEF BackupInit, RestoreInv, NoRestore, RestoredWhole
<1>5. QED
  BY <1>1, <1>2, <1>3, <1>4 DEF BackupInv

\* Beside a backup that has not stopped the services, and without one, retention goes on.
LEMMA RetentionBeside ==
  ASSUME BackupInv, RetentionNext, focus = "keeping" \/ ~stopped, UNCHANGED <<focus, backupVars>>
  PROVE  BackupInv'
<1>1. KeepInv'
  BY RetentionKept DEF BackupInv
<1>2. BackupTypes' /\ RestoreInv'
  BY DEF BackupInv, BackupTypes, RestoreInv, RestoredWhole, backupVars
<1>3. CaptureInv'
  <2>1. UNCHANGED <<focus, stopped, job, artifact>>
    BY DEF backupVars
  <2>2. focus = "keeping" => job.phase = "idle"
    BY DEF BackupInv, CaptureInv, NoJob
  <2>3. ~(job.phase = "dumped" /\ job.quiet)
    BY <2>2 DEF BackupInv, CaptureInv
  <2>4. QED
    BY <2>1, <2>3 DEF BackupInv, CaptureInv, SuccessRunsAgain
<1>4. QED
  BY <1>1, <1>2, <1>3 DEF BackupInv

\* A step of the two commands: it is enough to look at what they keep themselves.
LEMMA CommandStep ==
  ASSUME BackupInv, UNCHANGED <<retentionVars, focus>>,
         BackupTypes', CaptureInv', RestoreInv'
  PROVE  BackupInv'
<1>1. KeepInv'
  BY RetentionKept DEF BackupInv
<1>2. QED
  BY <1>1 DEF BackupInv

\* A backup does not touch what a restore has read or done.
LEMMA JobStep ==
  ASSUME BackupInv, UNCHANGED <<retentionVars, focus, restore, target>>, focus = "backup",
         stopped' \in BOOLEAN, job' \in JobRecord, artifact' \in Artifacts,
         ring' \in [active : Nat, kept : SUBSET Nat], faults' \in 0 .. MaxFaults,
         CaptureInv'
  PROVE  BackupInv'
<1>1. BackupTypes'
  BY DEF BackupInv, BackupTypes, Artifacts
<1>2. RestoreInv'
  BY DEF BackupInv, RestoreInv, RestoredWhole
<1>3. QED
  BY <1>1, <1>2, CommandStep

\* And a restore does not touch the backup.
LEMMA RestoreStep ==
  ASSUME BackupInv, UNCHANGED <<retentionVars, focus, stopped, job, artifact, ring, faults>>,
         restore' \in RestoreRecord, target' \in TargetRecord, RestoreInv'
  PROVE  BackupInv'
<1>1. BackupTypes'
  BY DEF BackupInv, BackupTypes
<1>2. CaptureInv'
  <2>1. stored' = stored
    BY DEF retentionVars, vars
  <2>2. QED
    BY <2>1 DEF BackupInv, CaptureInv, SuccessRunsAgain
<1>3. QED
  BY <1>1, <1>2, CommandStep
-----------------------------------------------------------------------------
(* The steps of the backup.                                                 *)

\* The records the command assigns to its job: with nothing captured.
Bare(p, r, c, q) == [phase |-> p, run |-> r, compose |-> c, quiet |-> q,
                     keys |-> {}, unlinked |-> {}, files |-> {}]

LEMMA BareTyped ==
  ASSUME NEW p \in Phases, NEW r \in 0 .. MaxBackups, NEW c \in BOOLEAN, NEW q \in BOOLEAN
  PROVE  Bare(p, r, c, q) \in JobRecord
  BY DEF Bare, JobRecord

LEMMA StartKept ==
  ASSUME BackupInv, focus = "backup", UNCHANGED <<retentionVars, focus>>,
         NEW compose \in BOOLEAN, NEW quiesced \in BOOLEAN, StartBackup(compose, quiesced)
  PROVE  BackupInv'
<1> DEFINE p == IF compose /\ ~quiesced THEN "bad" ELSE "probing"
<1>1. BackupTypes /\ CaptureInv
  BY DEF BackupInv
<1>2. stopped' \in BOOLEAN
  BY <1>1 DEF StartBackup, BackupTypes
<1>3. job' = Bare(p, job.run + 1, compose, stopped')
  BY DEF StartBackup, NoJob, Bare
<1>4. job.run + 1 \in 0 .. MaxBackups /\ p \in Phases
  BY <1>1 DEF StartBackup, BackupTypes, JobRecord, Phases
<1>5. job' \in JobRecord
  BY <1>2, <1>3, <1>4, BareTyped
<1>6. UNCHANGED <<artifact, ring, restore, target, faults>>
  BY DEF StartBackup
<1>7. job'.phase \in {"bad", "probing"} /\ job'.quiet = stopped'
  BY <1>3 DEF Bare
<1>8. CaptureInv'
  BY <1>1, <1>6, <1>7 DEF CaptureInv, SuccessRunsAgain
<1>9. QED
  BY <1>1, <1>2, <1>5, <1>6, <1>8, JobStep DEF BackupTypes, Artifacts

\* A job that has failed, or that was killed or is over, has captured nothing.
LEMMA BareJobKept ==
  ASSUME BackupInv, focus = "backup", UNCHANGED <<retentionVars, focus, ring, restore, target>>,
         NEW p \in Phases \ {"probing", "dumped", "archived"}, NEW c \in BOOLEAN,
         job' = Bare(p, job.run, c, FALSE),
         stopped' \in BOOLEAN, artifact' \in {artifact, NoArtifact}, faults' \in 0 .. MaxFaults,
         p = "ok" /\ c => ~stopped'
  PROVE  BackupInv'
<1>1. BackupTypes /\ CaptureInv
  BY DEF BackupInv
<1>2. job' \in JobRecord
  BY <1>1, BareTyped DEF BackupTypes, JobRecord
<1>3. job'.phase = p /\ job'.compose = c
  BY DEF Bare
<1>4. artifact' \in Artifacts
  BY <1>1 DEF BackupTypes, Artifacts
<1>5. CaptureInv'
  BY <1>1, <1>3 DEF CaptureInv, SuccessRunsAgain
<1>6. QED
  BY <1>1, <1>2, <1>4, <1>5, JobStep DEF BackupTypes

\* Of what the dump sees, only a source whose unlink is not yet recorded is gone.
LEMMA DumpKept ==
  ASSUME BackupInv, focus = "backup", UNCHANGED <<retentionVars, focus>>,
         NEW ok \in BOOLEAN, Dump(ok)
  PROVE  BackupInv'
<1> DEFINE gone == {b \in Existing : key[b] = "source" /\ b \notin stored}
<1>1. BackupTypes /\ CaptureInv /\ KeepTypes
  BY DEF BackupInv, KeepInv
<1>2. job.phase = "probing" /\ UNCHANGED <<stopped, artifact, ring, restore, target, faults>>
  BY DEF Dump
<1>3. CASE ~ok
  <2>1. job' = Bare("failed", job.run, job.compose, FALSE)
    BY <1>3 DEF Dump, Failing, NoJob, Bare
  <2>2. "failed" \in Phases \ {"probing", "dumped", "archived"} /\ job.compose \in BOOLEAN
    BY <1>1 DEF Phases, BackupTypes, JobRecord
  <2>3. QED
    BY <1>1, <1>2, <2>1, <2>2, BareJobKept DEF BackupTypes
<1>4. CASE ok
  <2>1. job' = [phase |-> "dumped", run |-> job.run, compose |-> job.compose, quiet |-> job.quiet,
                keys |-> StorageKeys, unlinked |-> gone, files |-> job.files]
    BY <1>1, <1>2, <1>4 DEF Dump, BackupTypes, JobRecord
  <2>2. StorageKeys \in SUBSET KeyRows
    BY <1>1 DEF StorageKeys, KeyRows, KeepTypes, Existing
  <2>3. gone \in SUBSET Batches
    BY DEF Existing
  <2>4. Sources(StorageKeys) \ stored \subseteq gone
    BY DEF Sources, StorageKeys
  <2> HIDE DEF gone
  <2>5. job' \in JobRecord
    BY <1>1, <2>1, <2>2, <2>3 DEF BackupTypes, JobRecord, Phases
  <2>6. stored' = stored
    BY DEF retentionVars, vars
  <2>7. /\ job'.phase = "dumped" /\ job'.quiet = job.quiet
        /\ Sources(job'.keys) \ stored' \subseteq job'.unlinked
    BY <2>1, <2>4, <2>6
  <2>8. CaptureInv'
    BY <1>1, <1>2, <2>7 DEF CaptureInv, SuccessRunsAgain
  <2>9. QED
    BY <1>1, <1>2, <2>5, <2>8, JobStep DEF BackupTypes, Artifacts
<1>5. QED
  BY <1>3, <1>4

\* Between the dump and the archive of stopped services nothing is unlinked.
LEMMA ArchiveKept ==
  ASSUME BackupInv, focus = "backup", UNCHANGED <<retentionVars, focus>>,
         NEW ok \in BOOLEAN, Archive(ok)
  PROVE  BackupInv'
<1>1. BackupTypes /\ CaptureInv
  BY DEF BackupInv
<1>2. job.phase = "dumped" /\ UNCHANGED <<stopped, artifact, ring, restore, target, faults>>
  BY DEF Archive
<1>3. CASE ~ok
  <2>1. job' = Bare("failed", job.run, job.compose, FALSE)
    BY <1>3 DEF Archive, Failing, NoJob, Bare
  <2>2. "failed" \in Phases \ {"probing", "dumped", "archived"} /\ job.compose \in BOOLEAN
    BY <1>1 DEF Phases, BackupTypes, JobRecord
  <2>3. QED
    BY <1>1, <1>2, <2>1, <2>2, BareJobKept DEF BackupTypes
<1>4. CASE ok
  <2>1. job' = [phase |-> "archived", run |-> job.run, compose |-> job.compose, quiet |-> job.quiet,
                keys |-> job.keys, unlinked |-> job.unlinked, files |-> stored]
    BY <1>1, <1>2, <1>4 DEF Archive, BackupTypes, JobRecord
  <2>2. stored \in SUBSET Batches
    BY DEF BackupInv, KeepInv, ImportInv, TypesInv
  <2>3. job' \in JobRecord
    BY <1>1, <2>1, <2>2 DEF BackupTypes, JobRecord, Phases
  <2>4. job'.phase = "archived" /\ Complete(job')
    BY <1>1, <1>2, <2>1 DEF CaptureInv, Complete
  <2>5. CaptureInv'
    BY <1>1, <1>2, <2>4 DEF CaptureInv, SuccessRunsAgain
  <2>6. QED
    BY <1>1, <1>2, <2>3, <2>5, JobStep DEF BackupTypes, Artifacts
<1>5. QED
  BY <1>3, <1>4

LEMMA WriteKept ==
  ASSUME BackupInv, focus = "backup", UNCHANGED <<retentionVars, focus>>,
         NEW ok \in BOOLEAN, WriteArtifact(ok)
  PROVE  BackupInv'
<1>1. BackupTypes /\ CaptureInv
  BY DEF BackupInv
<1>2. job.phase = "archived" /\ UNCHANGED <<stopped, ring, restore, target, faults>>
  BY DEF WriteArtifact
<1>3. \A p \in {"failed", "written"} :
         p \in Phases \ {"probing", "dumped", "archived"} /\ job.compose \in BOOLEAN
  BY <1>1 DEF Phases, BackupTypes, JobRecord
<1>4. CASE ~ok
  <2>1. job' = Bare("failed", job.run, job.compose, FALSE)
    BY <1>4 DEF WriteArtifact, Failing, NoJob, Bare
  <2>2. artifact' = artifact
    BY <1>4 DEF WriteArtifact
  <2>3. QED
    BY <1>1, <1>2, <1>3, <2>1, <2>2, BareJobKept DEF BackupTypes
<1>5. CASE ok
  <2>1. job' = Bare("written", job.run, job.compose, FALSE)
    BY <1>5 DEF WriteArtifact, Failing, NoJob, Bare
  <2>2. artifact' = [run |-> job.run, kek |-> ring.active, damage |-> "none", quiet |-> job.quiet,
                     keys |-> job.keys, unlinked |-> job.unlinked, files |-> job.files]
    BY <1>5 DEF WriteArtifact
  <2>3. artifact' \in Artifacts
    BY <1>1, <2>2 DEF BackupTypes, JobRecord, ArtifactRecord, Artifacts
  <2>4. Complete(artifact')
    BY <1>1, <1>2, <2>2 DEF CaptureInv, Complete
  <2>5. job' \in JobRecord
    BY <1>1, <1>3, <2>1, BareTyped DEF BackupTypes, JobRecord
  <2>6. job'.phase = "written"
    BY <2>1 DEF Bare
  <2>7. CaptureInv'
    BY <1>1, <1>2, <2>4, <2>6 DEF CaptureInv, SuccessRunsAgain
  <2>8. QED
    BY <1>1, <1>2, <2>3, <2>5, <2>7, JobStep DEF BackupTypes
<1>6. QED
  BY <1>4, <1>5

LEMMA FinishKept ==
  ASSUME BackupInv, focus = "backup", UNCHANGED <<retentionVars, focus>>,
         NEW restarted \in BOOLEAN, FinishBackup(restarted)
  PROVE  BackupInv'
<1> DEFINE p == IF ExitsZero(job.compose /\ ~restarted) THEN "ok" ELSE "bad"
<1>1. BackupTypes /\ CaptureInv
  BY DEF BackupInv
<1>2. /\ artifact' \in {artifact, NoArtifact} /\ UNCHANGED <<ring, restore, target, faults>>
      /\ stopped' = IF job.compose /\ restarted THEN FALSE ELSE stopped
  BY DEF FinishBackup
<1>3. job' = Bare(p, job.run, job.compose, FALSE)
  BY DEF FinishBackup, NoJob, Bare
<1>4. p \in Phases \ {"probing", "dumped", "archived"} /\ job.compose \in BOOLEAN
  BY <1>1 DEF Phases, BackupTypes, JobRecord
<1>5. p = "ok" /\ job.compose => ~stopped'
  BY <1>2 DEF ExitsZero
<1>6. stopped' \in BOOLEAN /\ faults' \in 0 .. MaxFaults
  BY <1>1, <1>2 DEF BackupTypes
<1> HIDE DEF p
<1>7. QED
  BY <1>2, <1>3, <1>4, <1>5, <1>6, BareJobKept

LEMMA IdleJobKept ==
  ASSUME BackupInv, focus = "backup", UNCHANGED <<retentionVars, focus>>, KillBackup \/ Operate
  PROVE  BackupInv'
<1>1. BackupTypes
  BY DEF BackupInv
<1>2. job' = Bare("idle", job.run, FALSE, FALSE)
  BY DEF KillBackup, Operate, NoJob, Bare
<1>3. UNCHANGED <<artifact, ring, restore, target>>
  BY DEF KillBackup, Operate
<1>4. stopped' \in BOOLEAN /\ faults' \in 0 .. MaxFaults
  <2>1. stopped \in BOOLEAN /\ faults \in 0 .. MaxFaults
    BY <1>1 DEF BackupTypes
  <2>2. CASE KillBackup
    BY <2>1, <2>2 DEF KillBackup, Fault
  <2>3. CASE Operate
    BY <2>1, <2>3 DEF Operate
  <2>4. QED
    BY <2>2, <2>3
<1>5. "idle" \in Phases \ {"probing", "dumped", "archived"}
  BY DEF Phases
<1>6. QED
  BY <1>2, <1>3, <1>4, <1>5, BareJobKept

LEMMA FaultKept ==
  ASSUME BackupInv, focus = "backup", UNCHANGED <<retentionVars, focus>>,
         \/ \E kept \in SUBSET ring.kept : Rotate(kept)
         \/ \E part \in {"header", "parts"} : Damage(part)
  PROVE  BackupInv'
<1>1. BackupTypes /\ CaptureInv
  BY DEF BackupInv
<1>2. stored' = stored
  BY DEF retentionVars, vars
<1>3. UNCHANGED <<stopped, job, restore, target>> /\ faults' \in 0 .. MaxFaults
  BY <1>1 DEF Rotate, Damage, Fault, BackupTypes
<1>4. ASSUME NEW kept \in SUBSET ring.kept, Rotate(kept) PROVE BackupInv'
  <2>1. ring.active \in Nat /\ ring.kept \in SUBSET Nat
    BY <1>1 DEF BackupTypes
  <2>2. ring' \in [active : Nat, kept : SUBSET Nat] /\ artifact' = artifact
    BY <1>4, <2>1 DEF Rotate
  <2>3. CaptureInv'
    BY <1>1, <1>2, <1>3, <2>2 DEF CaptureInv, SuccessRunsAgain
  <2>4. QED
    BY <1>1, <1>3, <2>2, <2>3, JobStep DEF BackupTypes, Artifacts
<1>5. ASSUME NEW part \in {"header", "parts"}, Damage(part) PROVE BackupInv'
  <2>1. artifact.run # 0 /\ artifact' = [artifact EXCEPT !.damage = part] /\ ring' = ring
    BY <1>5 DEF Damage
  <2>2. artifact \in ArtifactRecord /\ artifact # NoArtifact
    BY <1>1, <2>1 DEF BackupTypes, NoArtifact
  <2>3. artifact' \in Artifacts
    BY <2>1, <2>2 DEF ArtifactRecord, Artifacts
  <2>4. /\ artifact'.quiet = artifact.quiet /\ artifact'.keys = artifact.keys
        /\ artifact'.files = artifact.files /\ artifact'.unlinked = artifact.unlinked
    BY <2>1, <2>2 DEF ArtifactRecord
  <2>5. Complete(artifact')
    BY <1>1, <2>2, <2>4 DEF CaptureInv, Complete
  <2>6. CaptureInv'
    BY <1>1, <1>2, <1>3, <2>5 DEF CaptureInv, SuccessRunsAgain
  <2>7. QED
    BY <1>1, <1>3, <2>1, <2>3, <2>6, JobStep DEF BackupTypes
<1>6. QED
  BY <1>4, <1>5

LEMMA BackupStepKept ==
  ASSUME BackupInv, focus = "backup", BackupNext, UNCHANGED <<retentionVars, focus>>
  PROVE  BackupInv'
<1>1. ASSUME NEW ok \in BOOLEAN, Dump(ok) \/ Archive(ok) \/ WriteArtifact(ok) PROVE BackupInv'
  BY <1>1, DumpKept, ArchiveKept, WriteKept
<1>2. QED
  BY <1>1, StartKept, FinishKept, IdleJobKept, FaultKept DEF BackupNext
-----------------------------------------------------------------------------
(* The steps of the restore.                                                *)

\* A restore that fails keeps what it has read and says why.
LEMMA FailsMeans ==
  ASSUME BackupTypes, NEW why \in {"damage", "key", "target", "pg_restore", "audit", "missing"},
         Fails(why)
  PROVE  restore' \in RestoreRecord /\ restore'.phase = "failed" /\ restore'.why = why
         /\ restore'.of = restore.of
  BY DEF BackupTypes, Fails, RestoreRecord, RestorePhases

LEMMA PhaseGoesOn ==
  ASSUME BackupTypes, NEW p \in RestorePhases, restore' = [restore EXCEPT !.phase = p]
  PROVE  restore' \in RestoreRecord /\ restore'.phase = p /\ restore'.why = restore.why
         /\ restore'.of = restore.of
  BY DEF BackupTypes, RestoreRecord

LEMMA OpenKept ==
  ASSUME BackupInv, UNCHANGED <<retentionVars, focus>>, OpenArtifact
  PROVE  BackupInv'
<1> DEFINE p == IF KeyFound(artifact) /\ Whole(artifact) THEN "open" ELSE "failed"
           w == IF KeyFound(artifact) THEN IF Whole(artifact) THEN "none" ELSE "damage" ELSE "key"
<1>1. BackupTypes /\ CaptureInv /\ RestoreInv
  BY DEF BackupInv
<1>2. /\ restore' = [phase |-> p, of |-> artifact, why |-> w] /\ artifact.run # 0
      /\ UNCHANGED <<stopped, job, artifact, ring, target, faults>>
  BY DEF OpenArtifact
<1>3. p \in {"open", "failed"} /\ w \in {"none", "damage", "key"}
  OBVIOUS
<1> HIDE DEF p, w
<1>4. restore' \in RestoreRecord
  BY <1>1, <1>2, <1>3 DEF BackupTypes, RestoreRecord, RestorePhases
<1>5. artifact # NoArtifact
  BY <1>2 DEF NoArtifact
<1>6. RestoreInv'
  BY <1>1, <1>2, <1>3, <1>5 DEF CaptureInv, RestoreInv, RestoredWhole
<1>7. QED
  BY <1>1, <1>2, <1>4, <1>6, RestoreStep DEF BackupTypes

LEMMA DatabaseKept ==
  ASSUME BackupInv, UNCHANGED <<retentionVars, focus>>, NEW ok \in BOOLEAN, RestoreDatabase(ok)
  PROVE  BackupInv'
<1>1. BackupTypes /\ RestoreInv
  BY DEF BackupInv
<1>2. restore.phase = "open" /\ UNCHANGED <<stopped, job, artifact, ring, faults>>
  BY DEF RestoreDatabase
<1>3. restore.of \in ArtifactRecord /\ restore.why # "missing"
  BY <1>1, <1>2 DEF BackupTypes, RestoreRecord, RestoreInv
<1>4. CASE \E why \in {"target", "pg_restore"} : Fails(why)
  <2>1. PICK why \in {"target", "pg_restore"} : Fails(why)
    BY <1>4
  <2>2. /\ restore' \in RestoreRecord /\ restore'.phase = "failed" /\ restore'.why = why
        /\ restore'.of = restore.of
    BY <1>1, <2>1, FailsMeans
  <2>3. target' \in TargetRecord
    BY <1>1, <1>3 DEF RestoreDatabase, BackupTypes, TargetRecord, ArtifactRecord
  <2>4. RestoreInv'
    BY <1>1, <2>2 DEF RestoreInv, RestoredWhole
  <2>5. QED
    BY <1>2, <2>2, <2>3, <2>4, RestoreStep
<1>5. CASE ok /\ target = EmptyTarget
  <2>1. /\ target' = [target EXCEPT !.db = "whole", !.keys = restore.of.keys]
        /\ restore' = [restore EXCEPT !.phase = "verify"]
    BY <1>5 DEF RestoreDatabase
  <2>2. "verify" \in RestorePhases
    BY DEF RestorePhases
  <2>3. /\ restore' \in RestoreRecord /\ restore'.phase = "verify" /\ restore'.why = restore.why
        /\ restore'.of = restore.of
    BY <1>1, <2>1, <2>2, PhaseGoesOn
  <2>4. target' \in TargetRecord /\ target'.db = "whole" /\ target'.keys = restore.of.keys
    BY <1>1, <1>3, <2>1 DEF BackupTypes, TargetRecord, ArtifactRecord
  <2>5. RestoreInv'
    BY <1>1, <1>2, <1>3, <2>3, <2>4 DEF RestoreInv, RestoredWhole
  <2>6. QED
    BY <1>2, <2>3, <2>4, <2>5, RestoreStep
<1>6. QED
  BY <1>4, <1>5 DEF RestoreDatabase

LEMMA FilesKept ==
  ASSUME BackupInv, UNCHANGED <<retentionVars, focus>>, NEW ok \in BOOLEAN, ExtractFiles(ok)
  PROVE  BackupInv'
<1>1. BackupTypes /\ RestoreInv
  BY DEF BackupInv
<1>2. restore.phase = "verify" /\ UNCHANGED <<stopped, job, artifact, ring, faults>>
  BY DEF ExtractFiles
<1>3. restore.of \in ArtifactRecord /\ restore.why # "missing"
  BY <1>1, <1>2 DEF BackupTypes, RestoreRecord, RestoreInv
<1>4. CASE Fails("audit") /\ UNCHANGED target
  <2>1. /\ restore' \in RestoreRecord /\ restore'.phase = "failed" /\ restore'.why = "audit"
        /\ restore'.of = restore.of
    BY <1>1, <1>4, FailsMeans
  <2>2. RestoreInv'
    BY <1>1, <2>1 DEF RestoreInv, RestoredWhole
  <2>3. QED
    BY <1>1, <1>2, <1>4, <2>1, <2>2, RestoreStep DEF BackupTypes
<1>5. CASE /\ target' = [target EXCEPT !.disk = restore.of.files]
           /\ restore' = [restore EXCEPT !.phase = "extracted"]
  <2>1. "extracted" \in RestorePhases
    BY DEF RestorePhases
  <2>2. /\ restore' \in RestoreRecord /\ restore'.phase = "extracted" /\ restore'.why = restore.why
        /\ restore'.of = restore.of
    BY <1>1, <1>5, <2>1, PhaseGoesOn
  <2>3. /\ target' \in TargetRecord /\ target'.db = target.db /\ target'.keys = target.keys
        /\ target'.disk = restore.of.files
    BY <1>1, <1>3, <1>5 DEF BackupTypes, TargetRecord, ArtifactRecord
  <2>4. RestoreInv'
    BY <1>1, <1>2, <1>3, <2>2, <2>3 DEF RestoreInv, RestoredWhole
  <2>5. QED
    BY <1>2, <2>2, <2>3, <2>4, RestoreStep
<1>6. QED
  BY <1>4, <1>5 DEF ExtractFiles

\* What is not missing is there, and what nothing references has gone.
LEMMA ReconcileKept ==
  ASSUME BackupInv, UNCHANGED <<retentionVars, focus>>, Reconcile
  PROVE  BackupInv'
<1>1. BackupTypes /\ RestoreInv
  BY DEF BackupInv
<1>2. restore.phase = "extracted" /\ UNCHANGED <<stopped, job, artifact, ring, faults>>
  BY DEF Reconcile
<1>3. /\ restore.of \in ArtifactRecord /\ restore.of # NoArtifact /\ restore.why # "missing"
      /\ target.db = "whole" /\ target.keys = restore.of.keys /\ target.disk = restore.of.files
  BY <1>1, <1>2 DEF BackupTypes, RestoreRecord, RestoreInv
<1>4. target' = [target EXCEPT !.disk = restore.of.files \cap Sources(restore.of.keys)]
  BY <1>1, <1>3 DEF Reconcile
<1>5. /\ target' \in TargetRecord /\ target'.db = "whole" /\ target'.keys = restore.of.keys
      /\ target'.disk = restore.of.files \cap Sources(restore.of.keys)
  BY <1>1, <1>3, <1>4 DEF BackupTypes, TargetRecord, ArtifactRecord
<1>6. CASE Missing(target) = {} /\ restore' = [restore EXCEPT !.phase = "restored"]
  <2>1. "restored" \in RestorePhases
    BY DEF RestorePhases
  <2>2. /\ restore' \in RestoreRecord /\ restore'.phase = "restored" /\ restore'.why = restore.why
        /\ restore'.of = restore.of
    BY <1>1, <1>6, <2>1, PhaseGoesOn
  <2>3. Sources(restore.of.keys) \subseteq restore.of.files /\ Tombstones(restore.of.keys) = {}
    BY <1>3, <1>6 DEF Missing
  <2>4. RestoreInv'
    BY <1>1, <1>3, <1>5, <2>2, <2>3 DEF RestoreInv, RestoredWhole
  <2>5. QED
    BY <1>2, <1>5, <2>2, <2>4, RestoreStep
<1>7. CASE Fails("missing")
  <2>1. /\ restore' \in RestoreRecord /\ restore'.phase = "failed" /\ restore'.why = "missing"
        /\ restore'.of = restore.of
    BY <1>1, <1>7, FailsMeans
  <2>2. RestoreInv'
    BY <1>1, <1>3, <1>5, <2>1 DEF RestoreInv, RestoredWhole
  <2>3. QED
    BY <1>2, <1>5, <2>1, <2>2, RestoreStep
<1>8. QED
  BY <1>6, <1>7 DEF Reconcile

LEMMA EndKept ==
  ASSUME BackupInv, UNCHANGED <<retentionVars, focus>>, FinishRestore \/ DropTarget
  PROVE  BackupInv'
<1>1. BackupTypes /\ RestoreInv
  BY DEF BackupInv
<1>2. UNCHANGED <<stopped, job, artifact, ring, faults>>
  BY DEF FinishRestore, DropTarget
<1>3. restore' \in RestoreRecord /\ restore'.phase = "idle" /\ restore'.why # "missing"
      /\ (restore'.of # NoArtifact => Complete(restore'.of))
  <2>1. CASE FinishRestore
    BY <2>1 DEF FinishRestore, NoRestore, RestoreRecord, RestorePhases
  <2>2. CASE DropTarget
    BY <1>1, <2>2 DEF DropTarget, RestoreInv, BackupTypes
  <2>3. QED
    BY <2>1, <2>2
<1>4. target' \in TargetRecord
  BY <1>1 DEF FinishRestore, DropTarget, EmptyTarget, TargetRecord, BackupTypes
<1>5. RestoreInv'
  BY <1>3 DEF RestoreInv, RestoredWhole
<1>6. QED
  BY <1>2, <1>3, <1>4, <1>5, RestoreStep

LEMMA BackupInvKept == BackupInv /\ [AllNext]_allVars => BackupInv'
<1> SUFFICES ASSUME BackupInv, [AllNext]_allVars PROVE BackupInv'
  OBVIOUS
<1>1. CASE focus = "keeping" /\ RetentionNext /\ UNCHANGED <<focus, backupVars>>
  BY <1>1, RetentionBeside
<1>2. CASE Beside /\ UNCHANGED <<focus, backupVars>>
  <2>1. RetentionNext
    BY <1>2, BesideIsRetention DEF BackupInv
  <2>2. ~stopped
    BY <1>2 DEF Beside, Runs
  <2>3. QED
    BY <1>2, <2>1, <2>2, RetentionBeside
<1>3. CASE focus = "backup" /\ BackupNext /\ UNCHANGED <<retentionVars, focus>>
  BY <1>3, BackupStepKept
<1>4. CASE RestoreNext /\ UNCHANGED <<retentionVars, focus>>
  BY <1>4, OpenKept, ReconcileKept, DatabaseKept, FilesKept, EndKept DEF RestoreNext
<1>5. CASE UNCHANGED allVars
  <2>1. UNCHANGED <<retentionVars, focus, stopped, job, artifact, ring, restore, target, faults>>
    BY <1>5 DEF allVars, backupVars
  <2>2. RestoreInv' /\ restore' \in RestoreRecord /\ target' \in TargetRecord
    BY <2>1 DEF BackupInv, BackupTypes, RestoreInv, RestoredWhole
  <2>3. QED
    BY <2>1, <2>2, RestoreStep
<1>6. QED
  BY <1>1, <1>2, <1>3, <1>4, <1>5 DEF AllNext

LEMMA BackupInvReports == BackupInv => ReportsHold
<1> SUFFICES ASSUME BackupInv PROVE ReportsHold
  OBVIOUS
<1>1. BackupTypes /\ CaptureInv /\ RestoreInv
  BY DEF BackupInv
<1>2. BackupTypeOK
  <2>1. RetentionTypeOK
    BY KeepInvTypes DEF BackupInv
  <2>2. artifact.run \in 0 .. MaxBackups
    BY <1>1 DEF BackupTypes, ArtifactRecord, NoArtifact
  <2>3. job.run \in 0 .. MaxBackups /\ target.disk \subseteq Batches
    BY <1>1 DEF BackupTypes, JobRecord, TargetRecord
  <2>4. QED
    BY <1>1, <2>1, <2>2, <2>3 DEF BackupTypes, BackupTypeOK
<1>3. OnlyDeletedAreMissing
  <2> SUFFICES ASSUME restore.why = "missing", restore.of.quiet
               PROVE  Missing(target) \subseteq Tombstones(restore.of.keys) \union restore.of.unlinked
    BY DEF OnlyDeletedAreMissing
  <2>1. /\ target.keys = restore.of.keys
        /\ target.disk = restore.of.files \cap Sources(restore.of.keys)
    BY <1>1 DEF RestoreInv
  <2>2. Sources(restore.of.keys) \ restore.of.files \subseteq restore.of.unlinked
    BY <1>1 DEF RestoreInv, Complete
  <2>3. QED
    BY <2>1, <2>2 DEF Missing
<1>4. QED
  BY <1>1, <1>2, <1>3 DEF RestoreInv, CaptureInv, ReportsHold

\* What the two commands report is true, whatever fails, is damaged or is killed: a restore
\* that succeeds gives back one capture whole; one that misses files of stopped services
\* misses only what the cleanup had deleted; a backup succeeds only with the services running.
THEOREM ReportsAreTrue == BackupSpec => []ReportsHold
<1>1. BackupInit => BackupInv
  BY BackupStarts
<1>2. BackupInv /\ [AllNext]_allVars => BackupInv'
  BY BackupInvKept
<1>3. QED
  BY <1>1, <1>2, BackupInvReports, PTL DEF BackupSpec
=============================================================================
