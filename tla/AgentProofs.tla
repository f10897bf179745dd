------------------------------ MODULE AgentProofs ------------------------------
(***************************************************************************)
(* The safety of Agent: of the memory, the writes and the turn of a         *)
(* conversation, for every number of turns, tasks, questions, attempts,     *)
(* drafts, tokens and requests, and all interleavings of the parts.         *)
(***************************************************************************)
EXTENDS Agent, FiniteSetTheorems, NaturalsInduction, SequenceTheorems, WellFoundedInduction, TLAPS

-----------------------------------------------------------------------------
(* The memory.  An attempt that waits for a summary has turns to summarize,  *)
(* one that asks has every turn it could remember in its window.             *)

ReaderFields == {"pc", "upto", "hard", "fixed", "seen", "project", "passes", "why", "recent"}

\* What an attempt knows.
ReaderRow(r) ==
    /\ ReaderFields \subseteq DOMAIN r
    /\ r.upto \in Nat /\ r.seen.through \in Nat /\ r.seen.version \in Nat
    /\ r.pc = "summing" => Core!Batch(r) # {}
    /\ r.pc \in {"running", "large"} => Core!Eligible(r) = r.recent

MemoryInv ==
    /\ memoryEnded \in Nat /\ summary.through \in Nat /\ summary.version \in Nat
    /\ DOMAIN reader = Builder
    /\ \A b \in Builder : ReaderRow(reader[b])

LessThan == {pair \in Nat \X Nat : pair[1] < pair[2]}

\* A bounded set of numbers has its greatest one.
LEMMA MaxIsThere ==
  ASSUME NEW m \in Nat, NEW S, S \subseteq 0..m, S # {}
  PROVE  Core!Max(S) \in S
<1> DEFINE T == {i \in 0..m : m - i \in S}
<1>1. IsWellFoundedOn(LessThan, Nat)
  BY NatLessThanWellFounded, Zenon DEF LessThan, OpToRel
<1>2. PICK x \in S : TRUE
  OBVIOUS
<1>3. m - x \in T
  <2>1. x \in 0..m /\ m - x \in 0..m /\ m - (m - x) = x
    OBVIOUS
  <2>2. QED
    BY <2>1
<1>4. PICK t \in T : \A y \in T : ~(<<y, t>> \in LessThan)
  <2>1. T \subseteq Nat
    OBVIOUS
  <2> HIDE DEF T
  <2>2. T # {}
    BY <1>3
  <2>3. QED
    BY <1>1, <2>1, <2>2, WFMin
<1>5. \A y \in S : m - t >= y
  <2> SUFFICES ASSUME NEW y \in S PROVE m - t >= y
    OBVIOUS
  <2>1. y \in 0..m /\ t \in 0..m /\ m - y \in 0..m /\ m - (m - y) = y
    OBVIOUS
  <2>2. m - y \in T
    BY <2>1
  <2>3. ~(<<m - y, t>> \in LessThan)
    BY <1>4, <2>2
  <2>4. ~(m - y < t)
    BY <2>1, <2>3 DEF LessThan
  <2>5. QED
    BY <2>1, <2>4
<1>6. m - t \in S
  OBVIOUS
<1>7. \E z \in S : \A y \in S : z >= y
  BY <1>5, <1>6
<1>8. QED
  BY <1>7 DEF Core!Max

\* The turns of a batch are numbers of turns an attempt could remember.
LEMMA BatchIsOfTurns ==
  ASSUME NEW r, ReaderRow(r)
  PROVE  Core!Batch(r) \subseteq 0..r.upto /\ \A i \in Core!Batch(r) : i > r.seen.through
<1>1. Core!Batch(r) \subseteq Core!Eligible(r)
  BY DEF Core!Batch, Core!Oldest
<1>2. Core!Eligible(r) \subseteq r.seen.through + 1..r.upto
  BY DEF Core!Eligible
<1>3. r.upto \in Nat /\ r.seen.through \in Nat
  BY DEF ReaderRow
<1>4. QED
  BY <1>1, <1>2, <1>3

LEMMA MaxOfBatch ==
  ASSUME NEW r, ReaderRow(r), Core!Batch(r) # {}
  PROVE  Core!Max(Core!Batch(r)) \in Nat /\ Core!Max(Core!Batch(r)) > r.seen.through
<1>1. Core!Max(Core!Batch(r)) \in Core!Batch(r)
  BY BatchIsOfTurns, MaxIsThere DEF ReaderRow
<1>2. QED
  BY <1>1, BatchIsOfTurns DEF ReaderRow

LEMMA InitMemory == Core!MemoryInit => MemoryInv
<1> SUFFICES ASSUME Core!MemoryInit PROVE MemoryInv
  OBVIOUS
<1>1. ReaderRow(Core!Idle)
  BY DEF Core!Idle, Core!NoSummary, ReaderRow, ReaderFields
<1>2. memoryEnded \in Nat /\ summary.through \in Nat /\ summary.version \in Nat
  BY DEF Core!MemoryInit, Core!NoSummary
<1>3. QED
  BY <1>1, <1>2 DEF Core!MemoryInit, MemoryInv

-----------------------------------------------------------------------------
\* One attempt knows something else.
LEMMA ReaderMoves ==
  ASSUME MemoryInv, NEW b \in Builder, NEW row, ReaderRow(row), reader' = [reader EXCEPT ![b] = row],
         memoryEnded' \in Nat, summary'.through \in Nat, summary'.version \in Nat
  PROVE  MemoryInv'
<1>1. DOMAIN reader' = Builder /\ \A c \in Builder : reader'[c] = IF c = b THEN row ELSE reader[c]
  BY DEF MemoryInv
<1>2. \A c \in Builder : ReaderRow(reader'[c])
  BY <1>1 DEF MemoryInv
<1>3. QED
  BY <1>1, <1>2 DEF MemoryInv

LEMMA LoadedRow ==
  ASSUME NEW r, ReaderRow(r), summary.through \in Nat, summary.version \in Nat, NEW row, row = Core!Loaded(r)
  PROVE  ReaderRow(row)
<1>1. /\ DOMAIN row = DOMAIN r /\ row.pc = "loaded" /\ row.seen = summary /\ row.upto = r.upto
  BY DEF ReaderRow, ReaderFields, Core!Loaded
<1>2. QED
  BY <1>1 DEF ReaderRow

LEMMA ReturnedRow ==
  ASSUME NEW r, ReaderRow(r), NEW why, NEW row, row = Core!Returned(r, why)
  PROVE  ReaderRow(row)
<1> DEFINE place == IF Core!Refuses(r) THEN "refused" ELSE IF Core!TooLarge(r) THEN "large" ELSE "running"
           recent == Core!Selected(r)
<1>1. row = [r EXCEPT !.why = why, !.recent = recent, !.pc = place]
  BY DEF Core!Returned
<1>2. /\ place # "summing"
      /\ place \in {"running", "large"} => Core!Eligible(r) = recent
  BY DEF Core!Refuses
<1> HIDE DEF place, recent
<1>3. DOMAIN row = DOMAIN r /\ row.pc = place /\ row.recent = recent /\ row.upto = r.upto /\ row.seen = r.seen
  BY <1>1 DEF ReaderRow, ReaderFields
<1>4. Core!Eligible(row) = Core!Eligible(r)
  BY <1>3 DEF Core!Eligible
<1>5. QED
  BY <1>2, <1>3, <1>4 DEF ReaderRow

\* Moved to a place where nothing is asked of what it knows.
LEMMA MovedRow ==
  ASSUME NEW r, ReaderRow(r), NEW row, DOMAIN row = DOMAIN r, row.upto = r.upto, row.seen = r.seen,
         row.pc \notin {"summing", "running", "large"}
  PROVE  ReaderRow(row)
BY DEF ReaderRow

LEMMA BeginStep ==
  ASSUME MemoryInv, NEW b \in Builder, NEW chain, NEW fixed, Core!BeginBuild(b, chain, fixed)
  PROVE  MemoryInv' /\ UNCHANGED summary
<1>1. PICK r : r = [Core!Idle EXCEPT !.upto = memoryEnded, !.hard = Core!HardOf(chain), !.fixed = fixed]
  OBVIOUS
<1>2. /\ DOMAIN r = DOMAIN Core!Idle /\ r.upto = memoryEnded /\ r.seen = Core!NoSummary /\ r.pc = "idle"
  BY <1>1 DEF Core!Idle
<1>3. ReaderRow(r)
  BY <1>2 DEF ReaderRow, ReaderFields, Core!Idle, Core!NoSummary, MemoryInv
<1>4. PICK row : /\ reader' = [reader EXCEPT ![b] = row]
                 /\ row = Core!Loaded(r) \/ row = [r EXCEPT !.pc = "failed"]
  BY <1>1 DEF Core!BeginBuild, Core!Update
<1>5. summary.through \in Nat /\ summary.version \in Nat /\ memoryEnded \in Nat /\ UNCHANGED <<memoryEnded, summary>>
  BY DEF MemoryInv, Core!BeginBuild
<1>6. CASE row = Core!Loaded(r)
  BY <1>3, <1>4, <1>5, <1>6, LoadedRow, ReaderMoves
<1>7. CASE row = [r EXCEPT !.pc = "failed"]
  <2>1. DOMAIN row = DOMAIN r /\ row.upto = r.upto /\ row.seen = r.seen /\ row.pc = "failed"
    BY <1>3, <1>7 DEF ReaderRow, ReaderFields
  <2>2. ReaderRow(row)
    BY <1>3, <2>1, MovedRow
  <2>3. QED
    BY <1>4, <1>5, <2>2, ReaderMoves
<1>8. QED
  BY <1>4, <1>6, <1>7

LEMMA QuietSteps ==
  ASSUME MemoryInv, NEW b \in Builder,
         Core!Reload(b) \/ Core!CheckActive(b) \/ Core!DropActive(b) \/ Core!Weigh(b) \/ Core!NoSummaryComes(b)
  PROVE  MemoryInv' /\ UNCHANGED summary
<1> DEFINE r == reader[b]
<1>1. ReaderRow(r) /\ summary.through \in Nat /\ summary.version \in Nat /\ memoryEnded \in Nat
  BY DEF MemoryInv
<1>2. UNCHANGED <<memoryEnded, summary>>
  BY DEF Core!Reload, Core!CheckActive, Core!DropActive, Core!Weigh, Core!NoSummaryComes
<1>3. ASSUME NEW row, ReaderRow(row), reader' = [reader EXCEPT ![b] = row]
      PROVE  MemoryInv' /\ UNCHANGED summary
  BY <1>1, <1>2, <1>3, ReaderMoves
<1>4. ASSUME NEW row, reader' = [reader EXCEPT ![b] = row], DOMAIN row = DOMAIN r, row.upto = r.upto, row.seen = r.seen,
             row.pc \notin {"summing", "running", "large"}
      PROVE  MemoryInv' /\ UNCHANGED summary
  <2>1. ReaderRow(row)
    BY <1>1, <1>4, MovedRow
  <2>2. QED
    BY <1>3, <1>4, <2>1
<1>5. CASE Core!Reload(b)
  <2>1. PICK row : row = Core!Loaded(r) /\ reader' = [reader EXCEPT ![b] = row]
    BY <1>5 DEF Core!Reload, Core!Update
  <2>2. ReaderRow(row)
    BY <1>1, <2>1, LoadedRow
  <2>3. QED
    BY <1>3, <2>1, <2>2
<1>6. CASE Core!CheckActive(b)
  <2>1. PICK place \in {"checked", "hidden"} : reader' = [reader EXCEPT ![b] = [r EXCEPT !.pc = place]]
    BY <1>6 DEF Core!CheckActive, Core!Update
  <2>2. PICK row : row = [r EXCEPT !.pc = place] /\ reader' = [reader EXCEPT ![b] = row]
    BY <2>1
  <2>3. DOMAIN row = DOMAIN r /\ row.upto = r.upto /\ row.seen = r.seen /\ row.pc = place
    BY <1>1, <2>2 DEF ReaderRow, ReaderFields
  <2>4. QED
    BY <1>4, <2>2, <2>3
<1>7. CASE Core!DropActive(b)
  <2>1. PICK row : row = [r EXCEPT !.pc = "checked", !.project = "none"] /\ reader' = [reader EXCEPT ![b] = row]
    BY <1>7 DEF Core!DropActive, Core!Update
  <2>2. DOMAIN row = DOMAIN r /\ row.upto = r.upto /\ row.seen = r.seen /\ row.pc = "checked"
    BY <1>1, <2>1 DEF ReaderRow, ReaderFields
  <2>3. QED
    BY <1>4, <2>1, <2>2
<1>8. ASSUME NEW why, NEW row, row = Core!Returned(r, why), reader' = [reader EXCEPT ![b] = row]
      PROVE  MemoryInv' /\ UNCHANGED summary
  <2>1. ReaderRow(row)
    BY <1>1, <1>8, ReturnedRow
  <2>2. QED
    BY <1>3, <1>8, <2>1
<1>9. CASE Core!Weigh(b)
  <2>1. PICK row : /\ reader' = [reader EXCEPT ![b] = row]
                   /\ \/ row = Core!Returned(r, "fits") \/ row = Core!Returned(r, "nothing to compress") \/ row = Core!Returned(r, "passes")
                      \/ Core!Batch(r) # {} /\ row = [r EXCEPT !.pc = "summing", !.passes = r.passes + 1]
    BY <1>9 DEF Core!Weigh, Core!Update
  <2>2. CASE \E why : row = Core!Returned(r, why)
    BY <1>8, <2>1, <2>2
  <2>3. CASE Core!Batch(r) # {} /\ row = [r EXCEPT !.pc = "summing", !.passes = r.passes + 1]
    <3>1. DOMAIN row = DOMAIN r /\ row.upto = r.upto /\ row.seen = r.seen /\ row.hard = r.hard /\ row.pc = "summing"
      BY <1>1, <2>3 DEF ReaderRow, ReaderFields
    <3>2. Core!Batch(row) = Core!Batch(r)
      BY <3>1 DEF Core!Batch, Core!Eligible
    <3>3. ReaderRow(row)
      BY <1>1, <2>3, <3>1, <3>2 DEF ReaderRow
    <3>4. QED
      BY <1>3, <2>1, <3>3
  <2>4. QED
    BY <2>1, <2>2, <2>3
<1>10. CASE Core!NoSummaryComes(b)
  <2>1. PICK row : row = Core!Returned(r, "provider") /\ reader' = [reader EXCEPT ![b] = row]
    BY <1>10 DEF Core!NoSummaryComes, Core!Update
  <2>2. QED
    BY <1>8, <2>1
<1>11. QED
  BY <1>5, <1>6, <1>7, <1>9, <1>10

\* A summary replaces one only if it was written over that one, and covers more.
LEMMA SummarizeStep ==
  ASSUME MemoryInv, NEW b \in Builder, NEW size, Core!Summarize(b, size)
  PROVE  /\ MemoryInv'
         /\ summary' = summary \/ (summary'.through > summary.through /\ summary'.version = summary.version + 1)
<1> DEFINE r == reader[b]
           new == [size |-> Core!Cut(size, r.hard), through |-> Core!Max(Core!Batch(r)), version |-> summary.version + 1]
<1>1. ReaderRow(r) /\ summary.through \in Nat /\ summary.version \in Nat /\ memoryEnded \in Nat
  BY DEF MemoryInv
<1>2. r.pc = "summing" /\ UNCHANGED memoryEnded
  BY DEF Core!Summarize
<1>3. Core!Max(Core!Batch(r)) \in Nat /\ Core!Max(Core!Batch(r)) > r.seen.through
  BY <1>1, <1>2, MaxOfBatch DEF ReaderRow
<1>4. new.through = Core!Max(Core!Batch(r)) /\ new.version = summary.version + 1
  OBVIOUS
<1>5. summary' = summary \/ (Core!Unchanged(r) /\ summary' = new)
  BY DEF Core!Summarize
<1>6. summary' = summary \/ (summary'.through > summary.through /\ summary'.version = summary.version + 1 /\ summary'.through \in Nat)
  <2> HIDE DEF new
  <2>1. QED
    BY <1>1, <1>3, <1>4, <1>5 DEF Core!Unchanged
<1>7. PICK row : row = [r EXCEPT !.pc = "reload"] /\ reader' = [reader EXCEPT ![b] = row]
  BY DEF Core!Summarize, Core!Update
<1>8. DOMAIN row = DOMAIN r /\ row.upto = r.upto /\ row.seen = r.seen /\ row.pc = "reload"
  BY <1>1, <1>7 DEF ReaderRow, ReaderFields
<1>9. ReaderRow(row)
  BY <1>1, <1>8, MovedRow
<1>10. MemoryInv'
  <2>1. summary'.through \in Nat /\ summary'.version \in Nat /\ memoryEnded' \in Nat
    BY <1>1, <1>2, <1>6
  <2> HIDE DEF r
  <2>2. QED
    BY <1>7, <1>9, <2>1, ReaderMoves
<1>11. QED
  BY <1>6, <1>10

LEMMA EndStep ==
  ASSUME MemoryInv, NEW b \in Builder, Core!EndTurn(b)
  PROVE  MemoryInv' /\ UNCHANGED summary
<1>1. ReaderRow(Core!Idle)
  BY DEF Core!Idle, Core!NoSummary, ReaderRow, ReaderFields
<1>2. memoryEnded' \in Nat /\ UNCHANGED summary /\ reader' = [reader EXCEPT ![b] = Core!Idle]
  BY DEF MemoryInv, Core!EndTurn, Core!Update
<1>3. QED
  BY <1>1, <1>2, ReaderMoves DEF MemoryInv

Grows == summary' = summary \/ (summary'.through > summary.through /\ summary'.version = summary.version + 1)

LEMMA MemoryNextStep == ASSUME MemoryInv, Core!MemoryNext PROVE MemoryInv' /\ Grows
<1>1. CASE \E b \in Builder, chain \in Candidates, fixed \in Fixed : Core!BeginBuild(b, chain, fixed)
  BY <1>1, BeginStep DEF Grows
<1>2. ASSUME NEW b \in Builder, Core!Reload(b) \/ Core!CheckActive(b) \/ Core!DropActive(b) \/ Core!Weigh(b) \/ Core!NoSummaryComes(b)
      PROVE  MemoryInv' /\ Grows
  BY <1>2, QuietSteps DEF Grows
<1>3. CASE \E b \in Builder : Core!EndTurn(b)
  BY <1>3, EndStep DEF Grows
<1>4. CASE \E b \in Builder, size \in Text : Core!Summarize(b, size)
  BY <1>4, SummarizeStep DEF Grows
<1>5. CASE Core!Rescope
  BY <1>5 DEF Core!Rescope, MemoryInv, Grows
<1>6. QED
  BY <1>1, <1>2, <1>3, <1>4, <1>5 DEF Core!MemoryNext

LEMMA MemoryInvStep == MemoryInv /\ [AgentNext]_<<vars, coreVars>> => MemoryInv' /\ Grows
<1> SUFFICES ASSUME MemoryInv, [AgentNext]_<<vars, coreVars>> PROVE MemoryInv' /\ Grows
  OBVIOUS
<1>1. CASE Core!MemoryStep
  BY <1>1, MemoryNextStep DEF Core!MemoryStep
<1>2. CASE UNCHANGED <<memoryEnded, summary, reader>>
  BY <1>2 DEF MemoryInv, Grows
<1>3. CASE Core!LoopStep \/ Core!WritesStep \/ Core!BesideStep \/ Core!AbortStep
  BY <1>2, <1>3 DEF Core!LoopStep, Core!WritesStep, Core!BesideStep, Core!AbortStep, Core!memoryVars
<1>4. CASE TurnStep \/ UNCHANGED <<vars, coreVars>>
  BY <1>2, <1>4 DEF TurnStep, coreVars
<1>5. QED
  BY <1>1, <1>3, <1>4 DEF AgentNext, CoreStep, Core!Next

LEMMA MemoryInvHolds == AgentSpec => []MemoryInv
<1>1. AgentInit => MemoryInv
  BY InitMemory DEF AgentInit, Core!Init
<1>2. QED
  BY <1>1, MemoryInvStep, PTL DEF AgentSpec

\* The provider is never asked on an incomplete memory: each answered turn before the
\* message is in the recent window or under the summary the attempt has read.
THEOREM NoTurnForgotten == AgentSpec => []Core!AnswersRememberAll
<1>1. MemoryInv => Core!AnswersRememberAll
  <2> SUFFICES ASSUME MemoryInv, NEW b \in Builder, reader[b].pc \in {"running", "large"},
                      NEW i \in 1..reader[b].upto, Conversation[i].answered
               PROVE  i <= reader[b].seen.through \/ i \in reader[b].recent
    BY DEF Core!AnswersRememberAll
  <2>1. Core!Eligible(reader[b]) = reader[b].recent /\ reader[b].upto \in Nat /\ reader[b].seen.through \in Nat
    BY DEF MemoryInv, ReaderRow
  <2>2. QED
    BY <2>1 DEF Core!Eligible
<1>2. QED
  BY <1>1, MemoryInvHolds, PTL

-----------------------------------------------------------------------------
(* The writes.  An answer under way has its draft open, or its token unused, *)
(* and is alone with it; so each confirmed draft and each used token has one *)
(* write.  What a proposal is named after is of no matter: "ops" stands for   *)
(* any set of names.                                                          *)

Who == ({"draft"} \X Draft) \cup ({"token"} \X Token)

DraftRow(ops) == [status : {"none", "OPEN", "CONFIRMED", "CANCELLED", "EXPIRED"}, op : ops, late : BOOLEAN]
TokenRow == [op : {"create", "resolve"}, used : BOOLEAN, binding : {1}, scope : {<<Core!Permission, TRUE>>}]
RequestRow == [pc : {"idle", "expiry", "answer", "checked", "redeeming", "bound"}, draft : Draft \cup {0},
               token : Token \cup {0}, action : {"none", "CONFIRM", "CANCEL"}, seen : {0}]
WrittenRow(ops) == [by : Who, op : ops, version : Nat]

WritesRows(ops) ==
    /\ category \in [active : BOOLEAN, version : Nat]
    /\ drafts \in [Draft -> DraftRow(ops)]
    /\ tokens \in [Token -> TokenRow]
    /\ request \in [Request -> RequestRow]
    /\ written \in Seq(WrittenRow(ops))

Answering(q) == request[q].pc \in {"expiry", "answer", "checked"}
Checked(q) == request[q].pc = "checked"
Redeeming(q) == request[q].pc \in {"redeeming", "bound"}

\* An answer that holds its draft has it open and alone, one that holds a token has it
\* unused and alone, with the category as the token knows it.
HeldInv ==
    /\ \A q \in Request : Answering(q) => request[q].draft \in Draft
    /\ \A q \in Request : Checked(q) => drafts[request[q].draft].status = "OPEN"
    /\ \A p, q \in Request : Checked(p) /\ Checked(q) /\ request[p].draft = request[q].draft => p = q
    /\ \A q \in Request : Redeeming(q) => request[q].token \in Token /\ ~tokens[request[q].token].used
    /\ \A p, q \in Request : Redeeming(p) /\ Redeeming(q) /\ request[p].token = request[q].token => p = q
    /\ \A q \in Request : request[q].pc = "bound" /\ tokens[request[q].token].op = "create" => category.version = 1

WrittenBy(who) == \E n \in DOMAIN written : written[n].by = who

WrittenInv ==
    /\ \A n, m \in DOMAIN written : written[n].by = written[m].by => n = m
    /\ \A d \in Draft : drafts[d].status = "CONFIRMED" <=> WrittenBy(<<"draft", d>>)
    /\ \A k \in Token : tokens[k].used <=> WrittenBy(<<"token", k>>)
    /\ Core!TokenCategoryHolds

Kept(ops) == WritesRows(ops) /\ HeldInv /\ WrittenInv

WritesInv == \E ops : Kept(ops)

LEMMA InitWrites == Core!WritesInit => WritesInv
<1> SUFFICES ASSUME Core!WritesInit PROVE WritesInv
  OBVIOUS
<1> USE DEF Core!WritesInit
<1>1. WritesRows({"none"})
  <2>1. category \in [active : BOOLEAN, version : Nat]
    OBVIOUS
  <2>2. drafts \in [Draft -> DraftRow({"none"})]
    BY DEF Core!NoDraft, DraftRow
  <2>3. tokens \in [Token -> TokenRow]
    <3>1. \A k \in Token : [op |-> TokenOp[k], used |-> FALSE, binding |-> 1, scope |-> <<Core!Permission, TRUE>>] \in TokenRow
      BY AgentAssumption DEF TokenRow
    <3>2. QED
      BY <3>1
  <2>4. request \in [Request -> RequestRow]
    BY DEF Core!NoRequest, RequestRow
  <2>5. written \in Seq(WrittenRow({"none"}))
    OBVIOUS
  <2>6. QED
    BY <2>1, <2>2, <2>3, <2>4, <2>5 DEF WritesRows
<1>2. HeldInv
  BY DEF HeldInv, Answering, Checked, Redeeming, Core!NoRequest
<1>3. WrittenInv
  <2>1. written = <<>> /\ DOMAIN written = {} /\ \A d \in Draft : drafts[d].status = "none"
    BY DEF Core!NoDraft
  <2>2. \A k \in Token : ~tokens[k].used
    OBVIOUS
  <2>3. QED
    BY <2>1, <2>2 DEF WrittenInv, WrittenBy, Core!TokenCategoryHolds
<1>4. QED
  BY <1>1, <1>2, <1>3 DEF WritesInv, Kept

\* A step that keeps the writes, the confirmed drafts and the tokens keeps WrittenInv.
LEMMA NothingWritten ==
  ASSUME WrittenInv, UNCHANGED <<tokens, written>>,
         \A d \in Draft : drafts'[d].status = "CONFIRMED" <=> drafts[d].status = "CONFIRMED"
  PROVE  WrittenInv'
BY DEF WrittenInv, WrittenBy, Core!TokenCategoryHolds

\* One more write, of somebody who has not written yet.
LEMMA OneMoreWrite ==
  ASSUME NEW ops, WritesRows(ops), WrittenInv, NEW who \in Who, NEW op \in ops, ~WrittenBy(who),
         written' = Append(written, [by |-> who, op |-> op, version |-> category.version])
  PROVE  /\ written' \in Seq(WrittenRow(ops))
         /\ DOMAIN written' = DOMAIN written \cup {Len(written) + 1}
         /\ \A n \in DOMAIN written : n # Len(written) + 1 /\ written'[n] = written[n]
         /\ written'[Len(written) + 1] = [by |-> who, op |-> op, version |-> category.version]
         /\ \A n, m \in DOMAIN written' : written'[n].by = written'[m].by => n = m
         /\ \A other : WrittenBy(other)' <=> WrittenBy(other) \/ other = who
<1> DEFINE e == [by |-> who, op |-> op, version |-> category.version]
<1>1. e \in WrittenRow(ops) /\ written \in Seq(WrittenRow(ops)) /\ e.by = who
  BY DEF WritesRows, WrittenRow
<1> HIDE DEF e
<1>2. written' = Append(written, e)
  BY DEF e
<1>3. /\ written' \in Seq(WrittenRow(ops))
      /\ Len(written) \in Nat /\ DOMAIN written = 1..Len(written)
      /\ DOMAIN written' = 1..Len(written) + 1
      /\ \A n \in 1..Len(written) : written'[n] = written[n]
      /\ written'[Len(written) + 1] = e
  BY <1>1, <1>2
<1>4. DOMAIN written' = DOMAIN written \cup {Len(written) + 1} /\ \A n \in DOMAIN written : n # Len(written) + 1 /\ written'[n] = written[n]
  BY <1>3
<1>5. \A n, m \in DOMAIN written : written[n].by = written[m].by => n = m
  BY DEF WrittenInv
<1>6. \A n \in DOMAIN written : written[n].by # who
  BY DEF WrittenBy
<1>7. \A n, m \in DOMAIN written' : written'[n].by = written'[m].by => n = m
  BY <1>1, <1>3, <1>4, <1>5, <1>6
<1>8. \A other : WrittenBy(other)' <=> WrittenBy(other) \/ other = who
  BY <1>1, <1>3, <1>4 DEF WrittenBy
<1>9. QED
  BY <1>3, <1>4, <1>7, <1>8 DEF e

LEMMA RequestGoes ==
  ASSUME request \in [Request -> RequestRow], NEW q \in Request,
         NEW place \in {"expiry", "answer", "checked", "redeeming", "bound"}, Core!Go(q, place)
  PROVE  /\ request' \in [Request -> RequestRow]
         /\ request'[q].pc = place /\ request'[q].draft = request[q].draft /\ request'[q].token = request[q].token
         /\ \A p \in Request : p # q => request'[p] = request[p]
<1>1. request' = [request EXCEPT ![q].pc = place]
  BY DEF Core!Go
<1>2. request[q] \in RequestRow
  OBVIOUS
<1>3. [request[q] EXCEPT !.pc = place] \in RequestRow
  BY <1>2 DEF RequestRow
<1>4. request' \in [Request -> RequestRow]
  BY <1>1, <1>3
<1>5. QED
  BY <1>1, <1>2, <1>4 DEF RequestRow

LEMMA RequestEnds ==
  ASSUME request \in [Request -> RequestRow], NEW q \in Request, Core!Done(q)
  PROVE  /\ request' \in [Request -> RequestRow] /\ request'[q].pc = "idle"
         /\ \A p \in Request : p # q => request'[p] = request[p]
BY DEF Core!Done, Core!NoRequest, RequestRow

\* Requests that go away, or change only where they hold nothing, leave the rest as it was.
LEMMA RequestsLeave ==
  ASSUME NEW ops, Kept(ops), request' \in [Request -> RequestRow],
         \A p \in Request : request'[p] = request[p] \/ request'[p].pc = "idle",
         UNCHANGED <<category, drafts, tokens, written>>
  PROVE  Kept(ops)'
<1>1. WritesRows(ops)'
  BY DEF Kept, WritesRows
<1>2. HeldInv'
  BY DEF Kept, HeldInv, Answering, Checked, Redeeming
<1>3. WrittenInv'
  BY NothingWritten DEF Kept
<1>4. QED
  BY <1>1, <1>2, <1>3 DEF Kept

LEMMA RegrantStep == ASSUME NEW ops, Kept(ops), Core!Regrant PROVE Kept(ops)'
<1>1. UNCHANGED <<drafts, tokens, request, written>>
  BY DEF Core!Regrant
<1>2. category' = category \/ ((\A q \in Request : request[q].pc # "bound")
                             /\ \E a \in BOOLEAN : category' = [active |-> a, version |-> category.version + 1])
  BY DEF Core!Regrant, Core!CategoryLocked
<1>3. category' \in [active : BOOLEAN, version : Nat]
  BY <1>2 DEF Kept, WritesRows
<1>4. WritesRows(ops)'
  BY <1>1, <1>3 DEF Kept, WritesRows
<1>5. HeldInv'
  BY <1>1, <1>2 DEF Kept, HeldInv, Answering, Checked, Redeeming
<1>6. QED
  BY <1>1, <1>4, <1>5, NothingWritten DEF Kept

\* One draft changes, from OPEN and to something else than CONFIRMED, and no answer holds it.
LEMMA DraftMoves ==
  ASSUME NEW ops, Kept(ops), NEW d \in Draft, NEW row \in DraftRow(ops),
         drafts' = [drafts EXCEPT ![d] = row],
         drafts[d].status # "CONFIRMED", row.status # "CONFIRMED",
         request' \in [Request -> RequestRow],
         \A p \in Request : request'[p] = request[p] \/ request'[p].pc = "idle",
         \A q \in Request : request'[q].pc = "checked" /\ request'[q].draft = d => row.status = "OPEN",
         UNCHANGED <<category, tokens, written>>
  PROVE  Kept(ops)'
<1>1. /\ drafts' \in [Draft -> DraftRow(ops)] /\ drafts'[d] = row
      /\ \A e \in Draft : e # d => drafts'[e] = drafts[e]
  BY DEF Kept, WritesRows
<1>2. WritesRows(ops)'
  BY <1>1 DEF Kept, WritesRows
<1>3. HeldInv'
  BY <1>1 DEF Kept, HeldInv, Answering, Checked, Redeeming
<1>4. QED
  BY <1>1, <1>2, <1>3, NothingWritten DEF Kept

LEMMA RunsOutStep == ASSUME NEW ops, Kept(ops), Core!RunsOut PROVE Kept(ops)'
<1>1. UNCHANGED <<category, tokens, written, request>>
  BY DEF Core!RunsOut, Core!worldVars
<1>2. PICK d \in Draft : drafts[d].status = "OPEN" /\ drafts' = [drafts EXCEPT ![d].late = TRUE]
  BY DEF Core!RunsOut
<1> DEFINE row == [drafts[d] EXCEPT !.late = TRUE]
<1>3. row \in DraftRow(ops) /\ row.status = "OPEN"
  BY <1>2 DEF Kept, WritesRows, DraftRow
<1>4. drafts' = [drafts EXCEPT ![d] = row]
  BY <1>2
<1> HIDE DEF row
<1>5. request' \in [Request -> RequestRow]
  BY <1>1 DEF Kept, WritesRows
<1>6. QED
  BY <1>1, <1>2, <1>3, <1>4, <1>5, DraftMoves

\* A further name is no news to the rows.
LEMMA OneMoreName ==
  ASSUME NEW ops, NEW op, Kept(ops)
  PROVE  Kept(ops \cup {op})
<1>1. DraftRow(ops) \subseteq DraftRow(ops \cup {op}) /\ WrittenRow(ops) \subseteq WrittenRow(ops \cup {op})
  BY DEF DraftRow, WrittenRow
<1>2. written \in Seq(WrittenRow(ops \cup {op}))
  BY <1>1, SeqMonotonic DEF Kept, WritesRows
<1>3. QED
  BY <1>1, <1>2 DEF Kept, WritesRows

LEMMA NewRow ==
  ASSUME NEW op, NEW row, row = [Core!NoDraft EXCEPT !.status = "OPEN", !.op = op]
  PROVE  row = [status |-> "OPEN", op |-> op, late |-> FALSE]
BY DEF Core!NoDraft

LEMMA ProposedStep == ASSUME NEW ops, Kept(ops), NEW op, Core!Proposed(op) PROVE Kept(ops \cup {op})'
<1> DEFINE more == ops \cup {op}
<1>1. Kept(more)
  BY OneMoreName
<1>2. UNCHANGED <<category, tokens, written, request>>
  BY DEF Core!Proposed, Core!worldVars
<1>3. PICK d \in Draft : drafts[d] = Core!NoDraft /\ drafts' = [drafts EXCEPT ![d] = [Core!NoDraft EXCEPT !.status = "OPEN", !.op = op]]
  BY DEF Core!Proposed, Core!FreshDraft
<1> DEFINE row == [Core!NoDraft EXCEPT !.status = "OPEN", !.op = op]
<1>4. row \in DraftRow(more) /\ row.status = "OPEN" /\ drafts[d].status # "CONFIRMED"
  <2>1. row = [status |-> "OPEN", op |-> op, late |-> FALSE]
    BY NewRow
  <2>2. op \in more
    OBVIOUS
  <2> HIDE DEF row, more
  <2>3. QED
    BY <1>3, <2>1, <2>2 DEF Core!NoDraft, DraftRow
<1>5. drafts' = [drafts EXCEPT ![d] = row]
  BY <1>3
<1> HIDE DEF row, more
<1>6. request' \in [Request -> RequestRow]
  BY <1>1, <1>2 DEF Kept, WritesRows
<1>7. Kept(more)'
  BY <1>1, <1>2, <1>4, <1>5, <1>6, DraftMoves
<1>8. QED
  BY <1>7 DEF more

\* A request that begins, or passes a check, without holding anything yet.
LEMMA AnswerStep ==
  ASSUME NEW ops, Kept(ops), NEW q \in Request, NEW d \in Draft, NEW action \in {"CONFIRM", "CANCEL"}, Core!Answer(q, d, action)
  PROVE  Kept(ops)'
<1> DEFINE row == [Core!NoRequest EXCEPT !.pc = "expiry", !.draft = d, !.action = action]
<1>1. row \in RequestRow /\ row.pc = "expiry" /\ row.draft = d
  BY DEF Core!NoRequest, RequestRow
<1>2. request' = [request EXCEPT ![q] = row] /\ UNCHANGED <<category, drafts, tokens, written>>
  BY DEF Core!Answer, Core!worldVars
<1> HIDE DEF row
<1>3. /\ request' \in [Request -> RequestRow] /\ request'[q] = row
      /\ \A p \in Request : p # q => request'[p] = request[p]
  BY <1>1, <1>2 DEF Kept, WritesRows
<1>4. WritesRows(ops)'
  BY <1>2, <1>3 DEF Kept, WritesRows
<1>5. HeldInv'
  BY <1>1, <1>2, <1>3 DEF Kept, HeldInv, Answering, Checked, Redeeming
<1>6. QED
  BY <1>2, <1>4, <1>5, NothingWritten DEF Kept

LEMMA ExpireStep ==
  ASSUME NEW ops, Kept(ops), NEW q \in Request, Core!ExpireDraft(q)
  PROVE  Kept(ops)'
<1> DEFINE d == request[q].draft
<1>1. UNCHANGED <<category, tokens, written>> /\ request[q].pc = "expiry" /\ ~Core!DraftLocked(d)
  BY DEF Core!ExpireDraft, Core!worldVars
<1>2. d \in Draft /\ request \in [Request -> RequestRow]
  BY <1>1 DEF Kept, HeldInv, Answering, WritesRows
<1>3. CASE drafts[d].status = "OPEN" /\ drafts' = [drafts EXCEPT ![d].status = "EXPIRED"] /\ Core!Done(q)
  <2> DEFINE row == [drafts[d] EXCEPT !.status = "EXPIRED"]
  <2>1. row \in DraftRow(ops) /\ row.status = "EXPIRED"
    BY <1>2 DEF Kept, WritesRows, DraftRow
  <2>2. drafts' = [drafts EXCEPT ![d] = row]
    BY <1>3
  <2>3. \A p \in Request : ~(request[p].pc = "checked" /\ request[p].draft = d)
    BY <1>1 DEF Core!DraftLocked
  <2>4. /\ request' \in [Request -> RequestRow] /\ request'[q].pc = "idle"
        /\ \A p \in Request : p # q => request'[p] = request[p]
    BY <1>2, <1>3, RequestEnds
  <2>5. \A p \in Request : request'[p].pc = "checked" /\ request'[p].draft = d => row.status = "OPEN"
    BY <2>3, <2>4
  <2>6. \A p \in Request : request'[p] = request[p] \/ request'[p].pc = "idle"
    BY <2>4
  <2>7. drafts[d].status # "CONFIRMED" /\ row.status # "CONFIRMED"
    BY <1>3, <2>1
  <2> HIDE DEF row, d
  <2>8. QED
    BY <1>1, <1>2, <2>1, <2>2, <2>4, <2>5, <2>6, <2>7, DraftMoves
<1>4. CASE UNCHANGED drafts /\ Core!Done(q)
  BY <1>1, <1>2, <1>4, RequestEnds, RequestsLeave
<1>5. CASE UNCHANGED drafts /\ Core!Go(q, "answer")
  <2>1. /\ request' \in [Request -> RequestRow]
        /\ request'[q].pc = "answer" /\ request'[q].draft = d
        /\ \A p \in Request : p # q => request'[p] = request[p]
    BY <1>2, <1>5, RequestGoes
  <2>2. WritesRows(ops)'
    BY <1>1, <1>5, <2>1 DEF Kept, WritesRows
  <2> HIDE DEF d
  <2>3. HeldInv'
    BY <1>1, <1>2, <1>5, <2>1 DEF Kept, HeldInv, Answering, Checked, Redeeming
  <2>4. QED
    BY <1>1, <1>5, <2>2, <2>3, NothingWritten DEF Kept
<1>6. QED
  BY <1>3, <1>4, <1>5 DEF Core!ExpireDraft

LEMMA CheckStep ==
  ASSUME NEW ops, Kept(ops), NEW q \in Request, Core!CheckDraft(q)
  PROVE  Kept(ops)'
<1> DEFINE d == request[q].draft
<1>1. UNCHANGED <<category, drafts, tokens, written>> /\ request[q].pc = "answer" /\ ~Core!DraftLocked(d)
  BY DEF Core!CheckDraft, Core!worldVars, Core!MayLock
<1>2. d \in Draft /\ request \in [Request -> RequestRow]
  BY <1>1 DEF Kept, HeldInv, Answering, WritesRows
<1>3. CASE Core!Done(q)
  BY <1>1, <1>2, <1>3, RequestEnds, RequestsLeave
<1>4. CASE drafts[d].status = "OPEN" /\ Core!Go(q, "checked")
  <2>1. /\ request' \in [Request -> RequestRow]
        /\ request'[q].pc = "checked" /\ request'[q].draft = d
        /\ \A p \in Request : p # q => request'[p] = request[p]
    BY <1>2, <1>4, RequestGoes
  <2>2. WritesRows(ops)'
    BY <1>1, <2>1 DEF Kept, WritesRows
  <2>3. \A p \in Request : ~(Checked(p) /\ request[p].draft = d)
    BY <1>1 DEF Core!DraftLocked, Checked
  <2> HIDE DEF d
  <2>4. HeldInv'
    BY <1>1, <1>2, <1>4, <2>1, <2>3 DEF Kept, HeldInv, Answering, Checked, Redeeming
  <2>5. QED
    BY <1>1, <2>2, <2>4, NothingWritten DEF Kept
<1>5. QED
  BY <1>3, <1>4 DEF Core!CheckDraft

LEMMA CommitStep ==
  ASSUME NEW ops, Kept(ops), NEW q \in Request, Core!CommitDraft(q)
  PROVE  Kept(ops)'
<1> DEFINE d == request[q].draft
<1>1. UNCHANGED <<category, tokens>> /\ request[q].pc = "checked" /\ Core!Done(q)
  BY DEF Core!CommitDraft, Core!worldVars
<1>2. d \in Draft /\ drafts[d].status = "OPEN" /\ request \in [Request -> RequestRow] /\ drafts \in [Draft -> DraftRow(ops)]
  BY <1>1 DEF Kept, HeldInv, Answering, Checked, WritesRows
<1>3. /\ request' \in [Request -> RequestRow] /\ request'[q].pc = "idle"
      /\ \A p \in Request : p # q => request'[p] = request[p]
  BY <1>1, <1>2, RequestEnds
<1>4. \A p \in Request : request'[p].pc = "checked" => request'[p].draft # d
  BY <1>1, <1>3 DEF Kept, HeldInv, Checked
<1>5. \A p \in Request : request'[p] = request[p] \/ request'[p].pc = "idle"
  BY <1>3
<1>6. CASE UNCHANGED <<drafts, written>>
  BY <1>1, <1>3, <1>5, <1>6, RequestsLeave
<1>7. CASE drafts' = [drafts EXCEPT ![d].status = "CANCELLED"] /\ UNCHANGED written
  <2> DEFINE row == [drafts[d] EXCEPT !.status = "CANCELLED"]
  <2>1. row \in DraftRow(ops) /\ row.status = "CANCELLED"
    BY <1>2 DEF DraftRow
  <2>2. drafts' = [drafts EXCEPT ![d] = row]
    BY <1>7
  <2>3. drafts[d].status # "CONFIRMED" /\ row.status # "CONFIRMED"
    BY <1>2, <2>1
  <2>4. \A p \in Request : request'[p].pc = "checked" /\ request'[p].draft = d => row.status = "OPEN"
    BY <1>4
  <2>5. UNCHANGED <<category, tokens, written>>
    BY <1>1, <1>7
  <2> HIDE DEF row, d
  <2>6. QED
    BY <1>2, <1>3, <1>5, <2>1, <2>2, <2>3, <2>4, <2>5, DraftMoves
<1>8. CASE drafts' = [drafts EXCEPT ![d].status = "CONFIRMED"] /\ written' = Core!Written(<<"draft", d>>, drafts[d].op)
  <2>1. /\ drafts' \in [Draft -> DraftRow(ops)] /\ drafts'[d].status = "CONFIRMED"
        /\ \A e \in Draft : e # d => drafts'[e] = drafts[e]
    BY <1>2, <1>8 DEF DraftRow
  <2>2. <<"draft", d>> \in Who /\ drafts[d].op \in ops /\ ~WrittenBy(<<"draft", d>>)
    BY <1>2 DEF Who, DraftRow, Kept, WrittenInv
  <2>3. written' = Append(written, [by |-> <<"draft", d>>, op |-> drafts[d].op, version |-> category.version])
    BY <1>8, <2>2 DEF Core!Written, WrittenBy
  <2> DEFINE who == <<"draft", d>>
             op == drafts[d].op
  <2>4. /\ written' \in Seq(WrittenRow(ops))
        /\ DOMAIN written' = DOMAIN written \cup {Len(written) + 1}
        /\ \A n \in DOMAIN written : n # Len(written) + 1 /\ written'[n] = written[n]
        /\ written'[Len(written) + 1] = [by |-> who, op |-> op, version |-> category.version]
        /\ \A n, m \in DOMAIN written' : written'[n].by = written'[m].by => n = m
        /\ \A other : WrittenBy(other)' <=> WrittenBy(other) \/ other = who
    <3> HIDE DEF who, op
    <3>1. WritesRows(ops) /\ WrittenInv
      BY DEF Kept
    <3>2. who \in Who /\ op \in ops /\ ~WrittenBy(who) /\ written' = Append(written, [by |-> who, op |-> op, version |-> category.version])
      BY <2>2, <2>3 DEF who, op
    <3>3. QED
      BY <3>1, <3>2, OneMoreWrite
  <2>5. WritesRows(ops)'
    BY <1>1, <1>3, <2>1, <2>4 DEF Kept, WritesRows
  <2>6. HeldInv'
    <3> HIDE DEF d
    <3>1. QED
      BY <1>1, <1>3, <1>4, <2>1 DEF Kept, HeldInv, Answering, Checked, Redeeming
  <2>7. WrittenInv'
    <3>1. \A e \in Draft : drafts'[e].status = "CONFIRMED" <=> WrittenBy(<<"draft", e>>)'
      <4>1. ASSUME NEW e \in Draft PROVE <<"draft", e>> = who <=> e = d
        OBVIOUS
      <4> HIDE DEF who, d
      <4>2. \A e \in Draft : drafts[e].status = "CONFIRMED" <=> WrittenBy(<<"draft", e>>)
        BY DEF Kept, WrittenInv
      <4>3. QED
        BY <4>1, <4>2, <2>1, <2>4
    <3>2. \A k \in Token : tokens'[k].used <=> WrittenBy(<<"token", k>>)'
      <4>1. ASSUME NEW k \in Token PROVE <<"token", k>> # who
        OBVIOUS
      <4> HIDE DEF who, d
      <4>2. \A k \in Token : tokens[k].used <=> WrittenBy(<<"token", k>>)
        BY DEF Kept, WrittenInv
      <4>3. QED
        BY <4>1, <4>2, <1>1, <2>4
    <3>3. Core!TokenCategoryHolds'
      <4>1. ASSUME NEW n \in DOMAIN written', written'[n].by[1] = "token" PROVE n \in DOMAIN written /\ written'[n] = written[n]
        <5>1. n # Len(written) + 1
          BY <4>1, <2>4
        <5>2. QED
          BY <5>1, <2>4
      <4>2. Core!TokenCategoryHolds
        BY DEF Kept, WrittenInv
      <4> HIDE DEF who, d, op
      <4>3. QED
        BY <4>1, <4>2, <1>1 DEF Core!TokenCategoryHolds
    <3> HIDE DEF who, d, op
    <3>4. QED
      BY <3>1, <3>2, <3>3, <2>4 DEF WrittenInv
  <2>8. QED
    BY <2>5, <2>6, <2>7 DEF Kept
<1>9. QED
  BY <1>6, <1>7, <1>8 DEF Core!CommitDraft

LEMMA CloseProposalStep ==
  ASSUME NEW ops, Kept(ops), Core!CloseProposal
  PROVE  Kept(ops)'
<1> DEFINE open == {d \in Draft : drafts[d].status = "OPEN"}
           answering == {q \in Request : request[q].pc = "checked" /\ request[q].draft \in open}
<1>1. UNCHANGED <<category, tokens, written>>
  BY DEF Core!CloseProposal, Core!worldVars
<1>2. request \in [Request -> RequestRow]
  BY DEF Kept, WritesRows
<1>3. CASE UNCHANGED <<drafts, request>>
  BY <1>1, <1>2, <1>3, RequestsLeave
<1>4. CASE /\ IF open = {} THEN UNCHANGED drafts ELSE \E d \in open : drafts' = [drafts EXCEPT ![d].status = "CANCELLED"]
           /\ request' = [q \in Request |-> IF q \in answering THEN Core!NoRequest ELSE request[q]]
  <2>1. request' \in [Request -> RequestRow] /\ \A p \in Request : request'[p] = request[p] \/ request'[p].pc = "idle"
    <3>1. Core!NoRequest \in RequestRow /\ Core!NoRequest.pc = "idle"
      BY DEF Core!NoRequest, RequestRow
    <3>2. request' = [q \in Request |-> IF q \in answering THEN Core!NoRequest ELSE request[q]]
      BY <1>4
    <3> HIDE DEF answering
    <3>3. QED
      BY <3>1, <3>2, <1>2
  <2>2. CASE open = {}
    BY <1>1, <1>4, <2>1, <2>2, RequestsLeave
  <2>3. CASE open # {}
    <3>1. PICK d \in open : drafts' = [drafts EXCEPT ![d].status = "CANCELLED"]
      BY <1>4, <2>3
    <3>2. d \in Draft /\ drafts[d].status = "OPEN"
      BY <3>1
    <3> DEFINE row == [drafts[d] EXCEPT !.status = "CANCELLED"]
    <3>3. row \in DraftRow(ops) /\ row.status = "CANCELLED"
      BY <3>2 DEF DraftRow, Kept, WritesRows
    <3>4. drafts' = [drafts EXCEPT ![d] = row]
      BY <3>1
    <3>5. \A p \in Request : request'[p].pc = "checked" => request'[p].draft # d
      <4>1. Core!NoRequest.pc # "checked"
        BY DEF Core!NoRequest
      <4>2. QED
        BY <4>1, <3>1, <1>4
    <3>6. \A p \in Request : request'[p].pc = "checked" /\ request'[p].draft = d => row.status = "OPEN"
      BY <3>5
    <3>7. drafts[d].status # "CONFIRMED" /\ row.status # "CONFIRMED"
      BY <3>2, <3>3
    <3> HIDE DEF row, open, answering
    <3>8. QED
      BY <1>1, <2>1, <3>2, <3>3, <3>4, <3>6, <3>7, DraftMoves
  <2>4. QED
    BY <2>2, <2>3
<1>5. QED
  BY <1>3, <1>4 DEF Core!CloseProposal

LEMMA TakeStep ==
  ASSUME NEW ops, Kept(ops), NEW q \in Request, NEW k \in Token, Core!TakeToken(q, k)
  PROVE  Kept(ops)'
<1> DEFINE row == [Core!NoRequest EXCEPT !.pc = "redeeming", !.token = k]
<1>1. row \in RequestRow /\ row.pc = "redeeming" /\ row.token = k
  BY DEF Core!NoRequest, RequestRow
<1>2. request' = [request EXCEPT ![q] = row] /\ UNCHANGED <<category, drafts, tokens, written>>
  BY DEF Core!TakeToken, Core!worldVars
<1> HIDE DEF row
<1>3. /\ request' \in [Request -> RequestRow] /\ request'[q] = row
      /\ \A p \in Request : p # q => request'[p] = request[p]
  BY <1>1, <1>2 DEF Kept, WritesRows
<1>4. ~tokens[k].used /\ \A p \in Request : ~(Redeeming(p) /\ request[p].token = k)
  BY DEF Core!TakeToken, Core!TokenLocked, Core!Replays, Redeeming
<1>5. WritesRows(ops)'
  BY <1>2, <1>3 DEF Kept, WritesRows
<1>6. HeldInv'
  BY <1>1, <1>2, <1>3, <1>4 DEF Kept, HeldInv, Answering, Checked, Redeeming
<1>7. QED
  BY <1>2, <1>5, <1>6, NothingWritten DEF Kept

LEMMA BindStep ==
  ASSUME NEW ops, Kept(ops), NEW q \in Request, Core!BindCategory(q)
  PROVE  Kept(ops)'
<1> DEFINE k == request[q].token
<1>1. UNCHANGED <<category, drafts, tokens, written>> /\ request[q].pc = "redeeming"
  BY DEF Core!BindCategory, Core!worldVars
<1>2. k \in Token /\ tokens[k].binding = 1 /\ request \in [Request -> RequestRow]
  BY <1>1 DEF Kept, HeldInv, Redeeming, WritesRows, TokenRow
<1>3. CASE Core!Done(q)
  BY <1>1, <1>2, <1>3, RequestEnds, RequestsLeave
<1>4. CASE /\ tokens[k].op = "create" => category = [active |-> TRUE, version |-> tokens[k].binding]
           /\ Core!Go(q, "bound")
  <2>1. /\ request' \in [Request -> RequestRow]
        /\ request'[q].pc = "bound" /\ request'[q].token = k
        /\ \A p \in Request : p # q => request'[p] = request[p]
    BY <1>2, <1>4, RequestGoes
  <2>2. WritesRows(ops)'
    BY <1>1, <2>1 DEF Kept, WritesRows
  <2>3. tokens[k].op = "create" => category.version = 1
    BY <1>2, <1>4
  <2>4. Redeeming(q)
    BY <1>1 DEF Redeeming
  <2>5. HeldInv'
    <3> HIDE DEF k
    <3>1. QED
      BY <1>1, <1>2, <2>1, <2>3, <2>4 DEF Kept, HeldInv, Answering, Checked, Redeeming, k
  <2>6. QED
    BY <1>1, <2>2, <2>5, NothingWritten DEF Kept
<1>5. QED
  BY <1>3, <1>4 DEF Core!BindCategory

LEMMA RedeemStep ==
  ASSUME NEW ops, Kept(ops), NEW q \in Request, Core!Redeem(q)
  PROVE  \E more : Kept(more)'
<1>0. PICK k, op : k = request[q].token /\ op = tokens[k].op
  OBVIOUS
<1> DEFINE more == ops \cup {op}
<1>1. UNCHANGED <<category, drafts>> /\ request[q].pc = "bound" /\ Core!Done(q)
  BY DEF Core!Redeem, Core!worldVars
<1>2. /\ k \in Token /\ ~tokens[k].used /\ tokens[k].binding = 1 /\ request \in [Request -> RequestRow]
      /\ tokens \in [Token -> TokenRow]
  BY <1>0, <1>1 DEF Kept, HeldInv, Redeeming, WritesRows, TokenRow
<1>3. op = "create" => category.version = 1
  BY <1>0, <1>1 DEF Kept, HeldInv
<1>4. /\ request' \in [Request -> RequestRow] /\ request'[q].pc = "idle"
      /\ \A p \in Request : p # q => request'[p] = request[p]
  BY <1>1, <1>2, RequestEnds
<1>5. CASE UNCHANGED <<tokens, written>>
  <2>1. Kept(ops)'
    BY <1>1, <1>4, <1>5, RequestsLeave
  <2>2. QED
    BY <2>1
<1>6. CASE tokens' = [tokens EXCEPT ![k].used = TRUE] /\ written' = Core!Written(<<"token", k>>, tokens[k].op)
  <2> DEFINE who == <<"token", k>>
  <2>1. /\ tokens' \in [Token -> TokenRow] /\ tokens'[k].used
        /\ \A j \in Token : j # k => tokens'[j] = tokens[j]
        /\ \A j \in Token : tokens'[j].op = tokens[j].op /\ tokens'[j].binding = tokens[j].binding
    BY <1>2, <1>6 DEF TokenRow
  <2>2. who \in Who /\ ~WrittenBy(who)
    BY <1>2 DEF Who, Kept, WrittenInv
  <2>3. written' = Append(written, [by |-> who, op |-> op, version |-> category.version])
    BY <1>0, <1>6, <2>2 DEF Core!Written, WrittenBy
  <2>4. Kept(more)
    BY OneMoreName
  <2>5. /\ written' \in Seq(WrittenRow(more))
        /\ DOMAIN written' = DOMAIN written \cup {Len(written) + 1}
        /\ \A n \in DOMAIN written : n # Len(written) + 1 /\ written'[n] = written[n]
        /\ written'[Len(written) + 1] = [by |-> who, op |-> op, version |-> category.version]
        /\ \A n, m \in DOMAIN written' : written'[n].by = written'[m].by => n = m
        /\ \A other : WrittenBy(other)' <=> WrittenBy(other) \/ other = who
    <3>1. op \in more
      OBVIOUS
    <3>2. WritesRows(more) /\ WrittenInv
      BY <2>4 DEF Kept
    <3> HIDE DEF who, more
    <3>3. QED
      BY <2>2, <2>3, <3>1, <3>2, OneMoreWrite
  <2>6. WritesRows(more)'
    <3> HIDE DEF more
    <3>1. category \in [active : BOOLEAN, version : Nat] /\ drafts \in [Draft -> DraftRow(more)]
      BY <2>4 DEF Kept, WritesRows
    <3>2. QED
      BY <1>1, <1>4, <2>1, <2>5, <3>1 DEF WritesRows
  <2>7. \A p \in Request : Redeeming(p)' => request'[p].token # k
    BY <1>0, <1>1, <1>4 DEF Kept, HeldInv, Redeeming
  <2>8. HeldInv'
    BY <1>1, <1>2, <1>4, <2>1, <2>7 DEF Kept, HeldInv, Answering, Checked, Redeeming
  <2>9. WrittenInv'
    <3>1. \A d \in Draft : drafts'[d].status = "CONFIRMED" <=> WrittenBy(<<"draft", d>>)'
      <4>1. ASSUME NEW d \in Draft PROVE <<"draft", d>> # who
        OBVIOUS
      <4> HIDE DEF who
      <4>2. \A d \in Draft : drafts[d].status = "CONFIRMED" <=> WrittenBy(<<"draft", d>>)
        BY DEF Kept, WrittenInv
      <4>3. QED
        BY <4>1, <4>2, <1>1, <2>5
    <3>2. \A j \in Token : tokens'[j].used <=> WrittenBy(<<"token", j>>)'
      <4>1. ASSUME NEW j \in Token PROVE <<"token", j>> = who <=> j = k
        OBVIOUS
      <4> HIDE DEF who
      <4>2. \A j \in Token : tokens[j].used <=> WrittenBy(<<"token", j>>)
        BY DEF Kept, WrittenInv
      <4>3. QED
        BY <4>1, <4>2, <2>1, <2>5
    <3>3. Core!TokenCategoryHolds'
      <4> SUFFICES ASSUME NEW n \in DOMAIN written', written'[n].by[1] = "token", written'[n].op = "create"
                   PROVE  written'[n].version = tokens'[written'[n].by[2]].binding
        BY DEF Core!TokenCategoryHolds
      <4>1. CASE n = Len(written) + 1
        <5>1. written'[n].by = who /\ written'[n].op = op /\ written'[n].version = category.version
          BY <2>5, <4>1
        <5>2. who[2] = k
          OBVIOUS
        <5>3. QED
          BY <5>1, <5>2, <1>2, <1>3, <2>1
      <4>2. CASE n \in DOMAIN written
        <5>1. written'[n] = written[n]
          BY <2>5, <4>2
        <5>2. written[n].version = tokens[written[n].by[2]].binding
          BY <5>1, <4>2 DEF Kept, WrittenInv, Core!TokenCategoryHolds
        <5>3. written[n].by[2] \in Token
          <6>1. written[n].by \in Who
            <7>1. written \in Seq(WrittenRow(ops))
              BY DEF Kept, WritesRows
            <7>2. n \in 1..Len(written)
              BY <7>1, <4>2
            <7>3. written[n] \in WrittenRow(ops)
              BY <7>1, <7>2, ElementOfSeq
            <7>4. QED
              BY <7>3 DEF WrittenRow
          <6>2. QED
            BY <6>1, <5>1 DEF Who
        <5>4. QED
          BY <5>1, <5>2, <5>3, <2>1
      <4>3. QED
        BY <4>1, <4>2, <2>5
    <3> HIDE DEF who
    <3>4. QED
      BY <3>1, <3>2, <3>3, <2>5 DEF WrittenInv
  <2> HIDE DEF more
  <2>10. QED
    BY <2>6, <2>8, <2>9 DEF Kept
<1>7. QED
  BY <1>0, <1>5, <1>6 DEF Core!Redeem

LEMMA RowsStay ==
  ASSUME NEW ops, Kept(ops), UNCHANGED <<category, drafts, tokens, request, written>>
  PROVE  Kept(ops)'
BY DEF Kept, WritesRows, HeldInv, Answering, Checked, Redeeming, WrittenInv, WrittenBy, Core!TokenCategoryHolds

LEMMA WritesNextStep == ASSUME NEW ops, Kept(ops), Core!WritesNext PROVE WritesInv'
<1>1. CASE Core!Regrant
  BY <1>1, RegrantStep DEF WritesInv
<1>2. CASE Core!RunsOut
  BY <1>2, RunsOutStep DEF WritesInv
<1>3. CASE \E q \in Request, d \in Draft, action \in {"CONFIRM", "CANCEL"} : Core!Answer(q, d, action)
  BY <1>3, AnswerStep DEF WritesInv
<1>4. CASE \E q \in Request : Core!ExpireDraft(q)
  BY <1>4, ExpireStep DEF WritesInv
<1>5. CASE \E q \in Request : Core!CheckDraft(q)
  BY <1>5, CheckStep DEF WritesInv
<1>6. CASE \E q \in Request : Core!CommitDraft(q)
  BY <1>6, CommitStep DEF WritesInv
<1>7. CASE \E q \in Request : Core!BindCategory(q)
  BY <1>7, BindStep DEF WritesInv
<1>8. CASE \E q \in Request : Core!Redeem(q)
  BY <1>8, RedeemStep DEF WritesInv
<1>9. CASE \E q \in Request, k \in Token : Core!TakeToken(q, k)
  BY <1>9, TakeStep DEF WritesInv
<1>10. QED
  BY <1>1, <1>2, <1>3, <1>4, <1>5, <1>6, <1>7, <1>8, <1>9 DEF Core!WritesNext

\* The loop reaches the writes through its proposals only.
LEMMA LoopReaches ==
  ASSUME Core!LoopNext
  PROVE  (\E op : Core!Proposed(op)) \/ Core!CloseProposal \/ UNCHANGED <<category, drafts, tokens, request, written>>
<1>1. ASSUME NEW w \in Worker, Core!AbortProposal(w)
      PROVE  Core!CloseProposal \/ UNCHANGED <<category, drafts, tokens, request, written>>
  BY <1>1 DEF Core!AbortProposal, Core!writesVars, Core!worldVars
<1>2. ASSUME NEW w \in Worker, NEW i \in 1..MaxParallel, Core!ProposeCall(w, i)
      PROVE  (\E op : Core!Proposed(op)) \/ UNCHANGED <<category, drafts, tokens, request, written>>
  BY <1>2 DEF Core!ProposeCall, Core!writesVars, Core!worldVars
<1>3. ASSUME NEW w \in Worker,
             Core!HeartbeatFinds(w) \/ Core!ModelEnds(w) \/ Core!RoundsSpent(w) \/ Core!Collect(w)
             \/ Core!Complete(w) \/ Core!FailTurn(w) \/ Core!LeaveTurn(w)
      PROVE  UNCHANGED <<category, drafts, tokens, request, written>>
  BY <1>3 DEF Core!HeartbeatFinds, Core!ModelEnds, Core!RoundsSpent, Core!Collect, Core!Complete, Core!FailTurn, Core!LeaveTurn,
              Core!writesVars, Core!worldVars
<1>4. ASSUME Core!LoseTurn \/ Core!CancelTurn \/ (\E w \in Worker, chosen \in BOOLEAN : Core!BeginAttempt(w, chosen))
             \/ (\E w \in Worker, response \in Core!Response : Core!ModelCalls(w, response))
      PROVE  UNCHANGED <<category, drafts, tokens, request, written>>
  BY <1>4 DEF Core!LoseTurn, Core!CancelTurn, Core!BeginAttempt, Core!ModelCalls, Core!writesVars, Core!worldVars
<1>5. ASSUME NEW w \in Worker, NEW i \in 1..MaxParallel,
             (\E result \in Result : Core!InvokeRead(w, i, result)) \/ Core!InvokeProposal(w, i)
      PROVE  UNCHANGED <<category, drafts, tokens, request, written>>
  BY <1>5 DEF Core!InvokeRead, Core!InvokeProposal, Core!writesVars, Core!worldVars
<1>6. QED
  BY <1>1, <1>2, <1>3, <1>4, <1>5 DEF Core!LoopNext

LEMMA LoopNextStep == ASSUME NEW ops, Kept(ops), Core!LoopNext PROVE WritesInv'
<1>1. CASE UNCHANGED <<category, drafts, tokens, request, written>>
  BY <1>1, RowsStay DEF WritesInv
<1>2. CASE Core!CloseProposal
  BY <1>2, CloseProposalStep DEF WritesInv
<1>3. CASE \E op : Core!Proposed(op)
  <2>1. PICK op : Core!Proposed(op)
    BY <1>3
  <2>2. Kept(ops \cup {op})'
    BY <2>1, ProposedStep
  <2>3. QED
    BY <2>2 DEF WritesInv
<1>4. QED
  BY <1>1, <1>2, <1>3, LoopReaches

LEMMA WritesInvStep == WritesInv /\ [AgentNext]_<<vars, coreVars>> => WritesInv'
<1> SUFFICES ASSUME WritesInv, [AgentNext]_<<vars, coreVars>> PROVE WritesInv'
  OBVIOUS
<1>1. PICK ops : Kept(ops)
  BY DEF WritesInv
<1>2. CASE UNCHANGED <<category, drafts, tokens, request, written>>
  BY <1>1, <1>2, RowsStay DEF WritesInv
<1>3. CASE Core!MemoryStep
  BY <1>2, <1>3 DEF Core!MemoryStep, Core!writesVars, Core!worldVars
<1>4. CASE Core!LoopStep
  BY <1>1, <1>4, LoopNextStep DEF Core!LoopStep
<1>5. CASE Core!WritesStep
  BY <1>1, <1>5, WritesNextStep DEF Core!WritesStep
<1>6. CASE Core!BesideStep
  <2>1. CASE \E op : Core!Proposed(op)
    <3>1. PICK op : Core!Proposed(op)
      BY <2>1
    <3>2. Kept(ops \cup {op})'
      BY <1>1, <3>1, ProposedStep
    <3>3. QED
      BY <3>2 DEF WritesInv
  <2>2. CASE Core!EndBeside
    BY <1>2, <2>2 DEF Core!EndBeside, Core!worldVars
  <2>3. QED
    BY <1>6, <2>1, <2>2 DEF Core!BesideStep, Core!Beside, Core!ProposeBeside
<1>7. CASE Core!AbortStep
  BY <1>1, <1>7, CloseProposalStep DEF Core!AbortStep, Core!AbortBeside, WritesInv
<1>8. CASE TurnStep \/ UNCHANGED <<vars, coreVars>>
  BY <1>2, <1>8 DEF TurnStep, coreVars
<1>9. QED
  BY <1>3, <1>4, <1>5, <1>6, <1>7, <1>8 DEF AgentNext, CoreStep, Core!Next

LEMMA WritesInvHolds == AgentSpec => []WritesInv
<1>1. AgentInit => WritesInv
  BY InitWrites DEF AgentInit, Core!Init
<1>2. QED
  BY <1>1, WritesInvStep, PTL DEF AgentSpec

\* The instance counts as everybody does.
LEMMA CardinalityIsOne == ASSUME NEW S PROVE Core!Cardinality(S) = Cardinality(S)
BY Zenon DEF Core!Cardinality, Cardinality

\* What is counted is nothing or one write.
LEMMA WritesCounted ==
  ASSUME WrittenInv, NEW who
  PROVE  Core!Cardinality({n \in DOMAIN written : written[n].by = who}) = IF WrittenBy(who) THEN 1 ELSE 0
<1> DEFINE by == {n \in DOMAIN written : written[n].by = who}
<1>1. CASE WrittenBy(who)
  <2>1. PICK n \in DOMAIN written : written[n].by = who
    BY <1>1 DEF WrittenBy
  <2>2. by = {n}
    BY <2>1 DEF WrittenInv
  <2> HIDE DEF by
  <2>3. Core!Cardinality(by) = 1
    BY <2>2, FS_Singleton, CardinalityIsOne
  <2>4. QED
    BY <1>1, <2>3 DEF by
<1>2. CASE ~WrittenBy(who)
  <2>1. by = {}
    BY <1>2 DEF WrittenBy
  <2> HIDE DEF by
  <2>2. Core!Cardinality(by) = 0
    BY <2>1, FS_EmptySet, CardinalityIsOne
  <2>3. QED
    BY <1>2, <2>2 DEF by
<1>3. QED
  BY <1>1, <1>2

LEMMA WritesInvTells == WritesInv => AnswersHaveTheirWrites
<1> SUFFICES ASSUME WritesInv PROVE AnswersHaveTheirWrites
  OBVIOUS
<1>1. WrittenInv
  BY DEF WritesInv, Kept
<1>2. Core!EachAnswerHasItsWrite
  <2>1. ASSUME NEW d \in Draft
        PROVE Core!Cardinality({n \in DOMAIN written : written[n].by = <<"draft", d>>}) = IF drafts[d].status = "CONFIRMED" THEN 1 ELSE 0
    <3>1. drafts[d].status = "CONFIRMED" <=> WrittenBy(<<"draft", d>>)
      BY <1>1 DEF WrittenInv
    <3>2. QED
      BY <1>1, <3>1, WritesCounted
  <2>2. ASSUME NEW k \in Token
        PROVE Core!Cardinality({n \in DOMAIN written : written[n].by = <<"token", k>>}) = IF tokens[k].used THEN 1 ELSE 0
    <3>1. tokens[k].used <=> WrittenBy(<<"token", k>>)
      BY <1>1 DEF WrittenInv
    <3>2. QED
      BY <1>1, <3>1, WritesCounted
  <2>3. QED
    BY <2>1, <2>2 DEF Core!EachAnswerHasItsWrite
<1>3. QED
  BY <1>1, <1>2 DEF WrittenInv, AnswersHaveTheirWrites, Core!AnswersHaveTheirWrites

\* Writes and answers go together, for any number of drafts, tokens and requests under way:
\* a confirmed draft or a used token has exactly one write, and no other draft or token has one; a
\* redeemed report lands in the category its token was issued for.
THEOREM WritesAreAnswered == AgentSpec => []AnswersHaveTheirWrites
BY WritesInvHolds, WritesInvTells, PTL

-----------------------------------------------------------------------------
(* Neither takes back what was done.                                         *)

EndsTurn ==
    \A d \in Draft : drafts[d].status = "OPEN" /\ drafts'[d].status = "CONFIRMED"
          => turn = "WAITING" /\ turn' = "COMPLETED"

LEMMA DraftNotConfirmed ==
  ASSUME NEW ops, Kept(ops), NEW e \in Draft, NEW status \in {"OPEN", "CANCELLED", "EXPIRED"}, NEW row, row.status = status,
         drafts' = [drafts EXCEPT ![e] = row]
  PROVE  EndsTurn
BY DEF EndsTurn, Kept, WritesRows

LEMMA CommitEndsTurn ==
  ASSUME NEW ops, Kept(ops), NEW q \in Request, Core!CommitDraft(q)
  PROVE  EndsTurn
<1> DEFINE e == request[q].draft
<1>1. e \in Draft /\ drafts \in [Draft -> DraftRow(ops)]
  BY DEF Core!CommitDraft, Kept, HeldInv, Answering, WritesRows
<1>2. CASE UNCHANGED drafts
  BY <1>2 DEF EndsTurn
<1>3. CASE drafts' = [drafts EXCEPT ![e].status = "CANCELLED"]
  <2>1. \A d \in Draft : drafts'[d].status = "CONFIRMED" => drafts[d].status = "CONFIRMED"
    BY <1>1, <1>3 DEF DraftRow
  <2>2. QED
    BY <2>1 DEF EndsTurn
<1>4. CASE turn = "WAITING" /\ turn' = "COMPLETED"
  BY <1>4 DEF EndsTurn
<1>5. QED
  BY <1>2, <1>3, <1>4 DEF Core!CommitDraft, Core!Waits

LEMMA DraftsMove ==
  ASSUME NEW ops, Kept(ops), Core!RunsOut \/ Core!CloseProposal \/ (\E q \in Request : Core!ExpireDraft(q)) \/ (\E op : Core!Proposed(op))
  PROVE  EndsTurn
<1>1. drafts \in [Draft -> DraftRow(ops)]
  BY DEF Kept, WritesRows
<1>2. CASE UNCHANGED drafts
  BY <1>2 DEF EndsTurn
<1>3. ASSUME NEW e \in Draft, NEW status \in {"CANCELLED", "EXPIRED"}, drafts' = [drafts EXCEPT ![e].status = status]
      PROVE  EndsTurn
  <2>1. PICK row : row = [drafts[e] EXCEPT !.status = status]
    OBVIOUS
  <2>2. row.status = status /\ drafts' = [drafts EXCEPT ![e] = row]
    BY <1>1, <1>3, <2>1 DEF DraftRow
  <2>3. QED
    BY <2>2, DraftNotConfirmed
<1>4. CASE Core!RunsOut
  <2>1. PICK e \in Draft : drafts[e].status = "OPEN" /\ drafts' = [drafts EXCEPT ![e].late = TRUE]
    BY <1>4 DEF Core!RunsOut
  <2>2. PICK row : row = [drafts[e] EXCEPT !.late = TRUE]
    OBVIOUS
  <2>3. row.status = "OPEN" /\ drafts' = [drafts EXCEPT ![e] = row]
    BY <1>1, <2>1, <2>2 DEF DraftRow
  <2>4. QED
    BY <2>3, DraftNotConfirmed
<1>5. CASE Core!CloseProposal
  <2>1. UNCHANGED drafts \/ \E e \in Draft : drafts' = [drafts EXCEPT ![e].status = "CANCELLED"]
    BY <1>5 DEF Core!CloseProposal
  <2>2. QED
    BY <1>2, <1>3, <2>1
<1>6. CASE \E q \in Request : Core!ExpireDraft(q)
  <2>1. PICK q \in Request : Core!ExpireDraft(q)
    BY <1>6
  <2>2. request[q].draft \in Draft
    BY <2>1 DEF Core!ExpireDraft, Kept, HeldInv, Answering
  <2>3. UNCHANGED drafts \/ drafts' = [drafts EXCEPT ![request[q].draft].status = "EXPIRED"]
    BY <2>1 DEF Core!ExpireDraft
  <2>4. QED
    BY <1>2, <1>3, <2>2, <2>3
<1>7. CASE \E op : Core!Proposed(op)
  <2>1. PICK op : Core!Proposed(op)
    BY <1>7
  <2>2. PICK row : row = [Core!NoDraft EXCEPT !.status = "OPEN", !.op = op]
    OBVIOUS
  <2>3. PICK e \in Draft : drafts' = [drafts EXCEPT ![e] = row]
    BY <2>1, <2>2 DEF Core!Proposed, Core!FreshDraft
  <2>4. row.status = "OPEN"
    <3>1. row = [status |-> "OPEN", op |-> op, late |-> FALSE]
      BY <2>2, NewRow
    <3>2. QED
      BY <3>1
  <2>5. QED
    BY <2>3, <2>4, DraftNotConfirmed
<1>8. QED
  BY <1>4, <1>5, <1>6, <1>7

LEMMA StepEndsTurn == WritesInv /\ [AgentNext]_<<vars, coreVars>> => EndsTurn
<1> SUFFICES ASSUME WritesInv, [AgentNext]_<<vars, coreVars>> PROVE EndsTurn
  OBVIOUS
<1>1. PICK ops : Kept(ops)
  BY DEF WritesInv
<1>2. CASE UNCHANGED drafts
  BY <1>2 DEF EndsTurn
<1>3. CASE Core!RunsOut \/ Core!CloseProposal \/ (\E q \in Request : Core!ExpireDraft(q)) \/ (\E op : Core!Proposed(op))
  BY <1>1, <1>3, DraftsMove
<1>4. CASE \E q \in Request : Core!CommitDraft(q)
  BY <1>1, <1>4, CommitEndsTurn
<1>5. CASE Core!MemoryStep
  BY <1>2, <1>5 DEF Core!MemoryStep, Core!writesVars
<1>6. CASE Core!LoopStep
  <2>1. (\E op : Core!Proposed(op)) \/ Core!CloseProposal \/ UNCHANGED drafts
    BY <1>6, LoopReaches DEF Core!LoopStep
  <2>2. QED
    BY <1>2, <1>3, <2>1
<1>7. CASE Core!WritesStep
  <2>1. ASSUME NEW q \in Request, Core!CheckDraft(q) \/ Core!BindCategory(q) \/ Core!Redeem(q)
        PROVE  UNCHANGED drafts
    BY <2>1 DEF Core!CheckDraft, Core!BindCategory, Core!Redeem
  <2>2. ASSUME NEW q \in Request, (\E d \in Draft, action \in {"CONFIRM", "CANCEL"} : Core!Answer(q, d, action))
                                  \/ (\E k \in Token : Core!TakeToken(q, k))
        PROVE  UNCHANGED drafts
    BY <2>2 DEF Core!Answer, Core!TakeToken
  <2>3. Core!Regrant => UNCHANGED drafts
    BY DEF Core!Regrant
  <2>4. QED
    BY <1>2, <1>3, <1>4, <1>7, <2>1, <2>2, <2>3 DEF Core!WritesStep, Core!WritesNext
<1>8. CASE Core!BesideStep
  BY <1>2, <1>3, <1>8 DEF Core!BesideStep, Core!Beside, Core!ProposeBeside, Core!EndBeside
<1>9. CASE Core!AbortStep
  BY <1>3, <1>9 DEF Core!AbortStep, Core!AbortBeside
<1>10. CASE TurnStep \/ UNCHANGED <<vars, coreVars>>
  BY <1>2, <1>10 DEF TurnStep, coreVars
<1>11. QED
  BY <1>5, <1>6, <1>7, <1>8, <1>9, <1>10 DEF AgentNext, CoreStep, Core!Next

\* No step takes back what another has done: a summary is only replaced by one written over
\* it that covers more; a draft is confirmed only while its turn waits, and ends it at once.
THEOREM NothingTakenBack == AgentSpec => NothingIsTakenBack
<1>1. ASSUME MemoryInv, [AgentNext]_<<vars, coreVars>>
      PROVE  summary'.through >= summary.through /\ summary'.version >= summary.version
             /\ (summary' # summary => summary'.version > summary.version /\ summary'.through > summary.through)
  <2>1. MemoryInv' /\ Grows
    BY <1>1, MemoryInvStep
  <2>2. /\ summary.through \in Nat /\ summary.version \in Nat
        /\ summary'.through \in Nat /\ summary'.version \in Nat
    BY <1>1, <2>1 DEF MemoryInv
  <2>3. QED
    BY <2>1, <2>2 DEF Grows
<1>2. AgentSpec => Core!MemoryOnlyGrows
  BY <1>1, MemoryInvHolds, PTL DEF AgentSpec, Core!MemoryOnlyGrows
<1>3. AgentSpec => Core!AnswerEndsTurn
  BY StepEndsTurn, WritesInvHolds, PTL DEF AgentSpec, Core!AnswerEndsTurn, EndsTurn
<1>4. QED
  BY <1>2, <1>3, PTL DEF NothingIsTakenBack, Core!NothingIsTakenBack

-----------------------------------------------------------------------------
(* The turn.  Its properties need each other and three facts of their own:   *)
(* how the rows refer to each other (Linked), that an attempt is left to a   *)
(* task that may be claimed (Budget), and that a task about to succeed has   *)
(* moved its turn on already (PendingSuccess).                               *)


\* A task that does not exist has left no trace, one that does carries a turn, and a
\* turn's task carries that turn; a question belongs to a turn.
Linked ==
    /\ \A t \in Task : taskStatus[t] = "none" =>
          /\ taskTurn[t] = 0 /\ attempt[t] = 0 /\ ended[t] = "none"
          /\ \A a \in Attempt : pc[t][a] = "none"
    /\ \A t \in Task : taskStatus[t] # "none" => taskTurn[t] # 0
    /\ \A e \in Turn : turnTask[e] # 0 => taskTurn[turnTask[e]] = e
    /\ \A e \in Turn : turnStatus[e] = "RUNNING" => turnTask[e] # 0
    /\ \A i \in Ask : asks[i].status = "OPEN" => asks[i].turn # 0

Budget == \A t \in Task : taskStatus[t] \in {"QUEUED", "RETRY_WAIT"} => attempt[t] < MaxAttempts

\* The turn a finished answer or a proposal belongs to does not run any more.
PendingSuccess ==
    \A t \in Task, a \in Attempt :
        pc[t][a] \in {"success", "proposed"} /\ OwnTurn(t) => turnStatus[taskTurn[t]] # "RUNNING"

Shape == TypeOK /\ Linked /\ Budget

TurnInv == /\ Shape /\ PendingSuccess
           /\ WaitingHasOpenAsk /\ StreamAgreesWithTurn /\ SuccessSettlesTurn /\ AnsweredTaskIsNotRerun

USE AgentTurnAssumption DEF Turn, Task, Attempt, Ask

LEMMA InitTurnInv == Init => TurnInv
<1> SUFFICES ASSUME Init PROVE TurnInv
  OBVIOUS
<1> USE DEF Init
<1>1. TypeOK
  <2>1. /\ taskStatus \in [Task -> ActiveStatus \cup {"none", "SUCCEEDED", "FAILED", "CANCELLED"}]
        /\ attempt \in [Task -> 0..MaxAttempts] /\ taskTurn \in [Task -> 0..MaxTurns]
        /\ turnTask \in [Turn -> 0..MaxTasks]
    OBVIOUS
  <2>2. /\ cancel \in [Task -> BOOLEAN] /\ ended \in [Task -> {"none", "COMPLETED", "ERROR"}]
        /\ full \in BOOLEAN /\ deleted \in BOOLEAN
    OBVIOUS
  <2>3. pc \in [Task -> [Attempt -> Place]]
    BY DEF Place
  <2>4. NoAsk \in [turn : 0..MaxTurns, kind : {"none", "PROJECT_SELECTION", "WRITE_CONFIRMATION"},
                    status : {"none", "OPEN", "RESOLVED", "CANCELLED", "EXPIRED"}]
    BY DEF NoAsk
  <2>5. QED
    BY <2>1, <2>2, <2>3, <2>4 DEF TypeOK
<1>2. Linked /\ Budget
  BY DEF Linked, Budget, NoAsk
<1>3. PendingSuccess /\ AnsweredTaskIsNotRerun
  BY DEF PendingSuccess, AnsweredTaskIsNotRerun
<1>4. WaitingHasOpenAsk /\ StreamAgreesWithTurn /\ SuccessSettlesTurn
  BY DEF WaitingHasOpenAsk, StreamAgreesWithTurn, SuccessSettlesTurn
<1>5. QED
  BY <1>1, <1>2, <1>3, <1>4 DEF TurnInv, Shape

-----------------------------------------------------------------------------
\* A task whose attempt is somewhere exists and carries a turn.
LEMMA AttemptHasTurn ==
  ASSUME Shape, NEW t \in Task, NEW a \in Attempt, pc[t][a] # "none"
  PROVE  taskStatus[t] # "none" /\ taskTurn[t] \in Turn
BY DEF Shape, TypeOK, Linked

AskRow == [turn : 0..MaxTurns, kind : {"none", "PROJECT_SELECTION", "WRITE_CONFIRMATION"},
           status : {"none", "OPEN", "RESOLVED", "CANCELLED", "EXPIRED"}]

\* Closing a question touches nothing else of it.
LEMMA ClosedAsks ==
  ASSUME asks \in [Ask -> AskRow], NEW i \in Ask,
         NEW status \in {"RESOLVED", "CANCELLED", "EXPIRED"}, Close(i, status)
  PROVE  /\ asks' \in [Ask -> AskRow]
         /\ \A j \in Ask : j # i => asks'[j] = asks[j]
         /\ asks'[i].status # "OPEN"
BY DEF Close, AskRow

\* A new task is dispatched for turn e, which now runs.
LEMMA EnqueueStep ==
  ASSUME TurnInv, NEW e \in Turn, NEW t \in FreshTask, Enqueue(t, e),
         turnStatus' = [turnStatus EXCEPT ![e] = "RUNNING"],
         resume' \in [Turn -> {"none", "selectedProject", "selectionCandidates"}],
         asks' \in [Ask -> AskRow],
         \A i \in Ask : asks'[i] = asks[i] \/ (asks[i].turn = e /\ asks'[i].status # "OPEN"),
         UNCHANGED <<cancel, ended, pc, full, deleted>>
  PROVE  TurnInv'
<1> USE DEF TurnInv, Shape
<1>a. /\ t \in Task /\ taskStatus[t] = "none" /\ taskTurn[t] = 0 /\ attempt[t] = 0
      /\ ended[t] = "none" /\ \A b \in Attempt : pc[t][b] = "none"
  BY DEF Linked, FreshTask
<1>b. /\ taskStatus' = [taskStatus EXCEPT ![t] = "QUEUED"]
      /\ taskTurn' = [taskTurn EXCEPT ![t] = e] /\ turnTask' = [turnTask EXCEPT ![e] = t]
      /\ attempt' = attempt
  BY DEF Enqueue
<1>c. /\ DOMAIN taskStatus = Task /\ taskTurn \in [Task -> 0..MaxTurns]
      /\ DOMAIN turnStatus = Turn
      /\ turnTask \in [Turn -> 0..MaxTasks] /\ asks \in [Ask -> AskRow]
  BY DEF TypeOK, AskRow
<1>d. \A d \in Turn : turnTask[d] # t
  BY <1>a DEF Linked
<1>1. TypeOK'
  <2>1. /\ taskStatus' \in [Task -> ActiveStatus \cup {"none", "SUCCEEDED", "FAILED", "CANCELLED"}]
        /\ \A u \in Task : taskStatus'[u] = "RUNNING" => attempt'[u] > 0
    BY <1>a, <1>b DEF TypeOK, ActiveStatus
  <2>2. /\ taskTurn' \in [Task -> 0..MaxTurns] /\ turnTask' \in [Turn -> 0..MaxTasks]
        /\ attempt' \in [Task -> 0..MaxAttempts]
    BY <1>a, <1>b DEF TypeOK
  <2>3. turnStatus' \in [Turn -> {"none", "RUNNING", "WAITING", "COMPLETED", "FAILED", "CANCELLED"}]
    BY DEF TypeOK
  <2>4. /\ cancel' \in [Task -> BOOLEAN] /\ ended' \in [Task -> {"none", "COMPLETED", "ERROR"}]
        /\ pc' \in [Task -> [Attempt -> Place]] /\ full' \in BOOLEAN /\ deleted' \in BOOLEAN
    BY DEF TypeOK
  <2>5. QED
    BY <2>1, <2>2, <2>3, <2>4 DEF TypeOK, AskRow
<1>2. Linked' /\ Budget'
  <2>1. \A d \in Turn : turnTask'[d] # 0 => taskTurn'[turnTask'[d]] = d
    BY <1>a, <1>b, <1>c, <1>d DEF Linked
  <2>2. \A u \in Task : taskStatus'[u] # "none" => taskTurn'[u] # 0
    BY <1>b, <1>c DEF Linked
  <2>3. \A u \in Task : taskStatus'[u] = "none" =>
          /\ taskTurn'[u] = 0 /\ attempt'[u] = 0 /\ ended'[u] = "none"
          /\ \A b \in Attempt : pc'[u][b] = "none"
    BY <1>a, <1>b, <1>c DEF Linked
  <2>4. \A d \in Turn : turnStatus'[d] = "RUNNING" => turnTask'[d] # 0
    BY <1>a, <1>b, <1>c DEF Linked
  <2>5. \A i \in Ask : asks'[i].status = "OPEN" => asks'[i].turn # 0
    BY DEF Linked
  <2>6. Budget'
    BY <1>a, <1>b, <1>c DEF Budget
  <2>7. QED
    BY <2>1, <2>2, <2>3, <2>4, <2>5, <2>6 DEF Linked
<1>3. \A u \in Task : taskTurn[u] # 0 /\ OwnTurn(u)' =>
        u = t \/ (OwnTurn(u) /\ taskTurn'[u] = taskTurn[u] /\ taskTurn[u] # e)
  BY <1>a, <1>b DEF OwnTurn, TypeOK
<1>4. PendingSuccess'
  <2> SUFFICES ASSUME NEW u \in Task, NEW b \in Attempt,
                      pc[u][b] \in {"success", "proposed"}, OwnTurn(u)'
               PROVE  turnStatus'[taskTurn'[u]] # "RUNNING"
    BY DEF PendingSuccess
  <2>1. u # t /\ taskTurn[u] # 0
    BY <1>a DEF Linked
  <2>2. OwnTurn(u) /\ taskTurn'[u] = taskTurn[u] /\ taskTurn[u] \in Turn \ {e}
    BY <2>1, <1>c, <1>3
  <2>3. QED
    BY <2>2, <1>c DEF PendingSuccess
<1>5. AnsweredTaskIsNotRerun'
  <2> SUFFICES ASSUME NEW u \in Task, NEW b \in Attempt,
                      ended[u] = "COMPLETED", OwnTurn(u)', b = attempt[u]
               PROVE  pc[u][b] # "core"
    BY <1>b DEF AnsweredTaskIsNotRerun
  <2>1. u # t /\ taskTurn[u] # 0
    BY <1>a DEF Linked
  <2>2. QED
    BY <2>1, <1>3 DEF AnsweredTaskIsNotRerun
<1>6. WaitingHasOpenAsk'
  BY <1>c DEF WaitingHasOpenAsk, OpenAsks
<1>7. StreamAgreesWithTurn'
  BY <1>a, <1>b, <1>c DEF StreamAgreesWithTurn
<1>8. SuccessSettlesTurn'
  BY <1>a, <1>b, <1>c, <1>d DEF Linked, SuccessSettlesTurn
<1>9. QED
  BY <1>1, <1>2, <1>4, <1>5, <1>6, <1>7, <1>8

\* A question is closed and its turn ends, or was not waiting for it.
LEMMA CloseStep ==
  ASSUME TurnInv, NEW i \in Ask, asks[i].status = "OPEN",
         NEW status \in {"RESOLVED", "CANCELLED", "EXPIRED"}, Close(i, status),
         NEW new, turnStatus' = [turnStatus EXCEPT ![asks[i].turn] = new],
         \/ new \in {"COMPLETED", "CANCELLED"}
         \/ new = turnStatus[asks[i].turn] /\ new # "WAITING",
         UNCHANGED <<taskVars, cancel, ended, turnTask, resume, pc, full, deleted>>
  PROVE  TurnInv'
<1> USE DEF TurnInv, Shape, Close, taskVars
<1>0. asks[i].turn \in Turn
  BY DEF TypeOK, Linked
<1>1. TypeOK'
  BY <1>0 DEF TypeOK
<1>2. Linked' /\ Budget'
  BY <1>0 DEF TypeOK, Linked, Budget
<1>3. PendingSuccess' /\ AnsweredTaskIsNotRerun'
  BY <1>0 DEF TypeOK, Linked, PendingSuccess, AnsweredTaskIsNotRerun, OwnTurn
<1>4. WaitingHasOpenAsk'
  BY <1>0 DEF TypeOK, WaitingHasOpenAsk, OpenAsks
<1>5. StreamAgreesWithTurn' /\ SuccessSettlesTurn'
  BY <1>0 DEF TypeOK, StreamAgreesWithTurn, SuccessSettlesTurn
<1>6. QED
  BY <1>1, <1>2, <1>3, <1>4, <1>5

\* Flags nothing of which the invariant speaks.
LEMMA FlagStep ==
  ASSUME TurnInv, UNCHANGED <<taskVars, ended, turnVars, asks, pc>>,
         cancel' \in [Task -> BOOLEAN], full' \in BOOLEAN, deleted' \in BOOLEAN
  PROVE  TurnInv'
BY DEF TurnInv, Shape, TypeOK, Linked, Budget, PendingSuccess, WaitingHasOpenAsk, OpenAsks, OwnTurn,
       StreamAgreesWithTurn, SuccessSettlesTurn, AnsweredTaskIsNotRerun, taskVars, turnVars

LEMMA UserStep == ASSUME TurnInv, User PROVE TurnInv'
<1>0. /\ asks \in [Ask -> AskRow]
      /\ resume \in [Turn -> {"none", "selectedProject", "selectionCandidates"}]
      /\ \A i \in Ask : asks[i].status = "OPEN" => asks[i].turn \in Turn
  BY DEF TurnInv, Shape, TypeOK, Linked, AskRow
<1>1. ASSUME NEW e \in Turn, NEW t \in Task, Send(e, t) PROVE TurnInv'
  <2>1. \A i \in Ask : asks'[i] = asks[i]
    BY <1>1 DEF Send
  <2>2. asks' \in [Ask -> AskRow]
    BY <1>0, <1>1 DEF Send
  <2>3. resume' \in [Turn -> {"none", "selectedProject", "selectionCandidates"}]
    BY <1>0, <1>1 DEF Send
  <2>4. /\ t \in FreshTask /\ Enqueue(t, e) /\ turnStatus' = [turnStatus EXCEPT ![e] = "RUNNING"]
        /\ UNCHANGED <<cancel, ended, pc, full, deleted>>
    BY <1>1 DEF Send
  <2>5. QED
    BY <2>1, <2>2, <2>3, <2>4, EnqueueStep
<1>2. ASSUME NEW i \in Ask, NEW t \in Task, Select(i, t) PROVE TurnInv'
  <2>1. asks[i].turn \in Turn
    BY <1>0, <1>2 DEF Select, Answerable
  <2>2. resume' \in [Turn -> {"none", "selectedProject", "selectionCandidates"}]
    BY <1>0, <1>2 DEF Select
  <2>3. /\ asks' \in [Ask -> AskRow]
        /\ \A j \in Ask : asks'[j] = asks[j] \/ (asks[j].turn = asks[i].turn /\ asks'[j].status # "OPEN")
    <3>1. Close(i, "RESOLVED")
      BY <1>2 DEF Select
    <3>2. /\ asks' \in [Ask -> AskRow] /\ asks'[i].status # "OPEN"
          /\ \A j \in Ask : j # i => asks'[j] = asks[j]
      BY <1>0, <3>1, ClosedAsks
    <3>3. QED
      BY <3>2
  <2>4. QED
    BY <1>2, <2>1, <2>2, <2>3, EnqueueStep DEF Select
<1>3. ASSUME NEW i \in Ask, Decline(i) \/ Confirm(i) PROVE TurnInv'
  BY <1>3, CloseStep DEF Decline, Confirm, Answerable
<1>4. ASSUME NEW i \in Ask, Expire(i) PROVE TurnInv'
  BY <1>4, CloseStep DEF Expire, AfterExpiry
<1>5. CASE Cancel \/ Delete
  BY <1>5, FlagStep DEF Cancel, Delete, TurnInv, Shape, TypeOK
<1>6. QED
  BY <1>1, <1>2, <1>3, <1>4, <1>5 DEF User

-----------------------------------------------------------------------------
\* Moving one attempt keeps the positions typed, and the others where they are.
LEMMA GoFacts ==
  ASSUME TypeOK, NEW t \in Task, NEW a \in Attempt, NEW place \in Place, Go(t, a, place)
  PROVE  /\ pc' \in [Task -> [Attempt -> Place]] /\ pc'[t][a] = place
         /\ \A u \in Task, b \in Attempt : pc'[u][b] = pc[u][b] \/ (u = t /\ b = a)
<1>1. pc \in [Task -> [Attempt -> Place]]
  BY DEF TypeOK
<1>2. QED
  BY <1>1 DEF Go

\* A step that only moves an attempt.
LEMMA MoveStep ==
  ASSUME TurnInv, NEW t \in Task, NEW a \in Attempt, pc[t][a] # "none",
         NEW place \in Place \ {"none"}, Go(t, a, place),
         place = "core" => turnStatus[taskTurn[t]] = "RUNNING",
         place \in {"success", "proposed"} /\ OwnTurn(t) => turnStatus[taskTurn[t]] # "RUNNING",
         UNCHANGED <<taskVars, cancel, ended, turnVars, asks, full, deleted>>
  PROVE  TurnInv'
<1> USE DEF TurnInv, Shape, taskVars, turnVars
<1>0. /\ pc' \in [Task -> [Attempt -> Place]] /\ pc'[t][a] = place
      /\ \A u \in Task, b \in Attempt : pc'[u][b] = pc[u][b] \/ (u = t /\ b = a)
  BY GoFacts
<1>a. taskStatus[t] # "none" /\ taskTurn[t] \in Turn
  BY AttemptHasTurn
<1>1. TypeOK'
  BY <1>0 DEF TypeOK
<1>2. Linked' /\ Budget'
  <2>1. \A u \in Task : taskStatus[u] = "none" => u # t /\ \A b \in Attempt : pc[u][b] = "none"
    BY <1>a DEF Linked
  <2>2. \A u \in Task : taskStatus[u] = "none" => \A b \in Attempt : pc'[u][b] = "none"
    BY <1>0, <2>1
  <2>3. Linked'
    BY <2>2 DEF Linked
  <2>4. Budget'
    BY DEF Budget
  <2>5. QED
    BY <2>3, <2>4
<1>3. PendingSuccess'
  BY <1>0 DEF PendingSuccess, OwnTurn
<1>4. AnsweredTaskIsNotRerun'
  <2> SUFFICES ASSUME NEW u \in Task, NEW b \in Attempt,
                      ended[u] = "COMPLETED", OwnTurn(u), b = attempt[u]
               PROVE  pc'[u][b] # "core"
    BY DEF AnsweredTaskIsNotRerun, OwnTurn
  <2>1. pc[u][b] # "core"
    BY DEF AnsweredTaskIsNotRerun
  <2>2. CASE u = t
    <3>1. turnTask[taskTurn[t]] = t /\ t # 0 /\ ended[t] = "COMPLETED"
      BY <2>2 DEF OwnTurn
    <3>2. turnStatus[taskTurn[t]] \in {"COMPLETED", "CANCELLED"}
      BY <1>a, <3>1 DEF StreamAgreesWithTurn
    <3>3. QED
      BY <1>0, <2>1, <2>2, <3>2
  <2>3. QED
    BY <1>0, <2>1, <2>2
<1>5. WaitingHasOpenAsk' /\ StreamAgreesWithTurn' /\ SuccessSettlesTurn'
  BY DEF WaitingHasOpenAsk, OpenAsks, StreamAgreesWithTurn, SuccessSettlesTurn
<1>6. QED
  BY <1>1, <1>2, <1>3, <1>4, <1>5

\* A step that ends the turn of t, perhaps with the task's terminal event.
LEMMA SettleStep ==
  ASSUME TurnInv, NEW t \in Task, NEW a \in Attempt, pc[t][a] # "none",
         NEW place \in Place \ {"none", "core"}, Go(t, a, place),
         NEW new \in {"COMPLETED", "CANCELLED", "FAILED"},
         turnStatus' = [turnStatus EXCEPT ![taskTurn[t]] = new],
         NEW end \in {"none", "COMPLETED", "ERROR"}, ended' = [ended EXCEPT ![t] = end],
         end # ended[t] => OwnTurn(t),
         end = "COMPLETED" => a = attempt[t] \/ ended[t] = "COMPLETED",
         new = "FAILED" => OwnTurn(t) /\ end # "COMPLETED",
         asks' \in [Ask -> AskRow],
         \A i \in Ask : asks'[i] = asks[i] \/ (asks[i].turn = taskTurn[t] /\ asks'[i].status # "OPEN"),
         UNCHANGED <<taskVars, cancel, turnTask, resume, full, deleted>>
  PROVE  TurnInv'
<1> USE DEF TurnInv, Shape, taskVars
<1>0. /\ pc' \in [Task -> [Attempt -> Place]] /\ pc'[t][a] = place
      /\ \A u \in Task, b \in Attempt : pc'[u][b] = pc[u][b] \/ (u = t /\ b = a)
  BY GoFacts
<1>a. taskStatus[t] # "none" /\ taskTurn[t] \in Turn
  BY AttemptHasTurn
<1>b. /\ turnStatus \in [Turn -> {"none", "RUNNING", "WAITING", "COMPLETED", "FAILED", "CANCELLED"}]
      /\ ended \in [Task -> {"none", "COMPLETED", "ERROR"}]
  BY DEF TypeOK
<1>c. /\ \A e \in Turn : turnStatus'[e] = (IF e = taskTurn[t] THEN new ELSE turnStatus[e])
      /\ \A u \in Task : ended'[u] = (IF u = t THEN end ELSE ended[u])
  BY <1>a, <1>b
<1>1. TypeOK'
  BY <1>0, <1>a, <1>b DEF TypeOK, AskRow
<1>2. Linked' /\ Budget'
  <2>1. ASSUME NEW u \in Task, taskStatus[u] = "none"
        PROVE  ended'[u] = "none" /\ \A b \in Attempt : pc'[u][b] = "none"
    <3>1. u # t /\ ended[u] = "none" /\ \A b \in Attempt : pc[u][b] = "none"
      BY <1>a, <2>1 DEF Linked
    <3>2. QED
      BY <1>0, <1>c, <3>1
  <2>2. \A e \in Turn : turnStatus'[e] = "RUNNING" => turnTask[e] # 0
    BY <1>c DEF Linked
  <2>3. \A i \in Ask : asks'[i].status = "OPEN" => asks'[i].turn # 0
    BY DEF Linked
  <2>4. Linked'
    BY <2>1, <2>2, <2>3 DEF Linked
  <2>5. Budget'
    BY DEF Budget
  <2>6. QED
    BY <2>4, <2>5
<1>3. PendingSuccess'
  <2> SUFFICES ASSUME NEW u \in Task, NEW b \in Attempt,
                      pc'[u][b] \in {"success", "proposed"}, OwnTurn(u)
               PROVE  turnStatus'[taskTurn[u]] # "RUNNING"
    BY DEF PendingSuccess, OwnTurn
  <2>1. CASE taskTurn[u] = taskTurn[t]
    BY <1>a, <1>c, <2>1
  <2>2. CASE taskTurn[u] # taskTurn[t]
    <3>1. pc'[u][b] = pc[u][b]
      BY <1>0, <2>2
    <3>2. taskTurn[u] \in Turn
      BY <3>1, AttemptHasTurn
    <3>3. QED
      BY <1>c, <2>2, <3>1, <3>2 DEF PendingSuccess
  <2>3. QED
    BY <2>1, <2>2
<1>4. AnsweredTaskIsNotRerun'
  <2> SUFFICES ASSUME NEW u \in Task, NEW b \in Attempt,
                      ended'[u] = "COMPLETED", OwnTurn(u), b = attempt[u]
               PROVE  pc'[u][b] # "core"
    BY DEF AnsweredTaskIsNotRerun, OwnTurn
  <2>1. CASE u = t /\ b = a
    BY <1>0, <2>1
  <2>2. CASE ~(u = t /\ b = a)
    <3>1. pc'[u][b] = pc[u][b] /\ ended[u] = "COMPLETED"
      BY <1>0, <1>c, <2>2
    <3>2. QED
      BY <3>1 DEF AnsweredTaskIsNotRerun
  <2>3. QED
    BY <2>1, <2>2
<1>5. WaitingHasOpenAsk'
  BY <1>c DEF WaitingHasOpenAsk, OpenAsks
<1>6. StreamAgreesWithTurn'
  <2> SUFFICES ASSUME NEW e \in Turn, turnTask[e] # 0, ended'[turnTask[e]] # "none"
               PROVE  turnStatus'[e] \in {"COMPLETED", "CANCELLED"}
                        \cup (IF ended'[turnTask[e]] = "ERROR" THEN {"FAILED"} ELSE {})
    BY DEF StreamAgreesWithTurn
  <2>1. turnTask[e] \in Task /\ taskTurn[turnTask[e]] = e
    BY DEF TypeOK, Linked
  <2>2. CASE e = taskTurn[t]
    BY <1>a, <1>c, <2>1, <2>2 DEF OwnTurn
  <2>3. CASE e # taskTurn[t]
    BY <1>c, <2>1, <2>3 DEF StreamAgreesWithTurn
  <2>4. QED
    BY <2>2, <2>3
<1>7. SuccessSettlesTurn'
  BY <1>c DEF SuccessSettlesTurn
<1>8. QED
  BY <1>1, <1>2, <1>3, <1>4, <1>5, <1>6, <1>7

\* A task that lost its turn to a later one writes events that speak of no turn.
LEMMA OrphanStep ==
  ASSUME TurnInv, NEW t \in Task, NEW a \in Attempt, pc[t][a] # "none",
         NEW place \in Place \ {"none"}, Go(t, a, place), ~OwnTurn(t),
         NEW end \in {"none", "COMPLETED", "ERROR"}, ended' = [ended EXCEPT ![t] = end],
         UNCHANGED <<taskVars, cancel, turnVars, asks, full, deleted>>
  PROVE  TurnInv'
<1> USE DEF TurnInv, Shape, taskVars, turnVars
<1>0. /\ pc' \in [Task -> [Attempt -> Place]] /\ pc'[t][a] = place
      /\ \A u \in Task, b \in Attempt : pc'[u][b] = pc[u][b] \/ (u = t /\ b = a)
  BY GoFacts
<1>a. taskStatus[t] # "none" /\ taskTurn[t] \in Turn
  BY AttemptHasTurn
<1>b. \A u \in Task : ended'[u] = (IF u = t THEN end ELSE ended[u])
  BY DEF TypeOK
<1>c. \A e \in Turn : turnTask[e] # t
  BY DEF OwnTurn, Linked
<1>1. TypeOK'
  BY <1>0 DEF TypeOK
<1>2. Linked' /\ Budget'
  <2>1. ASSUME NEW u \in Task, taskStatus[u] = "none"
        PROVE  ended'[u] = "none" /\ \A b \in Attempt : pc'[u][b] = "none"
    <3>1. u # t /\ ended[u] = "none" /\ \A b \in Attempt : pc[u][b] = "none"
      BY <1>a, <2>1 DEF Linked
    <3>2. QED
      BY <1>0, <1>b, <3>1
  <2>2. Linked'
    BY <2>1 DEF Linked
  <2>3. Budget'
    BY DEF Budget
  <2>4. QED
    BY <2>2, <2>3
<1>3. \A u \in Task, b \in Attempt : OwnTurn(u) => pc'[u][b] = pc[u][b] /\ ended'[u] = ended[u]
  BY <1>0, <1>b
<1>6. PendingSuccess'
  BY <1>3 DEF PendingSuccess, OwnTurn
<1>7. AnsweredTaskIsNotRerun'
  BY <1>3 DEF AnsweredTaskIsNotRerun, OwnTurn
<1>4. WaitingHasOpenAsk' /\ SuccessSettlesTurn'
  BY DEF WaitingHasOpenAsk, OpenAsks, SuccessSettlesTurn
<1>5. StreamAgreesWithTurn'
  BY <1>b, <1>c DEF StreamAgreesWithTurn, TypeOK
<1>8. QED
  BY <1>1, <1>2, <1>4, <1>5, <1>6, <1>7

\* A question is opened, and its turn waits for the answer.
LEMMA OpenStep ==
  ASSUME TurnInv, NEW t \in Task, NEW a \in Attempt, pc[t][a] # "none",
         NEW place \in {"proposed", "success"}, Go(t, a, place),
         NEW kind \in {"PROJECT_SELECTION", "WRITE_CONFIRMATION"}, Open(taskTurn[t], kind),
         turnStatus' = [turnStatus EXCEPT ![taskTurn[t]] = "WAITING"],
         MayAppend(turnTask[taskTurn[t]]),
         UNCHANGED <<taskVars, cancel, ended, turnTask, resume, full, deleted>>
  PROVE  TurnInv'
<1> USE DEF TurnInv, Shape, taskVars
<1>p. place \in Place
  BY DEF Place, Verdict
<1>0. /\ pc' \in [Task -> [Attempt -> Place]] /\ pc'[t][a] = place
      /\ \A u \in Task, b \in Attempt : pc'[u][b] = pc[u][b] \/ (u = t /\ b = a)
  BY <1>p, GoFacts
<1>a. taskStatus[t] # "none" /\ taskTurn[t] \in Turn
  BY AttemptHasTurn
<1>b. \A e \in Turn : turnStatus'[e] = (IF e = taskTurn[t] THEN "WAITING" ELSE turnStatus[e])
  BY <1>a DEF TypeOK
<1>c. PICK i \in FreshAsk :
        asks' = [asks EXCEPT ![i] = [turn |-> taskTurn[t], kind |-> kind, status |-> "OPEN"]]
  BY DEF Open
<1>d. i \in Ask /\ asks[i].status = "none" /\ asks \in [Ask -> AskRow]
  BY <1>c DEF FreshAsk, NoAsk, TypeOK, AskRow
<1>e. /\ asks' \in [Ask -> AskRow] /\ asks'[i].status = "OPEN" /\ asks'[i].turn = taskTurn[t]
      /\ \A j \in Ask : j # i => asks'[j] = asks[j]
  <2>1. [turn |-> taskTurn[t], kind |-> kind, status |-> "OPEN"] \in AskRow
    BY <1>a DEF AskRow
  <2>2. QED
    BY <1>c, <1>d, <2>1
<1>1. TypeOK'
  BY <1>0, <1>a, <1>e DEF TypeOK, AskRow
<1>2. Linked' /\ Budget'
  <2>1. \A u \in Task : taskStatus[u] = "none" => \A b \in Attempt : pc'[u][b] = "none"
    BY <1>0, <1>a DEF Linked
  <2>2. \A e \in Turn : turnStatus'[e] = "RUNNING" => turnTask[e] # 0
    BY <1>b DEF Linked
  <2>3. \A j \in Ask : asks'[j].status = "OPEN" => asks'[j].turn # 0
    BY <1>a, <1>e DEF Linked
  <2>4. Linked'
    BY <2>1, <2>2, <2>3 DEF Linked
  <2>5. Budget'
    BY DEF Budget
  <2>6. QED
    BY <2>4, <2>5
<1>3. PendingSuccess'
  <2> SUFFICES ASSUME NEW u \in Task, NEW b \in Attempt,
                      pc'[u][b] \in {"success", "proposed"}, OwnTurn(u)
               PROVE  turnStatus'[taskTurn[u]] # "RUNNING"
    BY DEF PendingSuccess, OwnTurn
  <2>1. CASE taskTurn[u] = taskTurn[t]
    BY <1>a, <1>b, <2>1
  <2>2. CASE taskTurn[u] # taskTurn[t]
    <3>1. pc'[u][b] = pc[u][b]
      BY <1>0, <2>2
    <3>2. taskTurn[u] \in Turn
      BY <3>1, AttemptHasTurn
    <3>3. QED
      BY <1>b, <2>2, <3>1, <3>2 DEF PendingSuccess
  <2>3. QED
    BY <2>1, <2>2
<1>4. AnsweredTaskIsNotRerun'
  <2>1. \A u \in Task, b \in Attempt : pc'[u][b] = "core" => pc[u][b] = "core"
    BY <1>0
  <2>2. QED
    BY <2>1 DEF AnsweredTaskIsNotRerun, OwnTurn
<1>5. WaitingHasOpenAsk'
  <2> SUFFICES ASSUME NEW e \in Turn, turnStatus'[e] = "WAITING"
               PROVE  \E j \in Ask : asks'[j].status = "OPEN" /\ asks'[j].turn = e
    BY DEF WaitingHasOpenAsk, OpenAsks
  <2>1. CASE e = taskTurn[t]
    BY <1>d, <1>e, <2>1
  <2>2. CASE e # taskTurn[t]
    <3>1. PICK j \in Ask : asks[j].status = "OPEN" /\ asks[j].turn = e
      BY <1>b, <2>2 DEF WaitingHasOpenAsk, OpenAsks
    <3>2. QED
      BY <1>d, <1>e, <3>1
  <2>3. QED
    BY <2>1, <2>2
<1>6. StreamAgreesWithTurn'
  BY <1>b DEF StreamAgreesWithTurn, MayAppend
<1>7. SuccessSettlesTurn'
  BY <1>b DEF SuccessSettlesTurn
<1>8. QED
  BY <1>1, <1>2, <1>3, <1>4, <1>5, <1>6, <1>7

\* Only the durable task's status changes, and perhaps an attempt ends.
LEMMA StatusStep ==
  ASSUME TurnInv, NEW t \in Task, taskStatus[t] # "none",
         NEW status \in {"QUEUED", "RETRY_WAIT", "SUCCEEDED", "FAILED", "CANCELLED"},
         taskStatus' = [taskStatus EXCEPT ![t] = status],
         status \in {"QUEUED", "RETRY_WAIT"} => attempt[t] < MaxAttempts,
         status = "SUCCEEDED" /\ OwnTurn(t) => turnStatus[taskTurn[t]] # "RUNNING",
         pc' \in [Task -> [Attempt -> Place]],
         \A u \in Task, b \in Attempt :
            pc'[u][b] = pc[u][b] \/ (pc[u][b] # "none" /\ pc'[u][b] = "done"),
         UNCHANGED <<attempt, taskTurn, cancel, ended, turnVars, asks, full, deleted>>
  PROVE  TurnInv'
<1> USE DEF TurnInv, Shape, turnVars
<1>a. \A u \in Task : taskStatus'[u] = (IF u = t THEN status ELSE taskStatus[u])
  BY DEF TypeOK
<1>1. TypeOK'
  BY <1>a DEF TypeOK, ActiveStatus
<1>2. Linked' /\ Budget'
  <2>1. \A u \in Task : taskStatus'[u] = "none" <=> taskStatus[u] = "none"
    BY <1>a
  <2>2. \A u \in Task : taskStatus[u] = "none" => \A b \in Attempt : pc'[u][b] = "none"
    BY DEF Linked
  <2>3. Linked'
    BY <2>1, <2>2 DEF Linked
  <2>4. Budget'
    BY <1>a DEF Budget
  <2>5. QED
    BY <2>3, <2>4
<1>3. \A u \in Task, b \in Attempt :
        pc'[u][b] \in {"core", "success", "proposed"} => pc[u][b] = pc'[u][b]
  OBVIOUS
<1>6. PendingSuccess'
  BY <1>3 DEF PendingSuccess, OwnTurn
<1>7. AnsweredTaskIsNotRerun'
  <2>1. \A u \in Task, b \in Attempt : pc'[u][b] = "core" => pc[u][b] = "core"
    BY <1>3
  <2>2. QED
    BY <2>1 DEF AnsweredTaskIsNotRerun, OwnTurn
<1>4. WaitingHasOpenAsk' /\ StreamAgreesWithTurn'
  BY DEF WaitingHasOpenAsk, OpenAsks, StreamAgreesWithTurn
<1>5. SuccessSettlesTurn'
  <2> SUFFICES ASSUME NEW e \in Turn, turnStatus[e] = "RUNNING"
               PROVE  taskStatus'[turnTask[e]] # "SUCCEEDED"
    BY DEF SuccessSettlesTurn
  <2>1. turnTask[e] # 0 /\ taskTurn[turnTask[e]] = e
    BY DEF Linked
  <2>2. turnTask[e] \in Task
    BY <2>1 DEF TypeOK
  <2>3. taskStatus[turnTask[e]] # "SUCCEEDED"
    BY DEF SuccessSettlesTurn
  <2>4. QED
    BY <1>a, <2>1, <2>2, <2>3 DEF OwnTurn
<1>8. QED
  BY <1>1, <1>2, <1>4, <1>5, <1>6, <1>7

LEMMA ClaimStep == ASSUME TurnInv, NEW t \in Task, Claim(t) PROVE TurnInv'
<1>a. /\ attempt[t] \in Nat /\ attempt[t] + 1 \in Attempt
      /\ taskStatus[t] = "QUEUED" /\ attempt'[t] = attempt[t] + 1
      /\ \A u \in Task : u # t => attempt'[u] = attempt[u] /\ taskStatus'[u] = taskStatus[u]
      /\ taskStatus'[t] = "RUNNING"
  BY DEF TurnInv, Shape, TypeOK, Budget, Claim
<1>p. "load" \in Place
  BY DEF Place
<1>0. /\ pc' \in [Task -> [Attempt -> Place]] /\ pc'[t][attempt[t] + 1] = "load"
      /\ \A u \in Task, b \in Attempt : pc'[u][b] = pc[u][b] \/ (u = t /\ b = attempt[t] + 1)
  <2>1. TypeOK /\ Go(t, attempt[t] + 1, "load")
    BY DEF TurnInv, Shape, Claim
  <2>2. attempt[t] + 1 \in Attempt
    BY <1>a
  <2>3. PICK next \in Attempt : next = attempt[t] + 1
    BY <2>2
  <2>4. /\ pc' \in [Task -> [Attempt -> Place]] /\ pc'[t][next] = "load"
        /\ \A u \in Task, b \in Attempt : pc'[u][b] = pc[u][b] \/ (u = t /\ b = next)
    BY <1>p, <2>1, <2>3, GoFacts
  <2>5. QED
    BY <2>3, <2>4
<1> USE DEF TurnInv, Shape, Claim, turnVars
<1>1. TypeOK'
  <2>1. /\ taskStatus' \in [Task -> ActiveStatus \cup {"none", "SUCCEEDED", "FAILED", "CANCELLED"}]
        /\ attempt' \in [Task -> 0..MaxAttempts]
    BY <1>a DEF TypeOK, ActiveStatus
  <2>2. \A u \in Task : taskStatus'[u] = "RUNNING" => attempt'[u] > 0
    BY <1>a DEF TypeOK
  <2>3. QED
    BY <1>0, <2>1, <2>2 DEF TypeOK
<1>2. Linked' /\ Budget'
  <2>1. \A u \in Task : taskStatus'[u] = "none" =>
          taskStatus[u] = "none" /\ attempt'[u] = attempt[u] /\ pc'[u] = pc[u]
    BY <1>a DEF Go, TypeOK
  <2>2. \A u \in Task : taskStatus'[u] # "none" => taskTurn[u] # 0
    BY <1>a DEF Linked
  <2>3. Linked'
    BY <2>1, <2>2 DEF Linked
  <2>4. Budget'
    BY <1>a DEF Budget
  <2>5. QED
    BY <2>3, <2>4
<1>3. PendingSuccess'
  BY <1>0 DEF PendingSuccess, OwnTurn
<1>4. AnsweredTaskIsNotRerun'
  <2> SUFFICES ASSUME NEW u \in Task, NEW b \in Attempt,
                      ended[u] = "COMPLETED", OwnTurn(u), b = attempt'[u]
               PROVE  pc'[u][b] # "core"
    BY DEF AnsweredTaskIsNotRerun, OwnTurn
  <2>1. CASE u = t
    BY <1>0, <1>a, <2>1
  <2>2. CASE u # t
    <3>1. pc'[u][b] = pc[u][b] /\ b = attempt[u]
      BY <1>0, <1>a, <2>2
    <3>2. QED
      BY <3>1 DEF AnsweredTaskIsNotRerun
  <2>3. QED
    BY <2>1, <2>2
<1>5. WaitingHasOpenAsk' /\ StreamAgreesWithTurn'
  BY DEF WaitingHasOpenAsk, OpenAsks, StreamAgreesWithTurn
<1>6. SuccessSettlesTurn'
  <2>1. \A e \in Turn : turnStatus[e] = "RUNNING" => turnTask[e] \in Task
    BY DEF TypeOK, Linked
  <2>2. QED
    BY <1>a, <2>1 DEF SuccessSettlesTurn
<1>7. QED
  BY <1>1, <1>2, <1>3, <1>4, <1>5, <1>6

\* The task is failed for good, and its turn with it unless it had ended.
LEMMA FailStep ==
  ASSUME TurnInv, NEW t \in Task, NEW a \in Attempt, pc[t][a] # "none", Go(t, a, "done"),
         taskStatus' = [taskStatus EXCEPT ![t] = "FAILED"], turnStatus' = Finalized(t),
         ended' = IF OwnTurn(t) /\ ended[t] = "none" THEN [ended EXCEPT ![t] = "ERROR"] ELSE ended,
         UNCHANGED <<attempt, taskTurn, cancel, turnTask, resume, asks, full, deleted>>
  PROVE  TurnInv'
<1> USE DEF TurnInv, Shape
<1>p. "done" \in Place
  BY DEF Place
<1>0. /\ pc' \in [Task -> [Attempt -> Place]] /\ pc'[t][a] = "done"
      /\ \A u \in Task, b \in Attempt : pc'[u][b] = pc[u][b] \/ (u = t /\ b = a)
  BY <1>p, GoFacts
<1>a. taskStatus[t] # "none" /\ taskTurn[t] \in Turn
  BY AttemptHasTurn
<1>b. \A u \in Task : taskStatus'[u] = (IF u = t THEN "FAILED" ELSE taskStatus[u])
  BY DEF TypeOK
<1>c. /\ turnStatus' \in [Turn -> {"none", "RUNNING", "WAITING", "COMPLETED", "FAILED", "CANCELLED"}]
      /\ \A e \in Turn : turnStatus'[e] \in {turnStatus[e], "FAILED"}
  BY <1>a DEF Finalized, TypeOK
<1>d. /\ ended' \in [Task -> {"none", "COMPLETED", "ERROR"}]
      /\ \A u \in Task : ended'[u] # ended[u] => u = t /\ OwnTurn(t) /\ ended'[t] = "ERROR"
  BY DEF TypeOK
<1>1. TypeOK'
  BY <1>0, <1>b, <1>c, <1>d DEF TypeOK
<1>2. Linked' /\ Budget'
  <2>1. ASSUME NEW u \in Task, taskStatus'[u] = "none"
        PROVE  /\ taskStatus[u] = "none" /\ ended'[u] = "none"
               /\ \A b \in Attempt : pc'[u][b] = "none"
    <3>1. u # t /\ taskStatus[u] = "none" /\ ended[u] = "none" /\ \A b \in Attempt : pc[u][b] = "none"
      BY <1>a, <1>b, <2>1 DEF Linked
    <3>2. QED
      BY <1>0, <1>d, <3>1
  <2>2. \A u \in Task : taskStatus'[u] # "none" => taskTurn[u] # 0
    BY <1>a, <1>b DEF Linked
  <2>3. \A e \in Turn : turnStatus'[e] = "RUNNING" => turnTask[e] # 0
    BY <1>c DEF Linked
  <2>4. Linked'
    BY <2>1, <2>2, <2>3 DEF Linked
  <2>5. Budget'
    BY <1>b DEF Budget
  <2>6. QED
    BY <2>4, <2>5
<1>3. PendingSuccess'
  <2>1. \A u \in Task, b \in Attempt :
          pc'[u][b] \in {"success", "proposed"} => pc[u][b] = pc'[u][b] /\ taskTurn[u] \in Turn
    BY <1>0, AttemptHasTurn
  <2>2. QED
    BY <1>c, <2>1 DEF PendingSuccess, OwnTurn
<1>4. AnsweredTaskIsNotRerun'
  <2>1. \A u \in Task, b \in Attempt : pc'[u][b] = "core" => pc[u][b] = "core"
    BY <1>0
  <2>2. QED
    BY <1>d, <2>1 DEF AnsweredTaskIsNotRerun, OwnTurn
<1>5. WaitingHasOpenAsk'
  BY <1>c DEF WaitingHasOpenAsk, OpenAsks
<1>6. StreamAgreesWithTurn'
  <2> SUFFICES ASSUME NEW e \in Turn, turnTask[e] # 0, ended'[turnTask[e]] # "none"
               PROVE  turnStatus'[e] \in {"COMPLETED", "CANCELLED"}
                        \cup (IF ended'[turnTask[e]] = "ERROR" THEN {"FAILED"} ELSE {})
    BY DEF StreamAgreesWithTurn
  <2>1. turnTask[e] \in Task /\ taskTurn[turnTask[e]] = e
    BY DEF TypeOK, Linked
  <2>2. CASE turnTask[e] = t
    <3>1. OwnTurn(t) /\ taskTurn[t] = e
      BY <2>1, <2>2 DEF OwnTurn
    <3>2. CASE turnStatus[e] \in {"COMPLETED", "CANCELLED"}
      <4>1. turnStatus'[e] = turnStatus[e]
        BY <3>1, <3>2 DEF Finalized
      <4>2. QED
        BY <3>2, <4>1
    <3>3. CASE turnStatus[e] \notin {"COMPLETED", "CANCELLED"}
      <4>1. turnStatus'[e] = "FAILED"
        BY <1>a, <3>1, <3>3 DEF Finalized, TypeOK
      <4>2. ended[t] # "COMPLETED"
        BY <2>2, <3>3 DEF StreamAgreesWithTurn
      <4>3. ended'[t] = "ERROR"
        BY <3>1, <4>2 DEF TypeOK
      <4>4. QED
        BY <2>2, <4>1, <4>3
    <3>4. QED
      BY <3>2, <3>3
  <2>3. CASE turnTask[e] # t
    <3>1. taskTurn[t] # e \/ ~OwnTurn(t)
      BY <2>3 DEF OwnTurn
    <3>2. turnStatus'[e] = turnStatus[e] /\ ended'[turnTask[e]] = ended[turnTask[e]]
      BY <1>d, <2>1, <2>3, <3>1 DEF Finalized, TypeOK
    <3>3. QED
      BY <3>2 DEF StreamAgreesWithTurn
  <2>4. QED
    BY <2>2, <2>3
<1>7. SuccessSettlesTurn'
  <2> SUFFICES ASSUME NEW e \in Turn, turnStatus'[e] = "RUNNING"
               PROVE  taskStatus'[turnTask[e]] # "SUCCEEDED"
    BY DEF SuccessSettlesTurn
  <2>1. turnStatus[e] = "RUNNING" /\ turnTask[e] # 0 /\ turnTask[e] \in 0..MaxTasks
    BY <1>c DEF Linked, TypeOK
  <2>2. turnTask[e] \in Task /\ taskStatus[turnTask[e]] # "SUCCEEDED"
    BY <2>1 DEF SuccessSettlesTurn
  <2>3. QED
    BY <1>b, <2>2
<1>8. QED
  BY <1>1, <1>2, <1>3, <1>4, <1>5, <1>6, <1>7

LEMMA FinishStep ==
  ASSUME TurnInv, NEW t \in Task, NEW a \in Attempt, Finish(t, a) PROVE TurnInv'
<1>1. /\ pc[t][a] \in Verdict /\ pc[t][a] # "none" /\ Go(t, a, "done")
      /\ UNCHANGED <<attempt, taskTurn, cancel, turnTask, resume, asks, full, deleted>>
  BY DEF Finish, Verdict
<1>p. "done" \in Place \ {"none"}
  BY DEF Place
<1>2. CASE ~Holds(t, a)
  <2>1. UNCHANGED <<taskStatus, turnStatus, ended>>
    BY <1>2 DEF Finish
  <2>2. QED
    BY <1>1, <1>p, <2>1, MoveStep DEF taskVars, turnVars
<1>3. CASE Holds(t, a)
  <2> DEFINE status == Settled(t, pc[t][a])
             final == status = "FAILED" /\ pc[t][a] \in {"provider", "rejected"}
  <2>1. /\ taskStatus' = [taskStatus EXCEPT ![t] = status]
        /\ turnStatus' = IF final THEN Finalized(t) ELSE turnStatus
        /\ ended' = IF final /\ OwnTurn(t) /\ ended[t] = "none"
                    THEN [ended EXCEPT ![t] = "ERROR"] ELSE ended
    BY <1>3 DEF Finish
  <2>2. /\ status \in {"SUCCEEDED", "CANCELLED", "RETRY_WAIT", "FAILED"}
        /\ status = "RETRY_WAIT" => attempt[t] < MaxAttempts
        /\ status = "SUCCEEDED" => pc[t][a] = "success"
    BY DEF Settled
  <2>3. CASE final
    BY <1>1, <2>1, <2>3, FailStep
  <2>4. CASE ~final
    <3>1. taskStatus[t] # "none" /\ UNCHANGED <<turnStatus, ended>>
      BY <1>3, <2>1, <2>4 DEF Holds
    <3>2. /\ pc' \in [Task -> [Attempt -> Place]]
          /\ \A u \in Task, b \in Attempt :
               pc'[u][b] = pc[u][b] \/ (pc[u][b] # "none" /\ pc'[u][b] = "done")
      <4>1. TypeOK
        BY DEF TurnInv, Shape
      <4>2. /\ pc' \in [Task -> [Attempt -> Place]] /\ pc'[t][a] = "done"
            /\ \A u \in Task, b \in Attempt : pc'[u][b] = pc[u][b] \/ (u = t /\ b = a)
        BY <1>1, <1>p, <4>1, GoFacts
      <4>3. pc[t][a] # "none"
        BY <1>1
      <4>4. QED
        BY <4>2, <4>3
    <3>3. status = "SUCCEEDED" /\ OwnTurn(t) => turnStatus[taskTurn[t]] # "RUNNING"
      BY <2>2 DEF TurnInv, PendingSuccess
    <3>4. UNCHANGED turnVars
      BY <1>1, <3>1 DEF turnVars
    <3>5. status \in {"QUEUED", "RETRY_WAIT"} => attempt[t] < MaxAttempts
      BY <2>2
    <3> HIDE DEF status
    <3>6. QED
      BY <1>1, <2>1, <2>2, <3>1, <3>2, <3>3, <3>4, <3>5, StatusStep
  <2>5. QED
    BY <2>3, <2>4
<1>4. QED
  BY <1>2, <1>3

-----------------------------------------------------------------------------
\* The steps that read the turn and only decide where the attempt goes on.
LEMMA DecideStep ==
  ASSUME TurnInv, NEW t \in Task, NEW a \in Attempt,
         \/ Load(t, a) \/ ProviderFails(t, a) \/ HeartbeatStops(t, a)
         \/ WaitFails(t, a) \/ Crash(t, a)
  PROVE  TurnInv'
<1>1. /\ pc[t][a] # "none"
      /\ UNCHANGED <<taskVars, cancel, ended, turnVars, asks, full, deleted>>
  BY DEF Load, ProviderFails, HeartbeatStops, WaitFails, Crash, At
<1>2. \E place \in {"mark", "fail", "core", "selectNow", "provider", "rejected", "error", "retry", "done"} :
        Go(t, a, place) /\ (place = "core" => turnStatus[taskTurn[t]] = "RUNNING")
  <2>1. CASE Load(t, a)
    BY <2>1 DEF Load
  <2>2. CASE ProviderFails(t, a)
    BY <2>2 DEF ProviderFails
  <2>3. CASE HeartbeatStops(t, a)
    BY <2>3 DEF HeartbeatStops
  <2>4. CASE WaitFails(t, a)
    BY <2>4 DEF WaitFails
  <2>5. CASE Crash(t, a)
    BY <2>5 DEF Crash
  <2>6. QED
    BY <2>1, <2>2, <2>3, <2>4, <2>5
<1>3. \A place \in {"mark", "fail", "core", "selectNow", "provider", "rejected", "error", "retry", "done"} :
        place \in Place \ {"none"} /\ place \notin {"success", "proposed"}
  BY DEF Place, Verdict
<1>4. QED
  BY <1>1, <1>2, <1>3, MoveStep

LEMMA ProposeStep ==
  ASSUME TurnInv, NEW t \in Task, NEW a \in Attempt, Propose(t, a) PROVE TurnInv'
<1>1. /\ pc[t][a] # "none"
      /\ UNCHANGED <<taskVars, cancel, ended, turnTask, resume, full, deleted>>
  BY DEF Propose, At
<1>2. CASE MayAppend(turnTask[taskTurn[t]])
  BY <1>1, <1>2, OpenStep DEF Propose
<1>3. CASE ~MayAppend(turnTask[taskTurn[t]])
  <2>1. Go(t, a, "error") /\ UNCHANGED <<asks, turnStatus>>
    BY <1>3 DEF Propose
  <2>2. "error" \in Place \ {"none"}
    BY DEF Place
  <2>3. UNCHANGED turnVars
    BY <1>1, <2>1 DEF turnVars
  <2>4. QED
    BY <1>1, <2>1, <2>2, <2>3, MoveStep
<1>4. QED
  BY <1>2, <1>3

LEMMA WaitStep ==
  ASSUME TurnInv, NEW t \in Task, NEW a \in Attempt, Wait(t, a) PROVE TurnInv'
<1>1. /\ pc[t][a] # "none" /\ Go(t, a, "success") /\ Open(taskTurn[t], "PROJECT_SELECTION")
      /\ turnStatus' = [turnStatus EXCEPT ![taskTurn[t]] = "WAITING"]
      /\ UNCHANGED <<taskVars, cancel, ended, turnTask, resume, full, deleted>>
  BY DEF Wait, ParkedTurn
<1>2. MayAppend(turnTask[taskTurn[t]])
  BY DEF Wait, OwnTurn
<1>3. QED
  BY <1>1, <1>2, OpenStep

\* Where an attempt goes that has just ended its turn, or found that it lost it.
LEMMA EndPlaces ==
  {"success", "cancelled", "mark", "fail", "retry", "error"} \subseteq Place \ {"none", "core"}
BY DEF Place, Verdict

\* Cancelling the turn, whatever its task's stream says.
LEMMA CancelTurnStep ==
  ASSUME TurnInv, NEW t \in Task, NEW a \in Attempt, pc[t][a] # "none",
         NEW place \in {"cancelled", "mark"}, Go(t, a, place),
         NEW new \in {"COMPLETED", "CANCELLED"},
         turnStatus' = [turnStatus EXCEPT ![taskTurn[t]] = new],
         asks' \in [Ask -> AskRow],
         \A i \in Ask : asks'[i] = asks[i] \/ (asks[i].turn = taskTurn[t] /\ asks'[i].status # "OPEN"),
         UNCHANGED <<taskVars, cancel, ended, turnTask, resume, full, deleted>>
  PROVE  TurnInv'
<1>1. ended[t] \in {"none", "COMPLETED", "ERROR"} /\ ended' = [ended EXCEPT ![t] = ended[t]]
  BY DEF TurnInv, Shape, TypeOK
<1>2. place \in Place \ {"none", "core"}
  BY EndPlaces
<1>3. QED
  BY <1>1, <1>2, SettleStep

LEMMA AbortStep ==
  ASSUME TurnInv, NEW t \in Task, NEW a \in Attempt, Abort(t, a) PROVE TurnInv'
<1>1. /\ pc[t][a] = "proposed"
      /\ UNCHANGED <<taskVars, cancel, ended, turnTask, resume, full, deleted>>
  BY DEF Abort, At
<1>2. CASE ~cancel[t] \/ ~OwnTurn(t)
  <2>1. Go(t, a, "success") /\ UNCHANGED <<turnVars, asks>>
    BY <1>1, <1>2 DEF Abort, turnVars
  <2>2. OwnTurn(t) => turnStatus[taskTurn[t]] # "RUNNING"
    BY <1>1 DEF TurnInv, PendingSuccess
  <2>3. "success" \in Place \ {"none"}
    BY EndPlaces
  <2>4. QED
    BY <1>1, <2>1, <2>2, <2>3, MoveStep
<1>3. CASE ~(~cancel[t] \/ ~OwnTurn(t))
  <2>1. asks \in [Ask -> AskRow] /\ taskTurn[t] \in Turn /\ DOMAIN turnStatus = Turn
    BY <1>1, AttemptHasTurn DEF TurnInv, Shape, TypeOK, AskRow
  <2>2. /\ Go(t, a, "cancelled")
        /\ \E new \in {"COMPLETED", "CANCELLED"} : turnStatus' = [turnStatus EXCEPT ![taskTurn[t]] = new]
    BY <1>3, <2>1 DEF Abort
  <2>3. /\ asks' \in [Ask -> AskRow]
        /\ \A i \in Ask : asks'[i] = asks[i] \/ (asks[i].turn = taskTurn[t] /\ asks'[i].status # "OPEN")
    <3>1. CASE UNCHANGED asks
      BY <2>1, <3>1
    <3>2. CASE \E i \in OpenAsks : asks[i].turn = taskTurn[t] /\ Close(i, "CANCELLED")
      BY <2>1, <3>2, ClosedAsks DEF OpenAsks
    <3>3. QED
      BY <1>3, <3>1, <3>2 DEF Abort
  <2>4. QED
    BY <1>1, <2>2, <2>3, CancelTurnStep
<1>4. QED
  BY <1>2, <1>3

LEMMA WaitCancelledStep ==
  ASSUME TurnInv, NEW t \in Task, NEW a \in Attempt, WaitCancelled(t, a) PROVE TurnInv'
<1>1. /\ pc[t][a] # "none" /\ \E place \in {"cancelled", "mark"} : Go(t, a, place)
      /\ UNCHANGED <<taskVars, cancel, ended, turnTask, resume, asks, full, deleted>>
  BY DEF WaitCancelled
<1>2. asks \in [Ask -> AskRow] /\ taskTurn[t] \in Turn /\ DOMAIN turnStatus = Turn
  BY <1>1, AttemptHasTurn DEF TurnInv, Shape, TypeOK, AskRow
<1>3. \E new \in {"COMPLETED", "CANCELLED"} : turnStatus' = [turnStatus EXCEPT ![taskTurn[t]] = new]
  BY <1>2 DEF WaitCancelled
<1>4. /\ asks' \in [Ask -> AskRow]
      /\ \A i \in Ask : asks'[i] = asks[i] \/ (asks[i].turn = taskTurn[t] /\ asks'[i].status # "OPEN")
  BY <1>1, <1>2
<1>5. QED
  BY <1>1, <1>3, <1>4, CancelTurnStep

LEMMA MarkStep ==
  ASSUME TurnInv, NEW t \in Task, NEW a \in Attempt, Mark(t, a) PROVE TurnInv'
<1>1. /\ pc[t][a] # "none" /\ Go(t, a, "cancelled")
      /\ UNCHANGED <<taskVars, cancel, ended, turnTask, resume, asks, full, deleted>>
  BY DEF Mark, At
<1>2. CASE OwnTurn(t) \/ Resumed(t)
  <2>1. asks \in [Ask -> AskRow]
    BY DEF TurnInv, Shape, TypeOK, AskRow
  <2>2. turnStatus' = [turnStatus EXCEPT ![taskTurn[t]] = "CANCELLED"]
    BY <1>2 DEF Mark
  <2>3. QED
    BY <1>1, <2>1, <2>2, CancelTurnStep
<1>3. CASE ~(OwnTurn(t) \/ Resumed(t))
  <2>1. UNCHANGED turnVars
    BY <1>1, <1>3 DEF Mark, turnVars
  <2>2. "cancelled" \in Place \ {"none", "core"}
    BY EndPlaces
  <2>3. QED
    BY <1>1, <2>1, <2>2, MoveStep
<1>4. QED
  BY <1>2, <1>3

LEMMA CompleteStep ==
  ASSUME TurnInv, NEW t \in Task, NEW a \in Attempt, Complete(t, a) PROVE TurnInv'
<1> DEFINE ok == CompleteFence(t, a) /\ ~cancel[t] /\ ~full /\ MayAppend(t)
<1>1. /\ pc[t][a] # "none"
      /\ UNCHANGED <<taskVars, cancel, turnTask, resume, asks, full, deleted>>
  BY DEF Complete, At
<1>2. asks \in [Ask -> AskRow]
  BY DEF TurnInv, Shape, TypeOK, AskRow
<1>3. CASE ok
  <2>1. /\ Go(t, a, "success") /\ ended' = [ended EXCEPT ![t] = "COMPLETED"]
        /\ turnStatus' = IF OwnTurn(t) THEN CompletedTurn(taskTurn[t]) ELSE turnStatus
    BY <1>3 DEF Complete
  <2>2. a = attempt[t] /\ ended[t] = "none"
    BY <1>3 DEF CompleteFence, Holds, MayAppend
  <2>3. "success" \in Place \ {"none", "core"}
    BY EndPlaces
  <2>4. CASE OwnTurn(t)
    <3>1. turnStatus' = [turnStatus EXCEPT ![taskTurn[t]] = "COMPLETED"]
      BY <2>1, <2>4 DEF CompletedTurn
    <3>2. QED
      BY <1>1, <1>2, <2>1, <2>2, <2>3, <2>4, <3>1, SettleStep
  <2>5. CASE ~OwnTurn(t)
    <3>1. UNCHANGED turnVars
      BY <1>1, <2>1, <2>5 DEF turnVars
    <3>2. QED
      BY <1>1, <2>1, <2>3, <2>5, <3>1, OrphanStep
  <2>6. QED
    BY <2>4, <2>5
<1>4. CASE ~ok
  <2>1. /\ \E place \in {"fail", "mark", "error"} : Go(t, a, place)
        /\ UNCHANGED <<ended, turnVars>>
    BY <1>1, <1>4 DEF Complete, turnVars
  <2>2. \A place \in {"fail", "mark", "error"} :
          place \in Place \ {"none", "core"} /\ place \notin {"success", "proposed"}
    BY EndPlaces
  <2>3. QED
    BY <1>1, <2>1, <2>2, MoveStep
<1>5. QED
  BY <1>3, <1>4

LEMMA WriteErrorStep ==
  ASSUME TurnInv, NEW t \in Task, NEW a \in Attempt, WriteError(t, a) PROVE TurnInv'
<1>1. /\ pc[t][a] # "none"
      /\ UNCHANGED <<taskVars, cancel, turnTask, resume, asks, full, deleted>>
  BY DEF WriteError
<1>2. asks \in [Ask -> AskRow]
  BY DEF TurnInv, Shape, TypeOK, AskRow
<1>3. CASE Holds(t, a) /\ MayAppend(t)
  <2>1. /\ Go(t, a, "fail") /\ ended' = [ended EXCEPT ![t] = "ERROR"]
        /\ turnStatus' = IF OwnTurn(t) THEN [turnStatus EXCEPT ![taskTurn[t]] = "FAILED"] ELSE turnStatus
    BY <1>3 DEF WriteError
  <2>2. "fail" \in Place \ {"none", "core"}
    BY EndPlaces
  <2>3. CASE OwnTurn(t)
    <3>1. turnStatus' = [turnStatus EXCEPT ![taskTurn[t]] = "FAILED"]
      BY <2>1, <2>3
    <3>2. QED
      BY <1>1, <1>2, <2>1, <2>2, <2>3, <3>1, SettleStep
  <2>4. CASE ~OwnTurn(t)
    <3>1. UNCHANGED turnVars
      BY <1>1, <2>1, <2>4 DEF turnVars
    <3>2. QED
      BY <1>1, <2>1, <2>2, <2>4, <3>1, OrphanStep
  <2>5. QED
    BY <2>3, <2>4
<1>4. CASE ~(Holds(t, a) /\ MayAppend(t))
  <2>1. /\ \E place \in {"fail", "retry"} : Go(t, a, place)
        /\ UNCHANGED <<ended, turnVars>>
    BY <1>1, <1>4 DEF WriteError, turnVars
  <2>2. \A place \in {"fail", "retry"} :
          place \in Place \ {"none", "core"} /\ place \notin {"success", "proposed"}
    BY EndPlaces
  <2>3. QED
    BY <1>1, <2>1, <2>2, MoveStep
<1>5. QED
  BY <1>3, <1>4

-----------------------------------------------------------------------------
LEMMA TaskStep ==
  ASSUME TurnInv, NEW t \in Task, Claim(t) \/ Recover(t) \/ Requeue(t) PROVE TurnInv'
<1>0. pc \in [Task -> [Attempt -> Place]] /\ attempt[t] \in 0..MaxAttempts
  BY DEF TurnInv, Shape, TypeOK
<1>1. CASE Recover(t)
  BY <1>0, <1>1, StatusStep DEF Recover
<1>2. CASE Requeue(t)
  <2>1. attempt[t] < MaxAttempts
    BY <1>2 DEF Requeue, TurnInv, Shape, Budget
  <2>2. QED
    BY <1>0, <1>2, <2>1, StatusStep DEF Requeue
<1>3. QED
  BY <1>1, <1>2, ClaimStep

LEMMA NextTurnInv == TurnInv /\ [Next]_vars => TurnInv'
<1> SUFFICES ASSUME TurnInv, [Next]_vars PROVE TurnInv'
  OBVIOUS
<1>1. CASE User
  BY <1>1, UserStep
<1>2. ASSUME NEW t \in Task, Claim(t) \/ Recover(t) \/ Requeue(t) PROVE TurnInv'
  BY <1>2, TaskStep
<1>3. ASSUME NEW t \in Task, NEW a \in Attempt, Handler(t, a) \/ Finish(t, a) \/ Crash(t, a)
      PROVE  TurnInv'
  <2>1. CASE Handler(t, a)
    BY <2>1, DecideStep, AbortStep, CompleteStep, ProposeStep, WaitStep, WaitCancelledStep,
       WriteErrorStep, MarkStep DEF Handler
  <2>2. QED
    BY <1>3, <2>1, FinishStep, DecideStep
<1>4. CASE FillEvents
  BY <1>4, FlagStep DEF FillEvents, TurnInv, Shape, TypeOK
<1>5. CASE UNCHANGED vars
  BY <1>5, FlagStep DEF vars, TurnInv, Shape, TypeOK
<1>6. QED
  BY <1>1, <1>2, <1>3, <1>4, <1>5 DEF Next

LEMMA TurnInvIsInvariant == Spec => []TurnInv
BY InitTurnInv, NextTurnInv, PTL DEF Spec

\* The rows keep their types, and a RUNNING task has been claimed.
THEOREM TypeIsKept == Spec => []TypeOK
<1>1. TurnInv => TypeOK
  BY DEF TurnInv, Shape
<1>2. QED
  BY <1>1, TurnInvIsInvariant, PTL

\* A turn that waits always has a question the user can respond to: no expiry,
\* abandoned proposal, stale attempt or duplicate question takes the last one away.
THEOREM WaitingTurnCanBeAnswered == Spec => []WaitingHasOpenAsk
<1>1. TurnInv => WaitingHasOpenAsk
  BY DEF TurnInv
<1>2. QED
  BY <1>1, TurnInvIsInvariant, PTL

\* The terminal event of a turn's task and the turn's status never contradict each
\* other, whichever of two attempts wrote which.
THEOREM StreamTellsTheOutcome == Spec => []StreamAgreesWithTurn
<1>1. TurnInv => StreamAgreesWithTurn
  BY DEF TurnInv
<1>2. QED
  BY <1>1, TurnInvIsInvariant, PTL

\* A turn left RUNNING does not belong to a task that succeeded.
THEOREM SuccessMovesTurnOn == Spec => []SuccessSettlesTurn
<1>1. TurnInv => SuccessSettlesTurn
  BY DEF TurnInv
<1>2. QED
  BY <1>1, TurnInvIsInvariant, PTL

\* The newest attempt of a task that has its answer does not call the model again.
THEOREM OneAnswerPerTask == Spec => []AnsweredTaskIsNotRerun
<1>1. TurnInv => AnsweredTaskIsNotRerun
  BY DEF TurnInv
<1>2. QED
  BY <1>1, TurnInvIsInvariant, PTL

-----------------------------------------------------------------------------
\* What attempts build, call and write beside the turn's rows leaves those as AgentTurn
\* has them, so that all of the above holds of Agent too.
THEOREM AgentKeepsTheTurn == AgentSpec => Spec
<1>1. AgentInit => Init
  BY DEF AgentInit
<1>2. [AgentNext]_<<vars, coreVars>> => [Next]_vars
  BY DEF AgentNext, TurnStep, CoreStep
<1>3. QED
  BY <1>1, <1>2, PTL DEF AgentSpec, Spec
=============================================================================
