--------------------------- MODULE MailSyncProofs ---------------------------
(***************************************************************************)
(* That a mailbox has one running batch and its cursor passes no weekly     *)
(* report, for any number of requesters, batches, attempts and mails.       *)
(*                                                                         *)
(* The argument: a worker that is between the claim of a batch and its end  *)
(* (a holder) has a RUNNING batch, and a batch is started once, so there is *)
(* one holder and nobody else writes the cursor it searched from (SyncInv). *)
(* What it found is then a prefix of the mails beyond the cursor, and stays *)
(* one while mails arrive, because the folder gives UIDs that only rise     *)
(* (FoundInv).  A cursor moved to the end of that prefix passes only mails  *)
(* that were found, and moves when all of these have their row (CursorInv). *)
(***************************************************************************)
EXTENDS MailSync, FiniteSetTheorems, WellFoundedInduction, TLAPS

USE MailSyncAssumption

\* Attempt a of task b is between the start of a batch and its end.
Holder(b, a) == worker[b][a].at \in {"search", "store", "fail"}

\* A task that may be claimed has an attempt left; a worker past the pick has a batch.
PlacesInv ==
    /\ \A b \in Batch : task[b].status = "QUEUED" => task[b].attempt < MaxAttempts
    /\ \A b \in Batch, a \in Attempt :
          worker[b][a].at \in {"start", "search", "store", "fail"} => worker[b][a].batch \in Batch

\* One batch runs, one worker holds it, with the cursor nobody else can move.
SyncInv ==
    /\ \A c, d \in Batch : batch[c].status = "RUNNING" /\ batch[d].status = "RUNNING" => c = d
    /\ \A b \in Batch, a \in Attempt : Holder(b, a) => batch[worker[b][a].batch].status = "RUNNING"
    /\ \A b, c \in Batch, a, e \in Attempt : Holder(b, a) /\ Holder(c, e) => b = c /\ a = e
    /\ \A b \in Batch, a \in Attempt :
          worker[b][a].at \in {"search", "store"} => worker[b][a].cursor = config.cursor

\* What a search found in the folder as it still is: no mail between the cursor
\* and the last mail found is missing, and new mails come behind it.
Prefix(w) ==
    /\ \A m \in w.uids : m <= folder.last
    /\ \A m \in w.uids, u \in folder.mails : w.cursor < u /\ u <= m => u \in w.uids

FoundInv ==
    /\ \A u \in folder.mails : u <= folder.last
    /\ \A b \in Batch, a \in Attempt :
          worker[b][a].at = "store" =>
              /\ worker[b][a].validity \in 1..folder.validity
              /\ worker[b][a].validity = folder.validity => Prefix(worker[b][a])

\* The cursor counts in a UIDVALIDITY the folder had; only a retry's batch is
\* born with an end.
CursorInv ==
    /\ config.validity <= folder.validity
    /\ config.validity = 0 => config.cursor = 0
    /\ \A b \in Batch : batch[b].status \in Unfinished /\ batch[b].trigger # "RETRY" => batch[b].endUid = 0
    /\ ~RetryRan /\ config.validity = folder.validity => config.cursor <= folder.last
    /\ NoMailSkipped

IInv == TypeOK /\ PlacesInv /\ SyncInv /\ FoundInv /\ CursorInv

-----------------------------------------------------------------------------
(* Sets of UIDs and batches have a least and a greatest element.           *)

NatLess == {pair \in Nat \X Nat : pair[1] < pair[2]}

LEMMA NatLessWellFounded == IsWellFoundedOn(NatLess, Nat)
  BY NatLessThanWellFounded, Zenon DEF NatLess, OpToRel

LEMMA LeastIsThere ==
  ASSUME NEW S \in SUBSET Nat, S # {}
  PROVE  Min(S) \in S /\ \A x \in S : Min(S) <= x
<1>1. PICK x \in S : \A y \in S : ~ (<<y, x>> \in NatLess)
  BY NatLessWellFounded, WFMin
<1>2. ASSUME NEW y \in S, y < x PROVE FALSE
  <2>1. <<y, x>> \in Nat \X Nat /\ <<y, x>>[1] = y /\ <<y, x>>[2] = x
    OBVIOUS
  <2>2. <<y, x>> \in NatLess
    BY <2>1, <1>2 DEF NatLess
  <2>3. QED
    BY <2>2, <1>1
<1>3. \A y \in S : x <= y
  BY <1>2
<1>4. QED
  BY <1>3 DEF Min

LEMMA GreatestIsThere ==
  ASSUME NEW n \in Nat, NEW S \in SUBSET (0..n), S # {}
  PROVE  Max(S) \in S /\ \A x \in S : x <= Max(S)
<1> DEFINE T == {n - x : x \in S}
<1>1. T \in SUBSET Nat /\ T # {}
  <2>1. \A x \in S : x \in Nat /\ n - x \in Nat
    OBVIOUS
  <2>2. QED
    BY <2>1, Zenon
<1>2. Min(T) \in T /\ \A t \in T : Min(T) <= t
  BY <1>1, LeastIsThere
<1>3. PICK x \in S : Min(T) = n - x
  BY <1>2
<1>4. \A y \in S : n - x <= n - y
  BY <1>2, <1>3, Zenon
<1>5. \A y \in S : y <= x
  <2>1. \A y \in S : y \in 0..n
    OBVIOUS
  <2>2. QED
    BY <1>4, <2>1
<1>6. QED
  BY <1>5 DEF Max

\* What a search keeps is a prefix of what it found, and not empty unless that is.
LEMMA FirstOfIsPrefix ==
  ASSUME NEW S \in SUBSET Uid
  PROVE  /\ FirstOf(S) \subseteq S
         /\ \A m \in FirstOf(S), u \in S : u <= m => u \in FirstOf(S)
         /\ S # {} => FirstOf(S) # {}
<1>1. \A u \in S : /\ IsFiniteSet({v \in S : v < u})
                   /\ Cardinality({v \in S : v < u}) \in Nat
  <2>1. IsFiniteSet(Uid)
    BY FS_Interval DEF Uid
  <2>2. QED
    BY <2>1, FS_Subset, FS_CardinalityType
<1>2. ASSUME NEW m \in FirstOf(S), NEW u \in S, u <= m
      PROVE  u \in FirstOf(S)
  <2>1. m \in S /\ Cardinality({v \in S : v < m}) < Window
    BY <1>2 DEF FirstOf
  <2>2. \A v \in S : v < u => v < m
    BY <1>2, <2>1 DEF Uid
  <2>3. Cardinality({v \in S : v < u}) <= Cardinality({v \in S : v < m})
    <3>1. {v \in S : v < u} \in SUBSET {v \in S : v < m}
      BY <2>2
    <3>2. QED
      BY <1>1, <2>1, <3>1, FS_Subset
  <2>4. QED
    BY <1>1, <2>1, <2>3 DEF FirstOf
<1>3. ASSUME S # {} PROVE FirstOf(S) # {}
  <2>1. Min(S) \in S /\ {v \in S : v < Min(S)} = {}
    <3>1. S \in SUBSET Nat
      BY DEF Uid
    <3>2. Min(S) \in S /\ \A x \in S : Min(S) <= x
      BY <1>3, <3>1, LeastIsThere
    <3>3. ASSUME NEW v \in S, v < Min(S) PROVE FALSE
      <4>1. Min(S) <= v /\ v \in Nat /\ Min(S) \in Nat
        BY <3>1, <3>2
      <4>2. QED
        BY <3>3, <4>1
    <3>4. ASSUME NEW v \in {w \in S : w < Min(S)} PROVE FALSE
      BY <3>3
    <3>5. QED
      BY <3>2, <3>4
  <2>2. Cardinality({v \in S : v < Min(S)}) = 0
    BY <2>1, FS_EmptySet
  <2>3. QED
    BY <2>1, <2>2 DEF FirstOf
<1>4. QED
  BY <1>2, <1>3 DEF FirstOf

-----------------------------------------------------------------------------
(* Every step keeps the types and the places.                              *)

Stage == Settled \cup Failing \cup {"none", "PENDING", "ANALYZING"}
Place == {"none", "pick", "start", "search", "store", "fail", "success", "retry"}
Snapshot == [at : Place, batch : 0..MaxBatches, cursor : 0..MaxUid, validity : 0..MaxValidity,
             uids : SUBSET Uid]

LEMMA InitIInv == Init => IInv
<1> SUFFICES ASSUME Init PROVE IInv
  OBVIOUS
<1>1. TypeOK
  BY DEF Init, TypeOK, Batch, Attempt, Validity, Uid, NoBatch, NoTask, NoHandoff, Idle
<1>2. PlacesInv /\ SyncInv
  BY DEF Init, PlacesInv, SyncInv, Holder, NoBatch, NoTask, Idle
<1>3. FoundInv
  BY DEF Init, FoundInv, Idle
<1>4. CursorInv
  BY DEF Init, CursorInv, NoMailSkipped, NoBatch, Unfinished, Uid
<1>5. QED
  BY <1>1, <1>2, <1>3, <1>4 DEF IInv

\* Attempt a of task b comes to the place w, and nobody else moves.
MovesTo(b, a, w) ==
    /\ worker' \in [Batch -> [Attempt -> Snapshot]]
    /\ worker'[b][a] = w
    /\ \A c \in Batch, e \in Attempt : c # b \/ e # a => worker'[c][e] = worker[c][e]

LEMMA WorkerType ==
  ASSUME TypeOK, NEW b \in Batch, NEW a \in Attempt
  PROVE  worker[b][a] \in Snapshot
BY DEF TypeOK, Snapshot, Place

LEMMA WorkerStep ==
  ASSUME TypeOK, NEW b \in Batch, NEW a \in Attempt, NEW w \in Snapshot,
         worker' = [worker EXCEPT ![b][a] = w]
  PROVE  MovesTo(b, a, w)
BY DEF TypeOK, Snapshot, Place, MovesTo

\* The steps of a worker, each as the place it comes to.
LEMMA GoesStep ==
  ASSUME TypeOK, NEW b \in Batch, NEW a \in Attempt, NEW place \in Place, Goes(b, a, place)
  PROVE  MovesTo(b, a, [Idle EXCEPT !.at = place])
<1> DEFINE w == [Idle EXCEPT !.at = place]
<1>1. w \in Snapshot
  BY DEF Idle, Snapshot, Place
<1>2. worker' = [worker EXCEPT ![b][a] = w]
  BY DEF Goes
<1>3. QED
  <2> HIDE DEF w
  <2>1. MovesTo(b, a, w)
    BY <1>1, <1>2, WorkerStep
  <2>2. QED
    BY <2>1 DEF w

LEMMA IdleStep ==
  ASSUME TypeOK, NEW b \in Batch, NEW a \in Attempt, worker' = [worker EXCEPT ![b][a] = Idle]
  PROVE  MovesTo(b, a, Idle)
<1>1. Idle \in Snapshot
  BY DEF Idle, Snapshot, Place
<1>2. QED
  BY <1>1, WorkerStep

LEMMA PickStep ==
  ASSUME TypeOK, NEW b \in Batch, NEW a \in Attempt, Pick(b, a)
  PROVE  \/ MovesTo(b, a, [Idle EXCEPT !.at = "success"])
         \/ \E c \in Batch : MovesTo(b, a, [Idle EXCEPT !.at = "start", !.batch = c])
<1> DEFINE queued == {c \in Batch : batch[c].status = "QUEUED"}
           w == [Idle EXCEPT !.at = "start", !.batch = Min(queued)]
<1>1. CASE queued = {}
  <2>1. Goes(b, a, "success")
    BY <1>1 DEF Pick
  <2>2. QED
    BY <2>1, GoesStep DEF Place
<1>2. CASE queued # {}
  <2>1. Min(queued) \in Batch
    <3>1. queued \in SUBSET Nat
      BY DEF Batch
    <3>2. QED
      BY <1>2, <3>1, LeastIsThere
  <2>2. w \in Snapshot
    <3>1. Min(queued) \in 0..MaxBatches /\ "start" \in Place /\ Idle \in Snapshot
      BY <2>1 DEF Batch, Place, Idle, Snapshot
    <3>2. QED
      <4> HIDE DEF queued
      <4>1. QED
        BY <3>1 DEF Snapshot
  <2>3. worker' = [worker EXCEPT ![b][a] = w]
    BY <1>2 DEF Pick
  <2>4. MovesTo(b, a, w)
    <3> HIDE DEF w
    <3>1. QED
      BY <2>2, <2>3, WorkerStep
  <2>5. QED
    BY <2>1, <2>4
<1>3. QED
  BY <1>1, <1>2

LEMMA StartStep ==
  ASSUME TypeOK, NEW b \in Batch, NEW a \in Attempt, Start(b, a), MayStart(worker[b][a].batch)
  PROVE  MovesTo(b, a, [worker[b][a] EXCEPT !.at = "search", !.cursor = config.cursor])
<1> DEFINE w == [worker[b][a] EXCEPT !.at = "search", !.cursor = config.cursor]
<1>1. w \in Snapshot
  <2>1. config.cursor \in 0..MaxUid /\ worker[b][a] \in Snapshot
    BY WorkerType DEF TypeOK
  <2>2. QED
    BY <2>1 DEF Snapshot, Place
<1>2. worker' = [worker EXCEPT ![b][a] = w]
  <2>1. worker' = [worker EXCEPT ![b][a].at = "search", ![b][a].cursor = config.cursor]
    BY DEF Start
  <2>2. QED
    BY <2>1 DEF TypeOK
<1>3. QED
  <2> HIDE DEF w
  <2>1. MovesTo(b, a, w)
    BY <1>1, <1>2, WorkerStep
  <2>2. QED
    BY <2>1 DEF w

LEMMA SearchFinds ==
  ASSUME TypeOK, NEW cursor
  PROVE  Search(cursor) \subseteq folder.mails
<1>1. folder.mails \in SUBSET (0..MaxUid)
  BY DEF TypeOK, Uid
<1>2. folder.mails # {} => Max(folder.mails) \in folder.mails
  BY <1>1, GreatestIsThere
<1>3. QED
  BY <1>2 DEF Search

LEMMA DiscoverStep ==
  ASSUME TypeOK, NEW b \in Batch, NEW a \in Attempt, Discover(b, a)
  PROVE  MovesTo(b, a, [worker[b][a] EXCEPT !.at = "store", !.validity = folder.validity,
                                             !.uids = FirstOf(Search(worker[b][a].cursor))])
<1> DEFINE w == [worker[b][a] EXCEPT !.at = "store", !.validity = folder.validity,
                                             !.uids = FirstOf(Search(worker[b][a].cursor))]
<1>0. FirstOf(Search(worker[b][a].cursor)) \in SUBSET Uid
  BY SearchFinds, FirstOfIsPrefix DEF TypeOK
<1>1. w \in Snapshot
  <2>0. folder.validity \in Validity
    BY DEF TypeOK
  <2>1. folder.validity \in 0..MaxValidity /\ worker[b][a] \in Snapshot
    BY <2>0, WorkerType DEF Validity
  <2>2. "store" \in Place
    BY DEF Place
  <2>3. QED
    BY <1>0, <2>1, <2>2 DEF Snapshot
<1>2. worker' = [worker EXCEPT ![b][a] = w]
  BY DEF Discover, TypeOK
<1>3. QED
  <2> HIDE DEF w
  <2>1. MovesTo(b, a, w)
    BY <1>1, <1>2, WorkerStep
  <2>2. QED
    BY <2>1 DEF w

LEMMA DiscoverFailsStep ==
  ASSUME TypeOK, NEW b \in Batch, NEW a \in Attempt, DiscoverFails(b, a)
  PROVE  MovesTo(b, a, [worker[b][a] EXCEPT !.at = "fail"])
<1> DEFINE w == [worker[b][a] EXCEPT !.at = "fail"]
<1>1. w \in Snapshot
  <2>1. config.cursor \in 0..MaxUid /\ worker[b][a] \in Snapshot
    BY WorkerType DEF TypeOK
  <2>2. QED
    BY <2>1 DEF Snapshot, Place
<1>2. worker' = [worker EXCEPT ![b][a] = w]
  BY DEF DiscoverFails, TypeOK
<1>3. QED
  <2> HIDE DEF w
  <2>1. MovesTo(b, a, w)
    BY <1>1, <1>2, WorkerStep
  <2>2. QED
    BY <2>1 DEF w

LEMMA ClaimStep ==
  ASSUME TypeOK, PlacesInv, NEW b \in Batch, Claim(b)
  PROVE  /\ task[b].attempt + 1 \in Attempt
         /\ MovesTo(b, task[b].attempt + 1, [Idle EXCEPT !.at = "pick"])
<1> DEFINE w == [Idle EXCEPT !.at = "pick"]
<1>1. task[b].attempt \in 0..MaxAttempts /\ task[b].attempt < MaxAttempts
  BY DEF TypeOK, PlacesInv, Claim
<1>2. task[b].attempt + 1 \in Attempt
  BY <1>1 DEF Attempt
<1>3. w \in Snapshot
  BY DEF Idle, Snapshot, Place
<1>4. worker' = [worker EXCEPT ![b][task[b].attempt + 1] = w]
  BY DEF Claim
<1>5. MovesTo(b, task[b].attempt + 1, w)
  <2> HIDE DEF w
  <2>1. QED
    BY <1>2, <1>3, <1>4, WorkerStep
<1>6. QED
  BY <1>2, <1>5

-----------------------------------------------------------------------------
(* The steps.  First those that leave the batches and the workers alone.   *)

LEMMA ArriveStep == IInv /\ Arrive => IInv'
<1> SUFFICES ASSUME IInv, Arrive PROVE IInv'
  OBVIOUS
<1>1. TypeOK'
  <2>1. folder.last \in 0..MaxUid /\ folder.last < MaxUid
    BY DEF IInv, TypeOK, Arrive
  <2>2. folder.last + 1 \in 1..MaxUid
    BY <2>1
  <2>3. folder' \in [validity : Validity, mails : SUBSET Uid, last : 0..MaxUid]
    <3>1. folder \in [validity : Validity, mails : SUBSET Uid, last : 0..MaxUid]
      BY DEF IInv, TypeOK
    <3>2. folder.mails \cup {folder.last + 1} \in SUBSET Uid /\ folder.last + 1 \in 0..MaxUid
      BY <2>2, <3>1 DEF Uid
    <3>3. QED
      BY <3>1, <3>2 DEF Arrive
  <2>4. QED
    BY <2>3 DEF IInv, TypeOK, Arrive
<1>2. PlacesInv' /\ SyncInv'
  BY DEF IInv, PlacesInv, SyncInv, Holder, Arrive
<1>3. FoundInv'
  <2>1. folder.last \in Nat /\ folder'.last = folder.last + 1 /\ folder'.validity = folder.validity
    BY DEF IInv, TypeOK, Arrive
  <2>2. folder'.mails = folder.mails \cup {folder.last + 1}
    BY DEF IInv, TypeOK, Arrive
  <2>3. \A u \in folder.mails : u \in Nat /\ u <= folder.last
    BY DEF IInv, TypeOK, FoundInv, Uid
  <2>4. ASSUME NEW b \in Batch, NEW a \in Attempt, Prefix(worker[b][a])
        PROVE  Prefix(worker[b][a])'
    <3>1. \A m \in worker[b][a].uids : m \in Nat
      BY WorkerType DEF IInv, Snapshot, Uid
    <3>2. QED
      BY <2>1, <2>2, <2>4, <3>1 DEF Prefix, Arrive
  <2>5. QED
    BY <2>1, <2>2, <2>3, <2>4 DEF IInv, FoundInv, Arrive
<1>4. CursorInv'
  <2>1. folder'.validity = folder.validity /\ folder'.mails = folder.mails \cup {folder.last + 1}
    BY DEF IInv, TypeOK, Arrive
  <2>2. folder.last \in Nat /\ folder'.last = folder.last + 1 /\ config.cursor \in Nat
    BY DEF IInv, TypeOK, Arrive
  <2>3. QED
    BY <2>1, <2>2 DEF IInv, CursorInv, NoMailSkipped, RetryRan, Arrive
<1>5. QED
  BY <1>1, <1>2, <1>3, <1>4 DEF IInv

LEMMA ExpungeStep == ASSUME NEW u \in Uid PROVE IInv /\ Expunge(u) => IInv'
<1> SUFFICES ASSUME IInv, Expunge(u) PROVE IInv'
  OBVIOUS
<1>1. TypeOK'
  BY DEF IInv, TypeOK, Expunge
<1>2. PlacesInv' /\ SyncInv'
  BY DEF IInv, PlacesInv, SyncInv, Holder, Expunge
<1>3. folder'.validity = folder.validity /\ folder'.last = folder.last /\ folder'.mails \subseteq folder.mails
  BY DEF IInv, TypeOK, Expunge
<1>4. FoundInv'
  BY <1>3 DEF IInv, FoundInv, Prefix, Expunge
<1>5. CursorInv'
  BY <1>3 DEF IInv, CursorInv, NoMailSkipped, RetryRan, Expunge
<1>6. QED
  BY <1>1, <1>2, <1>4, <1>5 DEF IInv

LEMMA RebuildStep == IInv /\ Rebuild => IInv'
<1> SUFFICES ASSUME IInv, Rebuild PROVE IInv'
  OBVIOUS
<1>0. folder.validity \in 1..MaxValidity /\ folder'.validity = folder.validity + 1 /\ folder'.mails = {}
  BY DEF IInv, TypeOK, Rebuild, Validity
<1>1. TypeOK'
  BY DEF IInv, TypeOK, Rebuild, Validity
<1>2. PlacesInv' /\ SyncInv'
  BY DEF IInv, PlacesInv, SyncInv, Holder, Rebuild
<1>3. FoundInv'
  <2>1. \A b \in Batch, a \in Attempt : worker[b][a].at = "store" =>
           worker[b][a].validity \in 1..folder'.validity /\ worker[b][a].validity # folder'.validity
    BY <1>0 DEF IInv, FoundInv
  <2>2. QED
    BY <1>0, <2>1 DEF FoundInv, Rebuild
<1>4. CursorInv'
  <2>1. config.validity \in Nat /\ config.validity <= folder.validity
    BY DEF IInv, TypeOK, CursorInv
  <2>2. QED
    BY <1>0, <2>1 DEF IInv, CursorInv, NoMailSkipped, Rebuild
<1>5. QED
  BY <1>1, <1>2, <1>3, <1>4 DEF IInv

LEMMA AskStep == ASSUME NEW r \in Requester PROVE IInv /\ Ask(r) => IInv'
BY DEF IInv, TypeOK, PlacesInv, SyncInv, Holder, FoundInv, Prefix, CursorInv, NoMailSkipped, RetryRan, Ask

LEMMA DownstreamStep == ASSUME NEW v \in Validity, NEW u \in Uid PROVE IInv /\ Downstream(v, u) => IInv'
<1> SUFFICES ASSUME IInv, Downstream(v, u) PROVE IInv'
  OBVIOUS
<1>0. PICK stage \in {"ANALYZING"} \cup Settled \cup Failing :
         handoff' = [handoff EXCEPT ![v][u].stage = stage,
                                    ![v][u].message = @ \/ stage = "ANALYZING"]
  BY DEF Downstream
<1>1. TypeOK'
  <2>1. stage \in Settled \cup Failing \cup {"none", "PENDING", "ANALYZING"}
    OBVIOUS
  <2>2. (handoff[v][u].message \/ stage = "ANALYZING") \in BOOLEAN
    OBVIOUS
  <2>3. handoff' \in [Validity -> [Uid -> [batch : 0..MaxBatches, message : BOOLEAN,
                       stage : Settled \cup Failing \cup {"none", "PENDING", "ANALYZING"}]]]
    <3> DEFINE told == handoff[v][u].message \/ stage = "ANALYZING"
               row == [handoff[v][u] EXCEPT !.stage = stage, !.message = told]
    <3>1. row \in [batch : 0..MaxBatches, message : BOOLEAN,
                    stage : Settled \cup Failing \cup {"none", "PENDING", "ANALYZING"}]
      <4>1. handoff[v][u] \in [batch : 0..MaxBatches, message : BOOLEAN,
                    stage : Settled \cup Failing \cup {"none", "PENDING", "ANALYZING"}]
        BY DEF IInv, TypeOK
      <4>2. told \in BOOLEAN
        OBVIOUS
      <4>3. QED
        <5> HIDE DEF told
        <5>1. QED
          BY <2>1, <4>1, <4>2
    <3>2. handoff' = [handoff EXCEPT ![v][u] = row]
      BY <1>0 DEF IInv, TypeOK
    <3>3. QED
      <4> HIDE DEF row
      <4>1. QED
        BY <3>1, <3>2 DEF IInv, TypeOK
  <2>4. QED
    BY <2>3 DEF IInv, TypeOK, Downstream
<1>2. PlacesInv' /\ SyncInv'
  BY DEF IInv, PlacesInv, SyncInv, Holder, Downstream
<1>3. FoundInv'
  BY DEF IInv, FoundInv, Prefix, Downstream
<1>4. CursorInv'
  <2>1. stage # "none"
    BY DEF Settled, Failing
  <2>2. handoff'[v][u].stage = stage
    BY <1>0 DEF IInv, TypeOK
  <2>3. \A x \in Validity, y \in Uid : handoff[x][y] # NoHandoff => handoff'[x][y] # NoHandoff
    BY <1>0, <2>1, <2>2 DEF IInv, TypeOK, NoHandoff
  <2>4. folder.validity \in Validity /\ folder.mails \subseteq Uid
    BY DEF IInv, TypeOK
  <2>5. QED
    BY <2>3, <2>4 DEF IInv, CursorInv, NoMailSkipped, RetryRan, Downstream
<1>5. QED
  BY <1>1, <1>2, <1>3, <1>4 DEF IInv

-----------------------------------------------------------------------------
(* Batches and tasks.                                                      *)

LEMMA InsertStep == ASSUME NEW r \in Requester, NEW b \in Batch PROVE IInv /\ Insert(r, b) => IInv'
<1> SUFFICES ASSUME IInv, Insert(r, b) PROVE IInv'
  OBVIOUS
<1>1. TypeOK'
  <2>1. batch' \in [Batch -> [trigger : {"none", "RETRY"} \cup Requester,
                              status : Unfinished \cup {"none", "SUCCESS", "PARTIAL", "FAILURE"},
                              endUid : 0..MaxUid]]
    BY DEF IInv, TypeOK, Insert, Unfinished
  <2>2. task' \in [Batch -> [status : {"none", "QUEUED", "RUNNING", "SUCCEEDED", "FAILED"},
                             attempt : 0..MaxAttempts]]
    BY DEF IInv, TypeOK, Insert
  <2>3. \A c \in Batch : task'[c].status = "RUNNING" => task'[c].attempt > 0
    BY DEF IInv, TypeOK, Insert
  <2>4. QED
    BY <2>1, <2>2, <2>3 DEF IInv, TypeOK, Insert
<1>2. PlacesInv'
  BY DEF IInv, TypeOK, PlacesInv, Insert
<1>3. /\ batch[b] = NoBatch /\ batch[b].status = "none" /\ batch[b].trigger = "none"
      /\ batch'[b] = [trigger |-> r, status |-> "QUEUED", endUid |-> 0]
      /\ \A c \in Batch : c # b => batch'[c] = batch[c]
  BY DEF IInv, TypeOK, Insert, FreshBatch, NoBatch
<1>4. SyncInv'
  BY <1>3 DEF IInv, TypeOK, SyncInv, Holder, Insert
<1>5. FoundInv'
  BY DEF IInv, FoundInv, Prefix, Insert
<1>6. CursorInv'
  BY <1>3 DEF IInv, CursorInv, NoMailSkipped, RetryRan, Insert
<1>7. QED
  BY <1>1, <1>2, <1>4, <1>5, <1>6 DEF IInv

LEMMA RetryStep ==
  ASSUME NEW v \in Validity, NEW u \in Uid, NEW b \in Batch
  PROVE  IInv /\ RetryMessage(v, u, b) => IInv'
<1> SUFFICES ASSUME IInv, RetryMessage(v, u, b) PROVE IInv'
  OBVIOUS
<1>1. TypeOK'
  <2>1. batch' \in [Batch -> [trigger : {"none", "RETRY"} \cup Requester,
                              status : Unfinished \cup {"none", "SUCCESS", "PARTIAL", "FAILURE"},
                              endUid : 0..MaxUid]]
    BY DEF IInv, TypeOK, RetryMessage, Unfinished, Uid
  <2>2. handoff' \in [Validity -> [Uid -> [batch : 0..MaxBatches, message : BOOLEAN,
                       stage : Settled \cup Failing \cup {"none", "PENDING", "ANALYZING"}]]]
    <3> DEFINE row == [handoff[v][u] EXCEPT !.stage = "PENDING"]
    <3>1. row \in [batch : 0..MaxBatches, message : BOOLEAN,
                    stage : Settled \cup Failing \cup {"none", "PENDING", "ANALYZING"}]
      <4>1. handoff[v][u] \in [batch : 0..MaxBatches, message : BOOLEAN,
                    stage : Settled \cup Failing \cup {"none", "PENDING", "ANALYZING"}]
        BY DEF IInv, TypeOK
      <4>2. QED
        BY <4>1
    <3>2. handoff' = [handoff EXCEPT ![v][u] = row]
      BY DEF IInv, TypeOK, RetryMessage
    <3>3. QED
      <4> HIDE DEF row
      <4>1. QED
        BY <3>1, <3>2 DEF IInv, TypeOK
  <2>3. retries' \in 0..MaxFaults
    BY DEF IInv, TypeOK, RetryMessage
  <2>4. QED
    BY <2>1, <2>2, <2>3 DEF IInv, TypeOK, RetryMessage
<1>2. PlacesInv'
  BY DEF IInv, PlacesInv, RetryMessage
<1>3. /\ batch[b] = NoBatch /\ batch[b].status = "none" /\ batch[b].trigger = "none"
      /\ batch'[b] = [trigger |-> "RETRY", status |-> "QUEUED", endUid |-> u]
      /\ \A c \in Batch : c # b => batch'[c] = batch[c]
  BY DEF IInv, TypeOK, RetryMessage, FreshBatch, NoBatch
<1>4. SyncInv'
  BY <1>3 DEF IInv, TypeOK, SyncInv, Holder, RetryMessage
<1>5. FoundInv'
  BY DEF IInv, FoundInv, Prefix, RetryMessage
<1>6. CursorInv'
  <2>1. handoff'[v][u].stage = "PENDING"
    BY DEF IInv, TypeOK, RetryMessage
  <2>2. \A x \in Validity, y \in Uid : handoff[x][y] # NoHandoff => handoff'[x][y] # NoHandoff
    BY <2>1 DEF IInv, TypeOK, NoHandoff, RetryMessage
  <2>3. folder.validity \in Validity /\ folder.mails \subseteq Uid
    BY DEF IInv, TypeOK
  <2>4. RetryRan => RetryRan'
    BY <1>3 DEF RetryRan
  <2>5. \A c \in Batch : batch'[c].status \in Unfinished /\ batch'[c].trigger # "RETRY" => batch'[c].endUid = 0
    BY <1>3 DEF IInv, CursorInv
  <2>6. QED
    BY <2>2, <2>3, <2>4, <2>5 DEF IInv, CursorInv, NoMailSkipped, RetryMessage
<1>7. QED
  BY <1>1, <1>2, <1>4, <1>5, <1>6 DEF IInv

LEMMA LoseLeaseStep == ASSUME NEW b \in Batch PROVE IInv /\ LoseLease(b) => IInv'
<1> SUFFICES ASSUME IInv, LoseLease(b) PROVE IInv'
  OBVIOUS
<1>1. /\ task' \in [Batch -> [status : {"none", "QUEUED", "RUNNING", "SUCCEEDED", "FAILED"},
                              attempt : 0..MaxAttempts]]
      /\ \A c \in Batch : /\ task'[c].status = "RUNNING" => task'[c].attempt > 0
                          /\ task'[c].status = "QUEUED" => task'[c].attempt < MaxAttempts
  BY DEF IInv, TypeOK, PlacesInv, LoseLease, AnotherAttempt
<1>2. TypeOK' /\ PlacesInv'
  BY <1>1 DEF IInv, TypeOK, PlacesInv, LoseLease
<1>3. SyncInv' /\ FoundInv' /\ CursorInv'
  BY DEF IInv, SyncInv, Holder, FoundInv, Prefix, CursorInv, NoMailSkipped, RetryRan, LoseLease
<1>4. QED
  BY <1>2, <1>3 DEF IInv

-----------------------------------------------------------------------------
(* The workers.                                                            *)

\* A worker that comes to a place where it holds no batch.
LEMMA QuietMove ==
  ASSUME IInv, NEW b \in Batch, NEW a \in Attempt, NEW w, MovesTo(b, a, w),
         w.at \notin {"search", "store", "fail"}, w.at = "start" => w.batch \in Batch,
         UNCHANGED <<folder, config, batch, handoff>>
  PROVE  /\ SyncInv' /\ FoundInv' /\ CursorInv'
         /\ \A c \in Batch, e \in Attempt :
               worker'[c][e].at \in {"start", "search", "store", "fail"} => worker'[c][e].batch \in Batch
<1>1. \A c \in Batch, e \in Attempt : \/ worker'[c][e] = worker[c][e]
                                      \/ c = b /\ e = a /\ worker'[c][e] = w
  BY DEF MovesTo
<1>2. SyncInv'
  BY <1>1 DEF IInv, SyncInv, Holder
<1>3. FoundInv'
  BY <1>1 DEF IInv, FoundInv, Prefix
<1>4. CursorInv'
  BY DEF IInv, CursorInv, NoMailSkipped, RetryRan
<1>5. \A c \in Batch, e \in Attempt :
         worker'[c][e].at \in {"start", "search", "store", "fail"} => worker'[c][e].batch \in Batch
  BY <1>1 DEF IInv, PlacesInv
<1>6. QED
  BY <1>2, <1>3, <1>4, <1>5

\* Such a move, when the tasks keep their ranges as well.
LEMMA QuietStep ==
  ASSUME IInv, NEW b \in Batch, NEW a \in Attempt, NEW w, MovesTo(b, a, w),
         w.at \notin {"search", "store", "fail"}, w.at = "start" => w.batch \in Batch,
         UNCHANGED <<folder, config, batch, handoff, asking, retries>>,
         crashes' \in 0..MaxFaults,
         task' \in [Batch -> [status : {"none", "QUEUED", "RUNNING", "SUCCEEDED", "FAILED"},
                              attempt : 0..MaxAttempts]],
         \A c \in Batch : /\ task'[c].status = "RUNNING" => task'[c].attempt > 0
                          /\ task'[c].status = "QUEUED" => task'[c].attempt < MaxAttempts
  PROVE  IInv'
<1>1. TypeOK'
  BY DEF IInv, TypeOK, MovesTo, Snapshot, Place
<1>2. QED
  BY <1>1, QuietMove DEF IInv, PlacesInv

LEMMA ClaimInv == ASSUME NEW b \in Batch PROVE IInv /\ Claim(b) => IInv'
<1> SUFFICES ASSUME IInv, Claim(b) PROVE IInv'
  OBVIOUS
<1>1. /\ task[b].attempt + 1 \in Attempt
      /\ MovesTo(b, task[b].attempt + 1, [Idle EXCEPT !.at = "pick"])
  BY ClaimStep DEF IInv
<1>2. /\ task' \in [Batch -> [status : {"none", "QUEUED", "RUNNING", "SUCCEEDED", "FAILED"},
                              attempt : 0..MaxAttempts]]
      /\ \A c \in Batch : /\ task'[c].status = "RUNNING" => task'[c].attempt > 0
                          /\ task'[c].status = "QUEUED" => task'[c].attempt < MaxAttempts
  <2>1. /\ task[b].attempt + 1 \in 1..MaxAttempts
        /\ task' = [task EXCEPT ![b] = [status |-> "RUNNING", attempt |-> task[b].attempt + 1]]
    BY <1>1 DEF Claim, Attempt
  <2>2. /\ task \in [Batch -> [status : {"none", "QUEUED", "RUNNING", "SUCCEEDED", "FAILED"},
                               attempt : 0..MaxAttempts]]
        /\ \A c \in Batch : /\ task[c].status = "RUNNING" => task[c].attempt > 0
                            /\ task[c].status = "QUEUED" => task[c].attempt < MaxAttempts
    BY DEF IInv, TypeOK, PlacesInv
  <2>3. QED
    BY <2>1, <2>2
<1>3. [Idle EXCEPT !.at = "pick"].at = "pick"
  BY DEF Idle
<1>4. QED
  BY <1>1, <1>2, <1>3, QuietStep DEF Claim, IInv, TypeOK

LEMMA CrashStep == ASSUME NEW b \in Batch, NEW a \in Attempt PROVE IInv /\ Crash(b, a) => IInv'
<1> SUFFICES ASSUME IInv, Crash(b, a) PROVE IInv'
  OBVIOUS
<1>1. MovesTo(b, a, Idle)
  BY IdleStep DEF IInv, Crash
<1>2. crashes' \in 0..MaxFaults
  BY DEF IInv, TypeOK, Crash
<1>3. Idle.at = "none"
  BY DEF Idle
<1>4. QED
  BY <1>1, <1>2, <1>3, QuietStep DEF Crash, IInv, TypeOK, PlacesInv

LEMMA FinishStep == ASSUME NEW b \in Batch, NEW a \in Attempt PROVE IInv /\ Finish(b, a) => IInv'
<1> SUFFICES ASSUME IInv, Finish(b, a) PROVE IInv'
  OBVIOUS
<1>1. MovesTo(b, a, Idle)
  BY IdleStep DEF IInv, Finish
<1>2. /\ task' \in [Batch -> [status : {"none", "QUEUED", "RUNNING", "SUCCEEDED", "FAILED"},
                              attempt : 0..MaxAttempts]]
      /\ \A c \in Batch : /\ task'[c].status = "RUNNING" => task'[c].attempt > 0
                          /\ task'[c].status = "QUEUED" => task'[c].attempt < MaxAttempts
  BY DEF IInv, TypeOK, PlacesInv, Finish, AnotherAttempt
<1>3. Idle.at = "none"
  BY DEF Idle
<1>4. QED
  BY <1>1, <1>2, <1>3, QuietStep DEF Finish, IInv, TypeOK

LEMMA PickInv == ASSUME NEW b \in Batch, NEW a \in Attempt PROVE IInv /\ Pick(b, a) => IInv'
<1> SUFFICES ASSUME IInv, Pick(b, a) PROVE IInv'
  OBVIOUS
<1>1. [Idle EXCEPT !.at = "success"].at = "success"
  BY DEF Idle
<1>2. ASSUME NEW c \in Batch
      PROVE  /\ [Idle EXCEPT !.at = "start", !.batch = c].at = "start"
             /\ [Idle EXCEPT !.at = "start", !.batch = c].batch = c
  BY DEF Idle
<1>3. /\ UNCHANGED <<folder, config, batch, task, handoff, asking, retries, crashes>>
      /\ crashes \in 0..MaxFaults
      /\ task \in [Batch -> [status : {"none", "QUEUED", "RUNNING", "SUCCEEDED", "FAILED"},
                             attempt : 0..MaxAttempts]]
      /\ \A c \in Batch : /\ task[c].status = "RUNNING" => task[c].attempt > 0
                          /\ task[c].status = "QUEUED" => task[c].attempt < MaxAttempts
  BY DEF Pick, IInv, TypeOK, PlacesInv
<1>4. CASE MovesTo(b, a, [Idle EXCEPT !.at = "success"])
  BY <1>1, <1>3, <1>4, QuietStep
<1>5. CASE \E c \in Batch : MovesTo(b, a, [Idle EXCEPT !.at = "start", !.batch = c])
  <2>1. PICK c \in Batch : MovesTo(b, a, [Idle EXCEPT !.at = "start", !.batch = c])
    BY <1>5
  <2>2. QED
    BY <1>2, <1>3, <2>1, QuietStep
<1>6. QED
  BY <1>4, <1>5, PickStep DEF IInv

BatchRow == [trigger : {"none", "RETRY"} \cup Requester,
             status : Unfinished \cup {"none", "SUCCESS", "PARTIAL", "FAILURE"}, endUid : 0..MaxUid]

LEMMA StartInv == ASSUME NEW b \in Batch, NEW a \in Attempt PROVE IInv /\ Start(b, a) => IInv'
<1> SUFFICES ASSUME IInv, Start(b, a) PROVE IInv'
  OBVIOUS
<1> DEFINE c == worker[b][a].batch
<1>1. c \in Batch
  BY DEF IInv, PlacesInv, Start
<1>2. CASE ~MayStart(c)
  <2>1. Goes(b, a, "success") /\ batch' = batch
    BY <1>2 DEF Start
  <2>2. MovesTo(b, a, [Idle EXCEPT !.at = "success"])
    BY <2>1, GoesStep DEF IInv, Place
  <2>3. [Idle EXCEPT !.at = "success"].at = "success"
    BY DEF Idle
  <2>4. /\ UNCHANGED <<folder, config, batch, task, handoff, asking, retries, crashes>>
        /\ crashes \in 0..MaxFaults
        /\ task \in [Batch -> [status : {"none", "QUEUED", "RUNNING", "SUCCEEDED", "FAILED"},
                               attempt : 0..MaxAttempts]]
        /\ \A d \in Batch : /\ task[d].status = "RUNNING" => task[d].attempt > 0
                            /\ task[d].status = "QUEUED" => task[d].attempt < MaxAttempts
    BY <2>1 DEF Start, IInv, TypeOK, PlacesInv
  <2>5. QED
    BY <2>2, <2>3, <2>4, QuietStep
<1>3. CASE MayStart(c)
  <2> DEFINE w == [worker[b][a] EXCEPT !.at = "search", !.cursor = config.cursor]
  <2>1. MovesTo(b, a, w)
    BY <1>3, StartStep DEF IInv
  <2>2. w.at = "search" /\ w.cursor = config.cursor /\ w.batch = c
    BY WorkerType DEF IInv, Snapshot
  <2> HIDE DEF w
  <2>3. /\ \A d \in Batch, e \in Attempt : \/ worker'[d][e] = worker[d][e]
                                           \/ d = b /\ e = a /\ worker'[d][e] = w
        /\ worker'[b][a] = w
    BY <2>1 DEF MovesTo
  <2>4. \A d \in Batch : batch[d].status \in Unfinished => d = c
    BY <1>1, <1>3 DEF MayStart, Active
  <2>5. \A d \in Batch, e \in Attempt : ~Holder(d, e)
    BY <1>1, <1>3, <2>4 DEF IInv, PlacesInv, SyncInv, Holder, MayStart, Unfinished
  <2>6. /\ batch' \in [Batch -> BatchRow]
        /\ batch'[c].status = "RUNNING" /\ batch[c].status = "QUEUED"
        /\ batch'[c].trigger = batch[c].trigger /\ batch'[c].endUid = batch[c].endUid
        /\ \A d \in Batch : d # c => batch'[d] = batch[d]
    <3>1. batch' = [batch EXCEPT ![c].status = "RUNNING"]
      BY <1>3 DEF Start
    <3>2. batch[c].status = "QUEUED"
      BY <1>3 DEF MayStart
    <3>3. batch \in [Batch -> BatchRow]
      BY DEF IInv, TypeOK, BatchRow
    <3>4. QED
      BY <1>1, <3>1, <3>2, <3>3 DEF BatchRow, Unfinished
  <2>7. UNCHANGED <<folder, config, task, handoff, asking, retries, crashes>>
    BY DEF Start
  <2>8. TypeOK'
    BY <2>1, <2>6, <2>7 DEF IInv, TypeOK, MovesTo, Snapshot, Place, BatchRow
  <2>9. PlacesInv'
    BY <1>1, <2>2, <2>3, <2>7 DEF IInv, PlacesInv
  <2>10. SyncInv'
    BY <1>1, <2>2, <2>3, <2>4, <2>5, <2>6, <2>7 DEF SyncInv, Holder, Unfinished
  <2>11. FoundInv'
    BY <2>2, <2>3, <2>7 DEF IInv, FoundInv, Prefix
  <2>12. CursorInv'
    <3>1. RetryRan => RetryRan'
      BY <1>1, <2>6 DEF RetryRan
    <3>2. \A d \in Batch : batch'[d].status \in Unfinished /\ batch'[d].trigger # "RETRY" => batch'[d].endUid = 0
      BY <1>1, <2>6 DEF IInv, CursorInv, Unfinished
    <3>3. QED
      BY <2>7, <3>1, <3>2 DEF IInv, CursorInv, NoMailSkipped
  <2>13. QED
    BY <2>8, <2>9, <2>10, <2>11, <2>12 DEF IInv
<1>4. QED
  BY <1>2, <1>3

\* What a search keeps of the folder is a prefix of what lies beyond its cursor.
LEMMA FoundIsPrefix ==
  ASSUME TypeOK, \A u \in folder.mails : u <= folder.last,
         NEW w, w.uids = FirstOf(Search(w.cursor)), w.cursor \in 0..MaxUid
  PROVE  Prefix(w)
<1>1. /\ Search(w.cursor) \in SUBSET Uid
      /\ Search(w.cursor) \subseteq folder.mails
  BY SearchFinds DEF TypeOK
<1>2. /\ w.uids \subseteq Search(w.cursor)
      /\ \A m \in w.uids, u \in Search(w.cursor) : u <= m => u \in w.uids
  BY <1>1, FirstOfIsPrefix
<1>3. \A u \in folder.mails : w.cursor < u => u \in Search(w.cursor)
  BY DEF Search
<1>4. QED
  BY <1>1, <1>2, <1>3 DEF Prefix

LEMMA DiscoverInv == ASSUME NEW b \in Batch, NEW a \in Attempt PROVE IInv /\ Discover(b, a) => IInv'
<1> SUFFICES ASSUME IInv, Discover(b, a) PROVE IInv'
  OBVIOUS
<1> DEFINE w == [worker[b][a] EXCEPT !.at = "store", !.validity = folder.validity,
                                     !.uids = FirstOf(Search(worker[b][a].cursor))]
<1>1. MovesTo(b, a, w)
  BY DiscoverStep DEF IInv
<1>2. /\ w.at = "store" /\ w.validity = folder.validity /\ w.cursor = worker[b][a].cursor
      /\ w.batch = worker[b][a].batch /\ w.uids = FirstOf(Search(w.cursor)) /\ w.cursor \in 0..MaxUid
  BY WorkerType DEF IInv, Snapshot
<1> HIDE DEF w
<1>3. /\ \A d \in Batch, e \in Attempt : \/ worker'[d][e] = worker[d][e]
                                         \/ d = b /\ e = a /\ worker'[d][e] = w
      /\ worker'[b][a] = w /\ worker[b][a].at = "search"
      /\ UNCHANGED <<folder, config, batch, task, handoff, asking, retries, crashes>>
  BY <1>1 DEF MovesTo, Discover
<1>4. TypeOK'
  BY <1>1, <1>3 DEF IInv, TypeOK, MovesTo, Snapshot, Place
<1>5. PlacesInv'
  BY <1>2, <1>3 DEF IInv, PlacesInv
<1>6. SyncInv'
  BY <1>2, <1>3 DEF IInv, SyncInv, Holder
<1>7. FoundInv'
  <2>1. Prefix(w) /\ w.validity \in 1..folder.validity
    <3>1. TypeOK /\ (\A u \in folder.mails : u <= folder.last)
      BY DEF IInv, FoundInv
    <3>2. Prefix(w)
      BY <1>2, <3>1, FoundIsPrefix
    <3>3. folder.validity \in Validity
      BY <3>1 DEF TypeOK
    <3>4. QED
      BY <1>2, <3>2, <3>3 DEF Validity
  <2>2. QED
    BY <1>3, <2>1 DEF IInv, FoundInv, Prefix
<1>8. CursorInv'
  BY <1>3 DEF IInv, CursorInv, NoMailSkipped, RetryRan
<1>9. QED
  BY <1>4, <1>5, <1>6, <1>7, <1>8 DEF IInv

LEMMA DiscoverFailsInv == ASSUME NEW b \in Batch, NEW a \in Attempt PROVE IInv /\ DiscoverFails(b, a) => IInv'
<1> SUFFICES ASSUME IInv, DiscoverFails(b, a) PROVE IInv'
  OBVIOUS
<1> DEFINE w == [worker[b][a] EXCEPT !.at = "fail"]
<1>1. MovesTo(b, a, w)
  BY DiscoverFailsStep DEF IInv
<1>2. w.at = "fail" /\ w.batch = worker[b][a].batch
  BY WorkerType DEF IInv, Snapshot
<1> HIDE DEF w
<1>3. /\ \A d \in Batch, e \in Attempt : \/ worker'[d][e] = worker[d][e]
                                         \/ d = b /\ e = a /\ worker'[d][e] = w
      /\ worker'[b][a] = w /\ worker[b][a].at \in {"search", "store"}
      /\ UNCHANGED <<folder, config, batch, task, handoff, asking, retries, crashes>>
  BY <1>1 DEF MovesTo, DiscoverFails
<1>4. TypeOK'
  BY <1>1, <1>3 DEF IInv, TypeOK, MovesTo, Snapshot, Place
<1>5. PlacesInv' /\ SyncInv'
  BY <1>2, <1>3 DEF IInv, PlacesInv, SyncInv, Holder
<1>6. FoundInv'
  BY <1>2, <1>3 DEF IInv, FoundInv, Prefix
<1>7. CursorInv'
  BY <1>3 DEF IInv, CursorInv, NoMailSkipped, RetryRan
<1>8. QED
  BY <1>4, <1>5, <1>6, <1>7 DEF IInv

\* The holder's batch ends, in whatever state; then nothing runs and nobody holds.
LEMMA EndStep ==
  ASSUME IInv, NEW b \in Batch, NEW a \in Attempt, Holder(b, a), NEW row \in BatchRow,
         batch' = [batch EXCEPT ![worker[b][a].batch] = row],
         row.status \notin Unfinished, row.trigger = batch[worker[b][a].batch].trigger,
         NEW w, MovesTo(b, a, w), w.at \notin {"start", "search", "store", "fail"},
         config' \in [validity : 0..MaxValidity, cursor : 0..MaxUid],
         handoff' \in [Validity -> [Uid -> [batch : 0..MaxBatches, message : BOOLEAN,
                       stage : Settled \cup Failing \cup {"none", "PENDING", "ANALYZING"}]]],
         UNCHANGED <<folder, task, asking, retries, crashes>>
  PROVE  /\ TypeOK' /\ PlacesInv' /\ SyncInv' /\ FoundInv'
         /\ RetryRan => RetryRan'
         /\ batch[worker[b][a].batch].trigger = "RETRY" => RetryRan'
         /\ \A d \in Batch : batch'[d].status \in Unfinished /\ batch'[d].trigger # "RETRY" => batch'[d].endUid = 0
<1> DEFINE c == worker[b][a].batch
<1>1. c \in Batch /\ batch[c].status = "RUNNING"
  BY DEF IInv, PlacesInv, SyncInv, Holder
<1>2. /\ batch' \in [Batch -> BatchRow] /\ batch'[c] = row
      /\ \A d \in Batch : d # c => batch'[d] = batch[d]
  BY <1>1 DEF IInv, TypeOK, BatchRow
<1>3. \A d \in Batch, e \in Attempt : \/ worker'[d][e] = worker[d][e] /\ (d # b \/ e # a)
                                      \/ d = b /\ e = a /\ worker'[d][e] = w
  BY DEF MovesTo
<1>4. TypeOK'
  BY <1>2 DEF IInv, TypeOK, MovesTo, Snapshot, Place, BatchRow
<1>5. PlacesInv'
  BY <1>3 DEF IInv, PlacesInv
<1>6. \A d \in Batch, e \in Attempt : ~Holder(d, e)'
  BY <1>3 DEF IInv, SyncInv, Holder
<1>7. \A d \in Batch : batch'[d].status # "RUNNING"
  BY <1>1, <1>2 DEF IInv, SyncInv, Unfinished
<1>8. SyncInv'
  BY <1>6, <1>7 DEF SyncInv, Holder
<1>9. FoundInv'
  BY <1>6 DEF IInv, FoundInv, Holder
<1>10. /\ RetryRan => RetryRan'
       /\ batch[c].trigger = "RETRY" => RetryRan'
  BY <1>1, <1>2 DEF RetryRan, Unfinished
<1>11. \A d \in Batch : batch'[d].status \in Unfinished /\ batch'[d].trigger # "RETRY" => batch'[d].endUid = 0
  BY <1>1, <1>2 DEF IInv, CursorInv
<1>12. QED
  BY <1>4, <1>5, <1>8, <1>9, <1>10, <1>11

\* A moved cursor passes no mail: what is new below it was found, and has its row.
LEMMA StoreKeepsCursor ==
  ASSUME IInv, NEW b \in Batch, NEW a \in Attempt, Store(b, a), ~RetryRan,
         batch[worker[b][a].batch].trigger # "RETRY"
  PROVE  /\ config'.validity = folder.validity => config'.cursor <= folder.last
         /\ NoMailSkipped'
<1> DEFINE c == worker[b][a].batch
           v == worker[b][a].validity
           uids == worker[b][a].uids
           new == NewHandoffs(v, uids)
           end == IF uids = {} THEN batch[c].endUid ELSE Max(uids)
<1>1. /\ c \in Batch /\ batch[c].endUid = 0
      /\ worker[b][a].cursor = config.cursor
      /\ v \in 1..folder.validity /\ (v = folder.validity => Prefix(worker[b][a]))
      /\ config.validity \in {0, v}
  BY DEF IInv, PlacesInv, SyncInv, Holder, FoundInv, CursorInv, Store, Unfinished
<1>2. uids \in SUBSET Uid /\ config.cursor \in Nat /\ folder.last \in Nat /\ folder.mails \subseteq Uid
  BY WorkerType DEF IInv, TypeOK, Snapshot
<1>3. uids # {} => Max(uids) \in uids /\ end = Max(uids)
  <2>1. uids \in SUBSET (0..MaxUid)
    BY <1>2 DEF Uid
  <2>2. QED
    BY <2>1, GreatestIsThere
<1>4. uids = {} => end = 0
  BY <1>1
<1>5. /\ config'.validity = v
      /\ config'.cursor = IF new = {} /\ end # 0 THEN Advanced(config.cursor, end) ELSE config.cursor
      /\ folder' = folder
  BY DEF Store, Exhausted
<1>6. /\ \A u \in Uid : handoff'[v][u] = IF u \in new THEN [batch |-> c, stage |-> "PENDING", message |-> FALSE]
                                        ELSE handoff[v][u]
  <2>1. v \in Validity
    BY WorkerType, <1>1 DEF IInv, TypeOK, Validity
  <2>2. QED
    BY <2>1 DEF Store, IInv, TypeOK
<1> HIDE DEF end, new
<1>7. config'.cursor = config.cursor \/ (new = {} /\ uids # {} /\ config'.cursor = Max(uids))
  BY <1>3, <1>4, <1>5 DEF Advanced
<1>8. SUFFICES ASSUME v = folder.validity
               PROVE  /\ config'.cursor <= folder.last
                      /\ \A u \in folder.mails \cap Weekly :
                            u <= config'.cursor => handoff'[v][u] # NoHandoff
  BY <1>5 DEF NoMailSkipped
<1>9. config.cursor <= folder.last
  BY <1>1, <1>2, <1>8 DEF IInv, CursorInv
<1>10. config'.cursor <= folder.last
  BY <1>1, <1>2, <1>3, <1>7, <1>8, <1>9 DEF Prefix
<1>11. ASSUME NEW u \in folder.mails \cap Weekly, u <= config'.cursor
       PROVE  handoff'[v][u] # NoHandoff
  <2>1. u \in Uid /\ u \in Nat \ {0}
    BY <1>2 DEF Uid
  <2>2. CASE u <= config.cursor
    <3>1. handoff[v][u] # NoHandoff
      BY <1>1, <1>2, <1>8, <2>1, <2>2 DEF IInv, CursorInv, NoMailSkipped
    <3>2. QED
      BY <1>6, <2>1, <3>1 DEF NoHandoff
  <2>3. CASE ~(u <= config.cursor)
    <3>1. new = {} /\ uids # {} /\ config'.cursor = Max(uids)
      BY <1>7, <1>11, <2>3
    <3>2. u \in uids
      BY <1>1, <1>2, <1>3, <1>8, <1>11, <2>1, <2>3, <3>1 DEF Prefix
    <3>3. handoff[v][u] # NoHandoff
      BY <3>1, <3>2 DEF new, NewHandoffs
    <3>4. QED
      BY <1>6, <2>1, <3>1, <3>3
  <2>4. QED
    BY <2>2, <2>3
<1>12. QED
  BY <1>10, <1>11

LEMMA StoreStep == ASSUME NEW b \in Batch, NEW a \in Attempt PROVE IInv /\ Store(b, a) => IInv'
<1> SUFFICES ASSUME IInv, Store(b, a) PROVE IInv'
  OBVIOUS
<1> DEFINE c == worker[b][a].batch
           v == worker[b][a].validity
           uids == worker[b][a].uids
           new == NewHandoffs(v, uids)
           end == IF uids = {} THEN batch[c].endUid ELSE Max(uids)
           status == IF new = {} THEN "SUCCESS" ELSE "PARTIAL"
           row == [batch[c] EXCEPT !.endUid = end, !.status = status]
           w == [Idle EXCEPT !.at = "success"]
<1>1. Holder(b, a) /\ c \in Batch
  BY DEF Store, Holder, IInv, PlacesInv
<1>2. MovesTo(b, a, w) /\ w.at = "success"
  BY GoesStep DEF IInv, Store, Place, Idle
<1>3. v \in 1..folder.validity /\ v \in Validity
  BY WorkerType DEF IInv, FoundInv, Snapshot, Store, Validity, TypeOK
<1>4. end \in 0..MaxUid
  <2>1. uids \in SUBSET (0..MaxUid)
    BY WorkerType DEF IInv, Snapshot, Uid
  <2>2. batch[c].endUid \in 0..MaxUid
    BY <1>1 DEF IInv, TypeOK
  <2>3. QED
    BY <2>1, <2>2, GreatestIsThere
<1>5. row \in BatchRow /\ row.status \notin Unfinished /\ row.trigger = batch[c].trigger
  <2>1. batch[c] \in BatchRow
    BY <1>1 DEF IInv, TypeOK, BatchRow
  <2>2. status \in {"SUCCESS", "PARTIAL"}
    OBVIOUS
  <2>3. QED
    <3> HIDE DEF end, status
    <3>1. QED
      BY <1>4, <2>1, <2>2 DEF BatchRow, Unfinished
<1>6. batch' = [batch EXCEPT ![c] = row]
  BY <1>1 DEF Store, Exhausted, IInv, TypeOK
<1>7. config'.validity = v /\ config' \in [validity : 0..MaxValidity, cursor : 0..MaxUid]
  <2>1. config' = [validity |-> v,
                   cursor |-> IF new = {} /\ end # 0 THEN Advanced(config.cursor, end) ELSE config.cursor]
    BY DEF Store, Exhausted
  <2>2. config.cursor \in 0..MaxUid /\ v \in 0..MaxValidity
    BY <1>3 DEF IInv, TypeOK, Validity
  <2>3. QED
    <3> HIDE DEF end, new, v
    <3>1. QED
      BY <1>4, <2>1, <2>2 DEF Advanced
<1>8. handoff' \in [Validity -> [Uid -> [batch : 0..MaxBatches, message : BOOLEAN,
                       stage : Settled \cup Failing \cup {"none", "PENDING", "ANALYZING"}]]]
  <2> DEFINE Row == [batch : 0..MaxBatches, message : BOOLEAN,
                     stage : Settled \cup Failing \cup {"none", "PENDING", "ANALYZING"}]
             rows == [u \in Uid |-> IF u \in new THEN [batch |-> c, stage |-> "PENDING", message |-> FALSE]
                                    ELSE handoff[v][u]]
  <2>1. handoff \in [Validity -> [Uid -> Row]]
    BY DEF IInv, TypeOK
  <2>2. [batch |-> c, stage |-> "PENDING", message |-> FALSE] \in Row
    BY <1>1 DEF Batch
  <2>3. rows \in [Uid -> Row]
    <3> HIDE DEF Row, new
    <3>1. QED
      BY <1>3, <2>1, <2>2
  <2>4. handoff' = [handoff EXCEPT ![v] = rows]
    BY <1>3 DEF Store, IInv, TypeOK
  <2>5. QED
    <3> HIDE DEF Row, rows
    <3>1. handoff' \in [Validity -> [Uid -> Row]]
      BY <1>3, <2>1, <2>3, <2>4
    <3>2. QED
      BY <3>1 DEF Row
<1>9. UNCHANGED <<folder, task, asking, retries, crashes>>
  BY DEF Store
<1> HIDE DEF row, w
<1>10. /\ TypeOK' /\ PlacesInv' /\ SyncInv' /\ FoundInv'
       /\ RetryRan => RetryRan'
       /\ batch[c].trigger = "RETRY" => RetryRan'
       /\ \A d \in Batch : batch'[d].status \in Unfinished /\ batch'[d].trigger # "RETRY" => batch'[d].endUid = 0
  BY <1>1, <1>2, <1>5, <1>6, <1>7, <1>8, <1>9, EndStep
<1>11. CursorInv'
  <2>1. config'.validity <= folder'.validity /\ config'.validity # 0
    BY <1>3, <1>7, <1>9
  <2>2. CASE RetryRan'
    BY <1>10, <2>1, <2>2 DEF CursorInv, NoMailSkipped
  <2>3. CASE ~RetryRan'
    <3>1. /\ config'.validity = folder.validity => config'.cursor <= folder.last
          /\ NoMailSkipped'
      BY <1>10, <2>3, StoreKeepsCursor
    <3>2. QED
      BY <1>9, <1>10, <2>1, <3>1 DEF CursorInv
  <2>4. QED
    BY <2>2, <2>3
<1>12. QED
  BY <1>10, <1>11 DEF IInv

LEMMA FailStep == ASSUME NEW b \in Batch, NEW a \in Attempt PROVE IInv /\ Fail(b, a) => IInv'
<1> SUFFICES ASSUME IInv, Fail(b, a) PROVE IInv'
  OBVIOUS
<1> DEFINE c == worker[b][a].batch
           row == Failed(batch[c])
           w == [Idle EXCEPT !.at = "retry"]
<1>1. Holder(b, a) /\ c \in Batch
  BY DEF Fail, Holder, IInv, PlacesInv
<1>2. MovesTo(b, a, w) /\ w.at = "retry"
  BY GoesStep DEF IInv, Fail, Place, Idle
<1>3. row \in BatchRow /\ row.status = "FAILURE" /\ row.trigger = batch[c].trigger
  <2>1. batch[c] \in BatchRow
    BY <1>1 DEF IInv, TypeOK, BatchRow
  <2>2. QED
    BY <2>1 DEF Failed, BatchRow
<1>4. batch' = [batch EXCEPT ![c] = row]
  BY DEF Fail
<1>5. /\ UNCHANGED <<folder, config, task, handoff, asking, retries, crashes>>
      /\ config' \in [validity : 0..MaxValidity, cursor : 0..MaxUid]
      /\ handoff' \in [Validity -> [Uid -> [batch : 0..MaxBatches, message : BOOLEAN,
                       stage : Settled \cup Failing \cup {"none", "PENDING", "ANALYZING"}]]]
  BY DEF Fail, IInv, TypeOK
<1>6. row.status \notin Unfinished
  BY <1>3 DEF Unfinished
<1> HIDE DEF row, w
<1>7. /\ TypeOK' /\ PlacesInv' /\ SyncInv' /\ FoundInv'
      /\ RetryRan => RetryRan'
      /\ \A d \in Batch : batch'[d].status \in Unfinished /\ batch'[d].trigger # "RETRY" => batch'[d].endUid = 0
  BY <1>1, <1>2, <1>3, <1>4, <1>5, <1>6, EndStep
<1>8. CursorInv'
  BY <1>5, <1>7 DEF IInv, CursorInv, NoMailSkipped
<1>9. QED
  BY <1>7, <1>8 DEF IInv

LEMMA StoreResetStep == ASSUME NEW b \in Batch, NEW a \in Attempt PROVE IInv /\ StoreReset(b, a) => IInv'
<1> SUFFICES ASSUME IInv, StoreReset(b, a) PROVE IInv'
  OBVIOUS
<1> DEFINE c == worker[b][a].batch
           row == Failed(batch[c])
           w == [Idle EXCEPT !.at = "success"]
<1>1. Holder(b, a) /\ c \in Batch
  BY DEF StoreReset, Holder, IInv, PlacesInv
<1>2. MovesTo(b, a, w) /\ w.at = "success"
  BY GoesStep DEF IInv, StoreReset, Place, Idle
<1>3. row \in BatchRow /\ row.status = "FAILURE" /\ row.trigger = batch[c].trigger
  <2>1. batch[c] \in BatchRow
    BY <1>1 DEF IInv, TypeOK, BatchRow
  <2>2. QED
    BY <2>1 DEF Failed, BatchRow
<1>4. batch' = [batch EXCEPT ![c] = row]
  BY DEF StoreReset
<1>5. /\ config' = [validity |-> worker[b][a].validity, cursor |-> 0]
      /\ worker[b][a].validity \in 1..folder.validity /\ worker[b][a].validity \in 0..MaxValidity
  BY WorkerType DEF StoreReset, ResetTo, IInv, FoundInv, Snapshot
<1>6. /\ UNCHANGED <<folder, task, handoff, asking, retries, crashes>>
      /\ config' \in [validity : 0..MaxValidity, cursor : 0..MaxUid]
      /\ handoff' \in [Validity -> [Uid -> [batch : 0..MaxBatches, message : BOOLEAN,
                       stage : Settled \cup Failing \cup {"none", "PENDING", "ANALYZING"}]]]
  BY <1>5 DEF StoreReset, IInv, TypeOK
<1>7. row.status \notin Unfinished
  BY <1>3 DEF Unfinished
<1> HIDE DEF row, w
<1>8. /\ TypeOK' /\ PlacesInv' /\ SyncInv' /\ FoundInv'
      /\ \A d \in Batch : batch'[d].status \in Unfinished /\ batch'[d].trigger # "RETRY" => batch'[d].endUid = 0
  BY <1>1, <1>2, <1>3, <1>4, <1>6, <1>7, EndStep
<1>9. CursorInv'
  <2>1. \A u \in folder'.mails : ~(u <= config'.cursor)
    BY <1>5, <1>6 DEF IInv, TypeOK, Uid
  <2>2. 0 <= folder'.last /\ config'.cursor = 0 /\ config'.validity <= folder'.validity
    BY <1>5, <1>6 DEF IInv, TypeOK, Validity
  <2>3. QED
    BY <1>8, <2>1, <2>2 DEF CursorInv, NoMailSkipped
<1>10. QED
  BY <1>8, <1>9 DEF IInv

-----------------------------------------------------------------------------
(* The theorems.                                                           *)

LEMMA NextIInv == IInv /\ [Next]_vars => IInv'
<1> SUFFICES ASSUME IInv, [Next]_vars PROVE IInv'
  OBVIOUS
<1>1. CASE Arrive \/ Rebuild \/ \E u \in Uid : Expunge(u)
  BY <1>1, ArriveStep, RebuildStep, ExpungeStep
<1>2. CASE \E r \in Requester : Ask(r) \/ \E b \in Batch : Insert(r, b)
  BY <1>2, AskStep, InsertStep
<1>3. CASE \E v \in Validity, u \in Uid : Downstream(v, u) \/ \E b \in Batch : RetryMessage(v, u, b)
  BY <1>3, DownstreamStep, RetryStep
<1>4. CASE \E b \in Batch : LoseLease(b) \/ Claim(b)
  BY <1>4, LoseLeaseStep, ClaimInv
<1>5. CASE \E b \in Batch, a \in Attempt :
              Crash(b, a) \/ DiscoverFails(b, a) \/ Finish(b, a) \/ Pick(b, a) \/ Start(b, a)
  BY <1>5, CrashStep, DiscoverFailsInv, FinishStep, PickInv, StartInv
<1>6. CASE \E b \in Batch, a \in Attempt : Discover(b, a) \/ Fail(b, a) \/ StoreReset(b, a) \/ Store(b, a)
  BY <1>6, DiscoverInv, FailStep, StoreResetStep, StoreStep
<1>7. CASE UNCHANGED vars
  BY <1>7 DEF vars, IInv, TypeOK, PlacesInv, SyncInv, Holder, FoundInv, Prefix, CursorInv, NoMailSkipped, RetryRan
<1>8. QED
  BY <1>1, <1>2, <1>3, <1>4, <1>5, <1>6, <1>7 DEF Next, Work

LEMMA Inductive == Spec => []IInv
<1>1. QED
  BY InitIInv, NextIInv, PTL DEF Spec

\* The rows, tasks and workers of a mailbox keep their ranges, however many there
\* are: no attempt beyond max_attempts, no worker without a batch of its mailbox.
THEOREM MailSyncTypes == Spec => []TypeOK
<1>1. IInv => TypeOK
  BY DEF IInv
<1>2. QED
  BY <1>1, Inductive, PTL

\* Of a mailbox's batches at most one is being run, for any number of requests,
\* tasks, attempts and lost leases: the second check in run() is enough.
THEOREM OneBatchRuns == Spec => []OneRunning
<1>1. IInv => OneRunning
  <2> SUFFICES ASSUME IInv PROVE OneRunning
    OBVIOUS
  <2> DEFINE running == {b \in Batch : batch[b].status = "RUNNING"}
  <2>1. CASE running = {}
    <3>1. Cardinality(running) = 0
      BY <2>1, FS_EmptySet
    <3>2. QED
      BY <3>1 DEF OneRunning
  <2>2. CASE running # {}
    <3>1. PICK b \in Batch : running = {b}
      BY <2>2 DEF IInv, SyncInv
    <3>2. Cardinality(running) = 1
      BY <3>1, FS_Singleton
    <3>3. QED
      BY <3>2 DEF OneRunning
  <2>3. QED
    BY <2>1, <2>2
<1>2. QED
  BY <1>1, Inductive, PTL

\* No weekly report falls behind the cursor: for any window, any order of arrivals,
\* expunges and rebuilds of the folder, and any interleaving of the workers.
THEOREM CursorPassesNothing == Spec => []NoMailSkipped
<1>1. IInv => NoMailSkipped
  BY DEF IInv, CursorInv
<1>2. QED
  BY <1>1, Inductive, PTL

\* The cursor goes back only with the UIDVALIDITY it counts in.
THEOREM CursorGoesForward == Spec => CursorOnlyReset
<1>1. IInv /\ [Next]_vars => (config'.cursor < config.cursor => config'.validity # config.validity)
  <2> SUFFICES ASSUME IInv, [Next]_vars, config'.cursor < config.cursor
               PROVE  config'.validity # config.validity
    OBVIOUS
  <2>1. config.cursor \in Nat
    BY DEF IInv, TypeOK
  <2>2. CASE \E b \in Batch, a \in Attempt : StoreReset(b, a)
    BY <2>2 DEF StoreReset, ResetTo
  <2>3. CASE \E b \in Batch, a \in Attempt : Store(b, a)
    <3>1. PICK b \in Batch, a \in Attempt : Store(b, a)
      BY <2>3
    <3>2. \E end : config'.cursor \in {Advanced(config.cursor, end), config.cursor}
      BY <3>1 DEF Store
    <3>3. IInv'
      BY NextIInv
    <3>4. config'.cursor \in Nat
      BY <3>3 DEF IInv, TypeOK
    <3>5. QED
      BY <2>1, <3>2, <3>4 DEF Advanced
  <2>4. CASE config' = config
    BY <2>1, <2>4
  <2>5. CASE \/ Arrive \/ Rebuild \/ UNCHANGED vars \/ \E u \in Uid : Expunge(u)
             \/ \E r \in Requester : Ask(r) \/ \E b \in Batch : Insert(r, b)
    BY <2>4, <2>5 DEF vars, Arrive, Rebuild, Expunge, Ask, Insert
  <2>6. CASE \E v \in Validity, u \in Uid : Downstream(v, u) \/ \E b \in Batch : RetryMessage(v, u, b)
    BY <2>4, <2>6 DEF Downstream, RetryMessage
  <2>7. CASE \E b \in Batch : LoseLease(b) \/ Claim(b)
    BY <2>4, <2>7 DEF LoseLease, Claim
  <2>8. CASE \E b \in Batch, a \in Attempt : Crash(b, a) \/ DiscoverFails(b, a) \/ Finish(b, a) \/ Pick(b, a)
    BY <2>4, <2>8 DEF Crash, DiscoverFails, Finish, Pick
  <2>9. CASE \E b \in Batch, a \in Attempt : Start(b, a) \/ Discover(b, a) \/ Fail(b, a)
    BY <2>4, <2>9 DEF Start, Discover, Fail
  <2>10. QED
    BY <2>2, <2>3, <2>5, <2>6, <2>7, <2>8, <2>9 DEF Next, Work
<1>2. QED
  BY <1>1, Inductive, PTL DEF Spec, CursorOnlyReset
=============================================================================
