------------------------------ MODULE ConfigRelease ------------------------------
(***************************************************************************)
(* The published configuration: risk categories and project aliases in      *)
(* their tables, the settings in the snapshot of the latest release, and     *)
(* the transaction that publishes the next one (system_config/service.py).   *)
(*                                                                         *)
(* A publication reads the latest release and the tables, writes item after  *)
(* item, and inserts its release with the time it began; whatever it wrote   *)
(* is seen when it commits.                                                 *)
(***************************************************************************)
EXTENDS Integers, FiniteSets, Sequences, SequencesExt

CONSTANTS Row,         \* rows of a table, in the order of their ids
          Code,        \* codes of categories, or normal forms of aliases; "" is invalid
          Settings,    \* mail, security, notifications and retention; DefaultSettings among them
          DefaultSettings,
          Publisher, Payload,
          MaxPublications

ASSUME ConfigReleaseAssumption ==
    /\ Row \subseteq Nat \ {0} /\ "" \in Code /\ DefaultSettings \in Settings /\ MaxPublications \in Nat

VARIABLES categories, aliases,  \* [Row -> row]
          releases,             \* in the order they were inserted
          publishing,           \* [Publisher -> what its transaction read, NoWork without one]
          clock

configVars == <<categories, aliases, releases, publishing, clock>>

NoConfig == [code |-> "", active |-> FALSE]
NoWork == [on |-> FALSE, payload |-> <<>>, version |-> 0, before |-> <<>>, began |-> 0]

-----------------------------------------------------------------------------
\* An item names the row it changes, or 0: then the row with its code, or a new one.
Target(table, item) ==
    LET named == {r \in Row : table[r].code # "" /\ IF item.id # 0 THEN r = item.id ELSE table[r].code = item.code}
        fresh == {r \in Row : table[r].code = "" /\ \A q \in Row : q < r => table[q].code # ""}
    IN  IF named # {} THEN named ELSE fresh

\* One item: [ok, table, kept].  A flush refuses a code another row holds then.
WriteItem(acc, item) ==
    LET target == Target(acc.table, item)
        r == CHOOSE x \in target : TRUE
    IN  IF ~acc.ok \/ target = {} \/ \E q \in Row \ {r} : acc.table[q].code = item.code
        THEN [acc EXCEPT !.ok = FALSE]
        ELSE [acc EXCEPT !.table[r] = [code |-> item.code, active |-> item.active], !.kept = @ \cup {r}]

\* _write_current, for categories and for aliases: what is not listed is switched off.
Written(table, items) ==
    LET done == FoldLeft(WriteItem, [ok |-> TRUE, table |-> table, kept |-> {}], items)
    IN  [done EXCEPT !.table = [r \in Row |-> [done.table[r] EXCEPT !.active = @ /\ r \in done.kept]]]

\* _validate
Valid(payload) ==
    /\ \A items \in {payload.categories, payload.aliases} :
          \A i, j \in DOMAIN items : items[i].code # "" /\ (items[i].code = items[j].code => i = j)
    /\ \E i \in DOMAIN payload.categories : payload.categories[i].active

\* _snapshot
Snapshot(c, a, settings) == [categories |-> c, aliases |-> a, settings |-> settings]

\* _latest: the release with the latest time; releases of one time are not modelled.
Latest == releases[CHOOSE i \in DOMAIN releases : \A j \in DOMAIN releases : releases[j].at <= releases[i].at]

\* _settings and _snapshot of an overview: the tables as they are, the settings released last
Overview == Snapshot(categories, aliases, Latest.snapshot.settings)

\* publish, up to its first write
BeginPublish(p, payload) ==
    /\ ~publishing[p].on /\ clock <= MaxPublications /\ Valid(payload)
    /\ publishing' = [publishing EXCEPT ![p] = [on |-> TRUE, payload |-> payload, version |-> Latest.version + 1,
                                                before |-> Overview, began |-> clock]]
    /\ clock' = clock + 1
    /\ UNCHANGED <<categories, aliases, releases>>

\* system_config_releases_version_key
AdmittedVersion(version) == \A i \in DOMAIN releases : releases[i].version # version

Released(work, c, a) ==
    [version |-> work.version, at |-> work.began, before |-> work.before,
     snapshot |-> Snapshot(c, a, work.payload.settings)]

CommitPublish(p) ==
    LET work == publishing[p]
        c == Written(categories, work.payload.categories)
        a == Written(aliases, work.payload.aliases)
    IN  /\ work.on /\ c.ok /\ a.ok /\ AdmittedVersion(work.version)
        /\ categories' = c.table /\ aliases' = a.table
        /\ releases' = Append(releases, Released(work, c.table, a.table))
        /\ publishing' = [publishing EXCEPT ![p] = NoWork]
        /\ UNCHANGED clock

\* A code or the version is taken (409), or the transaction breaks: nothing is kept.
PublishFails(p) ==
    /\ publishing[p].on
    /\ publishing' = [publishing EXCEPT ![p] = NoWork]
    /\ UNCHANGED <<categories, aliases, releases, clock>>

-----------------------------------------------------------------------------
\* _latest_or_baseline ran before anything was published
ConfigInit ==
    /\ categories = [r \in Row |-> IF r = 1 THEN [code |-> CHOOSE k \in Code : k # "", active |-> TRUE] ELSE NoConfig]
    /\ aliases = [r \in Row |-> NoConfig]
    /\ releases = <<[version |-> 3, at |-> 0, before |-> <<>>, snapshot |-> Snapshot(categories, aliases, DefaultSettings)]>>
    /\ publishing = [p \in Publisher |-> NoWork] /\ clock = 1

ConfigNext ==
    \E p \in Publisher : (\E payload \in Payload : BeginPublish(p, payload)) \/ CommitPublish(p) \/ PublishFails(p)

-----------------------------------------------------------------------------
ConfigTypeOK ==
    /\ \A t \in {categories, aliases} : \A r \in Row : t[r].code \in Code /\ t[r].active \in BOOLEAN
    /\ Len(releases) \in 1..clock /\ clock \in 1..MaxPublications + 1
    /\ \A p \in Publisher : publishing[p].began < clock

\* The release history is a chain: what a release says was in force before it is
\* what its predecessor left in force, also when two administrators publish at
\* once (the version both would take is unique).
ReleasesChain ==
    \A i \in 2..Len(releases) : releases[i].before = releases[i - 1].snapshot /\ releases[i].version = releases[i - 1].version + 1

\* The rules in force are those of the latest release, the ones that login and
\* mail synchronisation read by its time included (snapshot, _latest).
LatestIsInForce == Latest = Last(releases) /\ Latest.snapshot = Overview

\* Codes stay unique among all rows, and a category is always in force.
CategoriesStayUsable ==
    /\ \A r \in Row : categories[r].active => \A q \in Row \ {r} : categories[q].code # categories[r].code
    /\ \E r \in Row : categories[r].active
=============================================================================
