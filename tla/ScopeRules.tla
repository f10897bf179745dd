------------------------------ MODULE ScopeRules ------------------------------
(***************************************************************************)
(* The rules administrators write for the first layer of the agent's scope *)
(* gate: the rows and their revision in the database, the compiled copy     *)
(* every process keeps, the event that announces a change and the poll that *)
(* finds it when the event was lost (agent/scope_rules.py, agent/scope.py,  *)
(* admin/agent_scope).                                                      *)
(***************************************************************************)
EXTENDS Integers, FiniteSets, Sequences, SequencesExt, FiniteSetsExt

CONSTANTS RuleId,        \* rows that can be created, in the order of their ids
          Text,          \* messages and patterns as they are typed
          Normal,        \* [Text -> Text \cup {""}]: normal form, "" when empty or too long
          Includes,      \* [normal form -> its substrings, itself included]
          DomainTerms,   \* BUILTIN_DOMAIN_TERMS, as normal forms
          AdviceIntents, \* _WEEKLY_ADVICE_INTENTS
          OffTopic,      \* _NON_BUSINESS_PHRASES and patterns, as normal forms
          Draft,         \* contents a form can be submitted with
          Api, RuleWorker, \* API processes listen and poll; workers only probe before a turn
          Admin,         \* administrators with an open form
          MaxEdits, MaxRuleFaults

RuleProcess == Api \cup RuleWorker

ASSUME ScopeRulesAssumption ==
    /\ RuleId \subseteq Nat \ {0} /\ IsFiniteSet(RuleId) /\ Api # {}
    /\ Normal \in [Text -> DOMAIN Includes \cup {""}]
    /\ \A t \in DOMAIN Includes : t \in Includes[t]
    /\ MaxEdits \in Nat /\ MaxRuleFaults \in Nat

VARIABLES rules,      \* agent_scope_rules
          revision,   \* agent_scope_rule_revision
          form,       \* [Admin -> the row as it was when the form was opened]
          snapshot,   \* [process -> compiled rules and the revision they carry]
          load,       \* [process -> a refresh between its two reads]
          notify,     \* processes that committed an edit and have not refreshed yet
          inbox,      \* [Api process -> revisions announced to it and not handled]
          edits, ruleFaults

rulesVars == <<rules, revision, form, snapshot, load, notify, inbox, edits, ruleFaults>>

NoRow == [id |-> 0, state |-> "none", version |-> 0, fields |-> CHOOSE d \in Draft : TRUE]
NoLoad == [on |-> FALSE, revision |-> 0, publish |-> FALSE]
EmptySnapshot == [rules |-> <<>>, revision |-> -1]

-----------------------------------------------------------------------------
(* Compiling and evaluating.                                               *)

\* _rule_sort_key: priority, EXACT before PHRASE, BLOCK before ALLOW, name.
Precedes(r, s) ==
    LET Key(x) == <<-x.priority, IF x.match = "EXACT" THEN 0 ELSE 1, IF x.decision = "BLOCK" THEN 0 ELSE 1, x.name>>
        differ == {i \in 1..4 : Key(r)[i] # Key(s)[i]}
    IN  differ # {} /\ Key(r)[Min(differ)] < Key(s)[Min(differ)]

\* compile_scope_rule: a row whose pattern has no usable normal form is skipped.
Compiled(row) == [id |-> row.id] @@ [row.fields EXCEPT !.pattern = Normal[@]]

LiveRow(row) == row.state = "live" /\ row.fields.enabled /\ Normal[row.fields.pattern] # ""

Compile(rows) == SetToSortSeq({Compiled(rows[i]) : i \in {j \in RuleId : LiveRow(rows[j])}}, Precedes)

Matches(rule, text) ==
    IF rule.match = "EXACT" THEN rule.pattern = text ELSE rule.pattern \in Includes[text]

\* ScopePolicy.evaluate_normalized: the built-in baseline.
Baseline(text) ==
    CASE Includes[text] \cap (DomainTerms \cup AdviceIntents) # {} -> [decision |-> "ALLOW", source |-> "BUILTIN", rule |-> 0]
      [] Includes[text] \cap OffTopic # {} -> [decision |-> "BLOCK", source |-> "BUILTIN", rule |-> 0]
      [] OTHER -> [decision |-> "DEFER", source |-> "DEFAULT", rule |-> 0]

\* evaluate_with_snapshot: the first rule that matches wins over the baseline.
Evaluate(message, compiled) ==
    LET text == Normal[message]
        hits == {i \in DOMAIN compiled : Matches(compiled[i], text)}
    IN  CASE text = "" -> [decision |-> "BLOCK", source |-> "DEFAULT", rule |-> 0]
          [] text # "" /\ hits # {} -> [decision |-> compiled[Min(hits)].decision,
                                        source |-> "RUNTIME_RULE", rule |-> compiled[Min(hits)].id]
          [] OTHER -> Baseline(text)

\* compose_preview_snapshot
ComposePreview(compiled, candidate) ==
    SetToSortSeq({r \in ToSet(compiled) : r.id # candidate.id} \cup {candidate}, Precedes)

\* analyze_scope_rule_warnings: overlap with a term, in either direction.
Warnings(fields) ==
    LET pattern == Normal[fields.pattern]
        overlapping == {term \in DomainTerms : term \in Includes[pattern] \/ pattern \in Includes[term]}
    IN  IF fields.decision = "BLOCK" /\ pattern # "" /\ overlapping # {} THEN {"BROAD_BLOCK_RULE"} ELSE {}

-----------------------------------------------------------------------------
(* Edits: one transaction with the bump of the revision; the refresh and    *)
(* the announcement follow the commit.                                      *)

NameFree(name, id) == \A i \in RuleId \ {id} : rules[i].state = "live" => rules[i].fields.name # name

\* mutant: the transaction of an edit leaves the revision alone
Commit_Unbumped(p, id, row) ==
    /\ rules' = [rules EXCEPT ![id] = row]
    /\ revision' = revision
    /\ notify' = notify \cup {p}
    /\ edits' = edits + 1
    /\ UNCHANGED <<form, snapshot, load, inbox, ruleFaults>>

Commit(p, id, row) ==
    /\ rules' = [rules EXCEPT ![id] = row]
    /\ revision' = revision + 1
    /\ notify' = notify \cup {p}
    /\ edits' = edits + 1
    /\ UNCHANGED <<form, snapshot, load, inbox, ruleFaults>>

CreateRule(p, id, fields) ==
    /\ edits < MaxEdits /\ rules[id].state = "none" /\ \A i \in RuleId : i < id => rules[i].state # "none"
    /\ NameFree(fields.name, id)
    /\ Normal[fields.pattern] # ""
    /\ Commit(p, id, [id |-> id, state |-> "live", version |-> 1, fields |-> fields])

\* list_rules, or the answer to the last edit
OpenForm(a, id) ==
    /\ rules[id].state = "live" /\ form[a] # rules[id]
    /\ form' = [form EXCEPT ![a] = rules[id]]
    /\ UNCHANGED <<rules, revision, snapshot, load, notify, inbox, edits, ruleFaults>>

\* mutant: the last writer wins
Uncontested_Any(a, id) == form[a].id = id /\ rules[id].state = "live"

\* The row is read FOR UPDATE and must carry the version of the form.
Uncontested(a, id) ==
    form[a].id = id /\ rules[id].state = "live" /\ form[a].version = rules[id].version

UpdateRule(p, a, id, fields) ==
    /\ edits < MaxEdits /\ Uncontested(a, id)
    /\ fields.name # rules[id].fields.name => NameFree(fields.name, id)
    /\ Normal[fields.pattern] # ""
    /\ Commit(p, id, [rules[id] EXCEPT !.fields = fields, !.version = @ + 1])

RemoveRule(p, a, id) ==
    /\ edits < MaxEdits /\ Uncontested(a, id)
    /\ Commit(p, id, [rules[id] EXCEPT !.state = "deleted", !.version = @ + 1])

-----------------------------------------------------------------------------
(* The copies.                                                             *)

\* refresh, first statement; the reload lock admits one refresh per process.
ReadRevision(p, publish) ==
    /\ ~load[p].on
    /\ load' = [load EXCEPT ![p] = [on |-> TRUE, revision |-> revision, publish |-> publish]]

\* notify_changed, after the commit of an edit made in this process
NotifyChanged(p) ==
    /\ p \in notify
    /\ ReadRevision(p, TRUE)
    /\ notify' = notify \ {p}
    /\ UNCHANGED <<rules, revision, form, snapshot, inbox, edits, ruleFaults>>

\* mutant: the rows were read before the revision, by the previous edit's copy
Swap_Stale(p) == [rules |-> snapshot[p].rules, revision |-> load[p].revision]

\* What the second statement makes of the revision the first one read.
Swap(p) == [rules |-> Compile(rules), revision |-> load[p].revision]

\* refresh, second statement: swap the copy, and announce it if an edit asked for it.
ReadRules(p) ==
    /\ load[p].on
    /\ snapshot' = [snapshot EXCEPT ![p] = Swap(p)]
    /\ load' = [load EXCEPT ![p] = NoLoad]
    /\ inbox' = [q \in Api |-> IF load[p].publish THEN inbox[q] \cup {load[p].revision} ELSE inbox[q]]
    /\ UNCHANGED <<rules, revision, form, notify, edits, ruleFaults>>

\* The database cannot be read: the last copy keeps serving, nothing is announced.
RefreshFails(p) ==
    /\ load[p].on /\ ruleFaults < MaxRuleFaults
    /\ load' = [load EXCEPT ![p] = NoLoad]
    /\ ruleFaults' = ruleFaults + 1
    /\ UNCHANGED <<rules, revision, form, snapshot, notify, inbox, edits>>

\* _on_event: an event that carries the copy's own revision is ignored.
OnEvent(p) ==
    /\ \E r \in inbox[p] :
          /\ inbox' = [inbox EXCEPT ![p] = @ \ {r}]
          /\ IF r = snapshot[p].revision THEN UNCHANGED load ELSE ReadRevision(p, FALSE)
    /\ UNCHANGED <<rules, revision, form, snapshot, notify, edits, ruleFaults>>

EventLost(p) ==
    /\ ruleFaults < MaxRuleFaults /\ inbox[p] # {}
    /\ inbox' = [inbox EXCEPT ![p] = {}]
    /\ ruleFaults' = ruleFaults + 1
    /\ UNCHANGED <<rules, revision, form, snapshot, load, notify, edits>>

\* probe, from the poll loop of an API process or before a turn in a worker
Probe(p) ==
    /\ revision # snapshot[p].revision
    /\ ReadRevision(p, FALSE)
    /\ UNCHANGED <<rules, revision, form, snapshot, notify, inbox, edits, ruleFaults>>

\* The process dies; the next one starts with the baseline only.
RestartProcess(p) ==
    /\ ruleFaults < MaxRuleFaults
    /\ snapshot' = [snapshot EXCEPT ![p] = EmptySnapshot]
    /\ load' = [load EXCEPT ![p] = NoLoad]
    /\ notify' = notify \ {p}
    /\ inbox' = [q \in Api |-> IF q = p THEN {} ELSE inbox[q]]
    /\ ruleFaults' = ruleFaults + 1
    /\ UNCHANGED <<rules, revision, form, edits>>

\* test, with a saved rule as the candidate
Tested(p, id, message) == Evaluate(message, ComposePreview(snapshot[p].rules, Compiled(rules[id])))

RulesInit ==
    /\ rules = [i \in RuleId |-> NoRow] /\ revision = 0 /\ form = [a \in Admin |-> NoRow]
    /\ snapshot = [p \in RuleProcess |-> EmptySnapshot] /\ load = [p \in RuleProcess |-> NoLoad]
    /\ notify = {} /\ inbox = [p \in Api |-> {}] /\ edits = 0 /\ ruleFaults = 0

RulesNext ==
    \/ \E p \in Api, id \in RuleId, fields \in Draft : CreateRule(p, id, fields)
    \/ \E a \in Admin, id \in RuleId : OpenForm(a, id)
    \/ \E p \in Api, a \in Admin, id \in RuleId, fields \in Draft : UpdateRule(p, a, id, fields)
    \/ \E p \in Api, a \in Admin, id \in RuleId : RemoveRule(p, a, id)
    \/ \E p \in Api : NotifyChanged(p) \/ OnEvent(p) \/ EventLost(p)
    \/ \E p \in RuleProcess : ReadRules(p) \/ RefreshFails(p) \/ Probe(p) \/ RestartProcess(p)

-----------------------------------------------------------------------------
RulesTypeOK ==
    /\ \A i \in RuleId : /\ rules[i].state \in {"none", "live", "deleted"} /\ rules[i].version \in Nat
                         /\ rules[i].fields \in Draft /\ rules[i].id \in {0, i}
    /\ revision \in 0..MaxEdits /\ form \in [Admin -> {NoRow} \cup [id : RuleId, state : {"live"},
                                                                   version : Nat, fields : Draft]]
    /\ \A p \in RuleProcess : snapshot[p].revision \in -1..revision /\ load[p].revision \in 0..revision
    /\ notify \subseteq Api /\ inbox \in [Api -> SUBSET (0..revision)]
    /\ edits \in 0..MaxEdits /\ ruleFaults \in 0..MaxRuleFaults

\* A copy that carries the current revision holds the current rules: probe
\* compares nothing else, so a copy for which this fails would serve old rules
\* for good.  refresh reads the revision and the rows in two statements, and an
\* edit may commit between them (ScopeRuleStore.refresh).
FreshRulesAreCurrent ==
    \A p \in RuleProcess : snapshot[p].revision = revision => snapshot[p].rules = Compile(rules)

\* An edit lands only on the row its author saw: of two administrators with the
\* same row open, the second is refused (update and remove, the version check).
NoBlindRuleEdit ==
    [][\A i \in RuleId : rules[i].state = "live" /\ rules'[i] # rules[i] => \E a \in Admin : form[a] = rules[i]]_rulesVars

\* The preview of a saved rule decides what the process would decide once the
\* rule were enabled, whatever other rules are in force (service.test).
PreviewIsWhatEnablingDoes ==
    \A p \in Api, i \in RuleId, message \in Text :
        snapshot[p].revision = revision /\ rules[i].state = "live"
            => Tested(p, i, message)
                 = Evaluate(message, Compile([rules EXCEPT ![i].fields.enabled = TRUE]))

\* A rule that blocks a message that is nothing but a business term carries the
\* warning, enabled or not (analyze_scope_rule_warnings).
BlockedTermIsWarned ==
    \A i \in RuleId, term \in DomainTerms :
        LET rule == Compiled(rules[i]) IN
        rules[i].state = "live" /\ rule.decision = "BLOCK" /\ Matches(rule, term) => Warnings(rules[i].fields) # {}

\* Once the edits end every API process comes to hold the rules of the database,
\* whatever events were lost and wherever a process died (poll loop, TTL).
RulesReachEveryApi == \A p \in Api : <>[](snapshot[p].rules = Compile(rules))
=============================================================================
