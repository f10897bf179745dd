----------------------------- MODULE Administration -----------------------------
(***************************************************************************)
(* The administration side by side: accounts and roles, AI services and      *)
(* models, scope rules, the published configuration, and the lists readers   *)
(* page through.  They share the database and no row of it, so that a        *)
(* behaviour of the whole is one of each part; "focus" names the part whose  *)
(* steps a behaviour shows.                                                  *)
(***************************************************************************)
EXTENDS Accounts, Providers, ScopeRules, ConfigRelease, Listings

VARIABLE focus

vars == <<accountsVars, providersVars, rulesVars, configVars, listingVars, focus>>

Init ==
    /\ focus \in {"accounts", "services", "models", "rules", "config", "lists"}
    /\ AccountsInit /\ ProvidersInit /\ RulesInit /\ ConfigInit
    /\ IF focus = "lists" THEN ListingsInit ELSE NoListing

Next ==
    \/ focus = "accounts" /\ AccountsNext /\ UNCHANGED <<providersVars, rulesVars, configVars, listingVars, focus>>
    \/ focus = "services" /\ ServiceNext /\ UNCHANGED <<accountsVars, rulesVars, configVars, listingVars, focus>>
    \/ focus = "models" /\ ModelNext /\ UNCHANGED <<accountsVars, rulesVars, configVars, listingVars, focus>>
    \/ focus = "rules" /\ RulesNext /\ UNCHANGED <<accountsVars, providersVars, configVars, listingVars, focus>>
    \/ focus = "config" /\ ConfigNext /\ UNCHANGED <<accountsVars, providersVars, rulesVars, listingVars, focus>>
    \/ focus = "lists" /\ ListingsNext /\ UNCHANGED <<accountsVars, providersVars, rulesVars, configVars, focus>>

\* The poll loop of an API process never ends; a refresh that began ends.
Fairness == \A p \in Api : WF_vars(focus = "rules" /\ Probe(p) /\ UNCHANGED <<accountsVars, providersVars, configVars, listingVars, focus>>)
                           /\ WF_vars(focus = "rules" /\ ReadRules(p) /\ UNCHANGED <<accountsVars, providersVars, configVars, listingVars, focus>>)

Spec == Init /\ [][Next]_vars /\ Fairness

TypeOK == AccountsTypeOK /\ ProvidersTypeOK /\ RulesTypeOK /\ ConfigTypeOK /\ ListingsTypeOK

\* What administrators have set holds together: the default services and models, the
\* candidates of a chat, the scope rules with their previews and warnings, and the
\* history of the configuration.
SettingsHold ==
    /\ ProvidersTypeOK /\ DefaultServiceIsEnabled /\ OneEnabledDefault /\ FailoverFollowsPolicy
    /\ RulesTypeOK /\ FreshRulesAreCurrent /\ PreviewIsWhatEnablingDoes /\ BlockedTermIsWarned
    /\ ConfigTypeOK /\ ReleasesChain /\ LatestIsInForce /\ CategoriesStayUsable

\* No edit passes over what its author could not see: a manager, a tested connection, the
\* candidates of a running chat, a newer version of a rule.
EditsAreSeen == NoSilentTakeover /\ ConnectionChangeUntests /\ ChatKeepsItsSnapshot /\ NoBlindRuleEdit

\* The pages a reader turns show each row that stayed, and show it once.
PagesTellTheList == ListingsTypeOK /\ MissedArePulled /\ RepeatedArePushed
=============================================================================
