------------------------------- MODULE Providers -------------------------------
(***************************************************************************)
(* The AI services of the first generation with their connection tests      *)
(* (ai_providers/service.py, client.py), and the accounts and models of the *)
(* second: administration, the candidates of a chat, its retries and its    *)
(* failover (v2_service.py, v2_adapter.py).                                  *)
(*                                                                         *)
(* A transaction that moves a default has two steps: it locks its own row   *)
(* and looks for the defaults, and later, when their rows are free, writes. *)
(***************************************************************************)
EXTENDS Integers, FiniteSets, Sequences, SequencesExt, FiniteSetsExt

CONSTANTS Service,          \* ids of ai_provider_configs
          Connection,       \* endpoint, protocol, model, timeout and retry count of a service
          Account, Model,   \* ids of accounts and models; OwnerOf[m] is the account of m
          OwnerOf,
          Editor,           \* administrators with a transaction of their own
          Reply,            \* what the transport brings back from one call
          Retries,          \* TRANSPORT_RETRY_COUNT
          MaxProviderEdits, MaxChats

ASSUME ProvidersAssumption ==
    /\ Service \subseteq Nat \ {0} /\ Model \subseteq Nat \ {0} /\ IsFiniteSet(Model)
    /\ OwnerOf \in [Model -> Account] /\ Retries \in Nat
    /\ MaxProviderEdits \in Nat /\ MaxChats \in Nat
    /\ \A c \in Connection : c.retries \in Nat

VARIABLES services,   \* ai_provider_configs
          accounts, models,
          moving,     \* [Editor -> the transaction that moves a default]
          chat,       \* the candidates of a chat, the one in turn and the calls made
          providerEdits, chats

providersVars == <<services, accounts, models, moving, chat, providerEdits, chats>>

Idle == [kind |-> "none", id |-> 0, seen |-> {}, row |-> [default |-> FALSE]]

-----------------------------------------------------------------------------
(* What a call comes to: an HTTP status, or what kept it from having one.   *)

TimedOut == -1
Unreachable == -2
KeyUnreadable == -3

\* DeepSeekOfficialAdapter._http_error and the transport's exceptions.
ErrorOf(reply) ==
    LET Class(c, retryable, failover) == [class |-> c, retryable |-> retryable, failover |-> failover] IN
    CASE reply.status = TimedOut -> Class("TIMEOUT", TRUE, TRUE)
      [] reply.status = Unreachable -> Class("NETWORK", TRUE, TRUE)
      [] reply.status = KeyUnreadable -> Class("CREDENTIAL_UNAVAILABLE", FALSE, FALSE)
      [] reply.status = 401 -> Class("AUTHENTICATION", FALSE, FALSE)
      [] reply.status = 403 -> Class("PERMISSION", FALSE, FALSE)
      [] reply.status = 404 -> Class("MODEL_NOT_FOUND", FALSE, TRUE)
      [] reply.status = 408 -> Class("TIMEOUT", TRUE, TRUE)
      [] reply.status = 429 -> Class("RATE_LIMITED", TRUE, TRUE)
      [] reply.status \in 500..599 -> Class("TRANSIENT_SERVER", TRUE, TRUE)
      [] reply.status = 200 -> Class("MALFORMED_RESPONSE", FALSE, FALSE)
      [] OTHER -> Class("INVALID_REQUEST", FALSE, FALSE)

\* DeepSeekOfficialAdapter.chat: a body that says neither text nor tool calls is malformed.
Usable(reply) ==
    /\ reply.status = 200
    /\ reply.choice /\ reply.finish /\ reply.usage >= 0
    /\ reply.content \in {"none", "text"} /\ reply.tools \in {"none", "calls"}
    /\ reply.content = "text" \/ reply.tools = "calls"

\* AiProviderClient._http_error: which errors the older client tries again.
ClientRetries(status) == status \in {TimedOut, Unreachable, 408, 429} \cup 500..599

\* AiProviderClient.test: a chat-completions service is asked once for its models.
ClientAttempts(connection) == IF connection.protocol = "CHAT" THEN 1 ELSE connection.retries + 1

\* complete and _test_completion_endpoint: the answer that ends the loop.
ClientOutcome(connection, answers) ==
    LET n == ClientAttempts(connection)
        final == {i \in 1..n : ~ClientRetries(answers[i])} \cup {n}
    IN  answers[Min(final)]

-----------------------------------------------------------------------------
(* Services of the first generation.                                       *)

Locked(kind, id) == \E e \in Editor : moving[e].kind = kind /\ moving[e].id = id

ServicesOnly == UNCHANGED <<accounts, models, chat, chats>>

EditService(id, row) ==
    /\ providerEdits < MaxProviderEdits /\ services[id].live /\ ~Locked("service", id)
    /\ services' = [services EXCEPT ![id] = row]
    /\ providerEdits' = providerEdits + 1
    /\ UNCHANGED moving /\ ServicesOnly

\* _connection_fields_changed
Untested(old, new) == old # new

MayDisable(row) == ~row.default

UpdateService(id, connection, enabled) ==
    LET row == services[id] IN
    /\ enabled \/ MayDisable(row)
    /\ EditService(id, [row EXCEPT !.connection = connection, !.enabled = enabled,
                        !.health = IF Untested(row.connection, connection) THEN "UNTESTED" ELSE @])

RotateServiceKey(id) == EditService(id, [services[id] EXCEPT !.key = @ + 1, !.health = "UNTESTED"])

SetServiceStatus(id, enabled) ==
    /\ enabled \/ MayDisable(services[id])
    /\ EditService(id, [services[id] EXCEPT !.enabled = enabled])

\* create counts the rows before it inserts; set_default locks its row first.
BeginCreateService(e, id, connection) ==
    /\ moving[e] = Idle /\ ~services[id].live /\ ~Locked("service", id) /\ providerEdits < MaxProviderEdits
    /\ moving' = [moving EXCEPT ![e] = [kind |-> "service", id |-> id, seen |-> {},
           row |-> [live |-> TRUE, connection |-> connection, key |-> 1, enabled |-> TRUE, health |-> "UNTESTED",
                    default |-> \A s \in Service : ~services[s].live]]]
    /\ providerEdits' = providerEdits + 1
    /\ UNCHANGED services /\ ServicesOnly

BeginDefaultService(e, id) ==
    /\ moving[e] = Idle /\ services[id].live /\ services[id].enabled /\ ~Locked("service", id)
    /\ providerEdits < MaxProviderEdits
    /\ moving' = [moving EXCEPT ![e] = [kind |-> "service", id |-> id,
           row |-> [services[id] EXCEPT !.default = TRUE],
           seen |-> {s \in Service : services[s].live /\ services[s].default}]]
    /\ providerEdits' = providerEdits + 1
    /\ UNCHANGED services /\ ServicesOnly

\* The defaults it saw are locked in turn, and cleared when they still are.
EndService(e) ==
    /\ moving[e].kind = "service"
    /\ \A s \in moving[e].seen \ {moving[e].id} : ~Locked("service", s)
    /\ services' = [s \in Service |->
           CASE s = moving[e].id -> moving[e].row
             [] s \in moving[e].seen \ {moving[e].id} -> [services[s] EXCEPT !.default = FALSE]
             [] OTHER -> services[s]]
    /\ moving' = [moving EXCEPT ![e] = Idle]
    /\ UNCHANGED providerEdits /\ ServicesOnly

\* test_provider: the call is made with a copy; the answer is written to the row as it is then.
TestService(id) ==
    /\ services[id].live /\ ~Locked("service", id)
    /\ \E connection \in Connection : \E answers \in [1..ClientAttempts(connection) -> {r.status : r \in Reply}] :
          services' = [services EXCEPT ![id].health =
              IF ClientOutcome(connection, answers) = 200 THEN "HEALTHY" ELSE "FAILED"]
    /\ UNCHANGED <<moving, providerEdits>> /\ ServicesOnly

-----------------------------------------------------------------------------
(* Accounts and models.                                                    *)

ModelsOnly == UNCHANGED <<services, chat, chats>>

EditAccount(a, row) ==
    /\ providerEdits < MaxProviderEdits
    /\ accounts' = [accounts EXCEPT ![a] = row]
    /\ providerEdits' = providerEdits + 1
    /\ UNCHANGED <<models, moving>> /\ ModelsOnly

CreateAccount(a) ==
    ~accounts[a].live /\ EditAccount(a, [live |-> TRUE, enabled |-> TRUE, key |-> 1, health |-> "UNTESTED"])

\* update_account and set_account_status
SetAccountStatus(a, enabled) == accounts[a].live /\ EditAccount(a, [accounts[a] EXCEPT !.enabled = enabled])

RotateAccountKey(a) ==
    accounts[a].live /\ EditAccount(a, [accounts[a] EXCEPT !.key = @ + 1, !.health = "UNTESTED"])

\* The foreign key takes the models along.
DeleteAccount(a) ==
    /\ accounts[a].live /\ providerEdits < MaxProviderEdits
    /\ \A m \in Model : OwnerOf[m] = a => ~Locked("model", m)
    /\ accounts' = [accounts EXCEPT ![a].live = FALSE]
    /\ models' = [m \in Model |-> IF OwnerOf[m] = a THEN [models[m] EXCEPT !.live = FALSE, !.default = FALSE]
                                                   ELSE models[m]]
    /\ providerEdits' = providerEdits + 1
    /\ UNCHANGED moving /\ ModelsOnly

Siblings(m) == {n \in Model \ {m} : OwnerOf[n] = OwnerOf[m] /\ models[n].live}

\* _clear_default looks for the defaults of the account, its own row excluded.
BeginModel(e, m, row) ==
    /\ moving[e] = Idle /\ accounts[OwnerOf[m]].live /\ ~Locked("model", m) /\ providerEdits < MaxProviderEdits
    /\ moving' = [moving EXCEPT ![e] = [kind |-> "model", id |-> m, row |-> row,
           seen |-> IF row.default THEN {n \in Siblings(m) : models[n].default} ELSE {}]]
    /\ providerEdits' = providerEdits + 1
    /\ UNCHANGED <<accounts, models>> /\ ModelsOnly

\* create_model and update_model: a disabled model is never the default; a change
\* of the name or the timeout (config) forgets the health.
SaveModel(e, m, config, enabled, default, priority) ==
    BeginModel(e, m, [live |-> TRUE, enabled |-> enabled, default |-> default /\ enabled, priority |-> priority,
                      config |-> config,
                      health |-> IF models[m].live /\ models[m].config = config THEN models[m].health ELSE "UNTESTED"])

SetDefaultModel(e, m) ==
    models[m].live /\ models[m].enabled /\ BeginModel(e, m, [models[m] EXCEPT !.default = TRUE])

\* ai_model_configs_one_enabled_default_per_account_key
Admitted(m, row, seen) ==
    row.default => \A n \in Siblings(m) \ seen : ~(models[n].default /\ models[n].enabled)

EndModel(e) ==
    /\ moving[e].kind = "model" /\ accounts[OwnerOf[moving[e].id]].live
    /\ \A n \in moving[e].seen : ~Locked("model", n)
    /\ Admitted(moving[e].id, moving[e].row, moving[e].seen)
    /\ models' = [n \in Model |->
           CASE n = moving[e].id -> moving[e].row
             [] n \in moving[e].seen -> [models[n] EXCEPT !.default = FALSE]
             [] OTHER -> models[n]]
    /\ moving' = [moving EXCEPT ![e] = Idle]
    /\ UNCHANGED <<accounts, providerEdits>> /\ ModelsOnly

\* The index refuses the second default, or the database breaks a deadlock.
Abort(e) ==
    /\ moving[e] # Idle
    /\ moving' = [moving EXCEPT ![e] = Idle]
    /\ UNCHANGED <<accounts, models, providerEdits>> /\ ModelsOnly

EditModel(m, row) ==
    /\ models[m].live /\ ~Locked("model", m) /\ providerEdits < MaxProviderEdits
    /\ models' = [models EXCEPT ![m] = row]
    /\ providerEdits' = providerEdits + 1
    /\ UNCHANGED <<accounts, moving>> /\ ModelsOnly

SetModelStatus(m, enabled) ==
    EditModel(m, [models[m] EXCEPT !.enabled = enabled, !.default = @ /\ enabled])

DeleteModel(m) == EditModel(m, [models[m] EXCEPT !.live = FALSE, !.default = FALSE])

AccountFault == {"AUTHENTICATION", "PERMISSION", "CREDENTIAL_UNAVAILABLE"}

\* _mark_discovered_models: the listed models are available, the others are not.
Discovered(a, found) ==
    [m \in Model |-> IF OwnerOf[m] # a \/ ~models[m].live THEN models[m]
                     ELSE [models[m] EXCEPT !.health = IF m \in found THEN "AVAILABLE" ELSE "CONFIG_ERROR"]]

\* discover_models and test_account
DiscoverModels(a, reply, found) ==
    /\ accounts[a].live /\ providerEdits < MaxProviderEdits
    /\ providerEdits' = providerEdits + 1
    /\ IF reply.status = 200
       THEN /\ accounts' = [accounts EXCEPT ![a].health = "AVAILABLE"]
            /\ models' = Discovered(a, found)
       ELSE /\ accounts' = [accounts EXCEPT ![a].health =
                   IF ErrorOf(reply).class \in AccountFault THEN "CREDENTIAL_ERROR" ELSE @]
            /\ UNCHANGED models
    /\ UNCHANGED moving /\ ModelsOnly

-----------------------------------------------------------------------------
(* A chat.                                                                 *)

NoChat == [status |-> "none", candidates |-> <<>>, at |-> 0, attempt |-> 0, calls |-> <<>>]

\* candidate_snapshot: default first, then priority, then id.
CandidateBefore(m, n) ==
    LET Key(x) == <<IF models[x].default THEN 0 ELSE 1, models[x].priority, x>>
        differ == {i \in 1..3 : Key(m)[i] # Key(n)[i]}
    IN  differ # {} /\ Key(m)[Min(differ)] < Key(n)[Min(differ)]

Available == {m \in Model : /\ models[m].live /\ models[m].enabled /\ models[m].health # "CONFIG_ERROR"
                            /\ accounts[OwnerOf[m]].live /\ accounts[OwnerOf[m]].enabled
                            /\ accounts[OwnerOf[m]].health # "CREDENTIAL_ERROR"}

CandidateSnapshot ==
    [i \in 1..Cardinality(Available) |->
        LET m == SetToSortSeq(Available, CandidateBefore)[i] IN [model |-> m, key |-> accounts[OwnerOf[m]].key]]

\* chat_snapshot; without a candidate it fails at once (CREDENTIAL_UNAVAILABLE).
StartChat ==
    /\ chat.status # "calling" /\ chats < MaxChats
    /\ chat' = IF Available = {} THEN [NoChat EXCEPT !.status = "failed"]
               ELSE [NoChat EXCEPT !.status = "calling", !.candidates = CandidateSnapshot, !.at = 1]
    /\ chats' = chats + 1
    /\ UNCHANGED <<services, accounts, models, moving, providerEdits>>

GivesUp(error) == ~error.retryable /\ ~error.failover

MayRetry(error) == error.retryable /\ chat.attempt < Retries

Current == chat.candidates

\* The answer of one call: done, once more, the next candidate, or the end.
After(reply) ==
    LET error == ErrorOf(reply)
        made == [chat EXCEPT !.candidates = Current,
                             !.calls = Append(@, [by |-> Current[Min({chat.at, Len(Current)})], reply |-> reply])]
    IN  CASE Usable(reply) -> [made EXCEPT !.status = "answered"]
          [] ~Usable(reply) /\ MayRetry(error) -> [made EXCEPT !.attempt = @ + 1]
          [] ~Usable(reply) /\ GivesUp(error) -> [made EXCEPT !.status = "failed"]
          [] OTHER -> IF chat.at = Len(chat.candidates) THEN [made EXCEPT !.status = "exhausted"]
                      ELSE [made EXCEPT !.at = @ + 1, !.attempt = 0]

\* _record_success and _record_health_error, by id, whatever was edited since.
Marked(m, reply) ==
    LET class == ErrorOf(reply).class IN
    /\ accounts' = [accounts EXCEPT ![OwnerOf[m]].health =
           CASE Usable(reply) -> "AVAILABLE"
             [] ~Usable(reply) /\ class \in AccountFault -> "CREDENTIAL_ERROR"
             [] OTHER -> @]
    /\ models' = [models EXCEPT ![m].health =
           CASE Usable(reply) -> "AVAILABLE"
             [] ~Usable(reply) /\ class = "MODEL_NOT_FOUND" -> "CONFIG_ERROR"
             [] OTHER -> @]

CallProvider(reply) ==
    /\ chat.status = "calling"
    /\ chat' = After(reply)
    /\ Marked(chat.candidates[chat.at].model, reply)
    /\ UNCHANGED <<services, moving, providerEdits, chats>>

\* test_model: one call, no retry, the same marks.
TestModel(m, reply) ==
    /\ models[m].live /\ accounts[OwnerOf[m]].live /\ providerEdits < MaxProviderEdits
    /\ Marked(m, reply)
    /\ providerEdits' = providerEdits + 1
    /\ UNCHANGED <<services, moving, chat, chats>>

-----------------------------------------------------------------------------
ProvidersInit ==
    /\ services = [s \in Service |-> [live |-> FALSE, connection |-> CHOOSE c \in Connection : TRUE, key |-> 0,
                                      enabled |-> FALSE, health |-> "UNTESTED", default |-> FALSE]]
    /\ accounts = [a \in Account |-> [live |-> FALSE, enabled |-> FALSE, key |-> 0, health |-> "UNTESTED"]]
    /\ models = [m \in Model |-> [live |-> FALSE, enabled |-> FALSE, default |-> FALSE, priority |-> 0,
                                  config |-> 0, health |-> "UNTESTED"]]
    /\ moving = [e \in Editor |-> Idle] /\ chat = NoChat /\ providerEdits = 0 /\ chats = 0

ServiceNext ==
    \/ \E s \in Service, c \in Connection, enabled \in BOOLEAN : UpdateService(s, c, enabled)
    \/ \E s \in Service : RotateServiceKey(s) \/ TestService(s) \/ \E enabled \in BOOLEAN : SetServiceStatus(s, enabled)
    \/ \E e \in Editor, s \in Service : BeginDefaultService(e, s) \/ \E c \in Connection : BeginCreateService(e, s, c)
    \/ \E e \in Editor : EndService(e)

ModelNext ==
    \/ \E a \in Account : CreateAccount(a) \/ RotateAccountKey(a) \/ DeleteAccount(a)
    \/ \E a \in Account, enabled \in BOOLEAN : SetAccountStatus(a, enabled)
    \/ \E e \in Editor, m \in Model, config \in {1, 2}, enabled, default \in BOOLEAN :
          SaveModel(e, m, config, enabled, default, 100)
    \/ \E e \in Editor, m \in Model : SetDefaultModel(e, m)
    \/ \E e \in Editor : EndModel(e) \/ Abort(e)
    \/ \E m \in Model : DeleteModel(m) \/ \E enabled \in BOOLEAN : SetModelStatus(m, enabled)
    \/ \E a \in Account, reply \in Reply, found \in SUBSET Model : DiscoverModels(a, reply, found)
    \/ StartChat
    \/ \E reply \in Reply : CallProvider(reply) \/ \E m \in Model : TestModel(m, reply)

-----------------------------------------------------------------------------
Health == {"UNTESTED", "HEALTHY", "FAILED", "AVAILABLE", "CREDENTIAL_ERROR", "CONFIG_ERROR"}

ProvidersTypeOK ==
    /\ \A s \in Service : services[s].connection \in Connection /\ services[s].health \in Health /\ services[s].key \in Nat
    /\ \A a \in Account : accounts[a].health \in Health /\ accounts[a].key \in Nat
    /\ \A m \in Model : models[m].health \in Health /\ models[m].priority \in Nat
    /\ \A e \in Editor : moving[e].kind \in {"none", "service", "model"}
    /\ chat.status \in {"none", "calling", "answered", "failed", "exhausted"} /\ chat.attempt \in 0..Retries
    /\ chat.at \in 0..Len(chat.candidates) /\ providerEdits \in 0..MaxProviderEdits /\ chats \in 0..MaxChats

\* The default service is never a disabled one, also while another administrator
\* moves the default (set_default, update and set_status lock the row they change).
DefaultServiceIsEnabled == \A s \in Service : services[s].default => services[s].live /\ services[s].enabled

\* A change of the connection or of the key forgets the result of the last test,
\* so that a service tested before is not shown healthy untested (update, rotate_key).
ConnectionChangeUntests ==
    [][\A s \in Service :
          services[s].live /\ <<services'[s].connection, services'[s].key>> # <<services[s].connection, services[s].key>>
              => services'[s].health = "UNTESTED"]_services

\* An account has at most one enabled default model, whichever administrators
\* move the default at once, and a default is an enabled model of a live account
\* (_clear_default, set_model_status and the partial unique index).
OneEnabledDefault ==
    /\ \A m, n \in Model : models[m].default /\ models[n].default /\ OwnerOf[m] = OwnerOf[n] => m = n
    /\ \A m \in Model : models[m].default => models[m].enabled /\ accounts[OwnerOf[m]].live

CallsOf(c) == SelectSeq(chat.calls, LAMBDA call : call.by = c)

Spent(c) ==
    LET calls == CallsOf(c) IN
    /\ calls # <<>> /\ \A i \in DOMAIN calls : ~Usable(calls[i].reply) /\ ErrorOf(calls[i].reply).failover
    /\ ErrorOf(Last(calls).reply).retryable => Len(calls) = Retries + 1

\* A candidate is left only when its retries are used up or its model does not
\* exist, and a refusal that another model cannot cure ends the chat: every
\* candidate before the one in turn is spent, all of them when the chat is
\* exhausted, and no call follows an answer or a refusal (chat_snapshot).
FailoverFollowsPolicy ==
    /\ \A i \in DOMAIN chat.candidates : i < chat.at \/ chat.status = "exhausted" => Spent(chat.candidates[i])
    /\ \A i \in 1..Len(chat.calls) - 1 :
          ~Usable(chat.calls[i].reply) /\ ErrorOf(chat.calls[i].reply).failover

\* A chat calls the candidates it started with, with the keys and in the order of
\* its start, whatever an administrator changes meanwhile (candidate_snapshot).
ChatKeepsItsSnapshot ==
    [][chat.status = "calling" => /\ chat'.candidates = chat.candidates
                                  /\ \A i \in DOMAIN chat'.calls : chat'.calls[i].by \in ToSet(chat.candidates)]_chat
=============================================================================
