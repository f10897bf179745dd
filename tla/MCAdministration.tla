---------------------------- MODULE MCAdministration ----------------------------
EXTENDS Administration

\* What the form of a user is submitted with.
LOCAL Submitted(role, scope, projects, owned, enabled) ==
    [role |-> role, scope |-> scope, projects |-> projects, owned |-> owned, enabled |-> enabled]
MCForm == {Submitted("PROJECT_MANAGER", "OWNED", {}, {"p"}, TRUE),
           Submitted("PROJECT_MANAGER", "OWNED_OR_ASSIGNED", {"old"}, {"p"}, FALSE),
           Submitted("PROJECT_MANAGER", "NONE", {}, {"old"}, TRUE), Submitted("VIEWER_AUDITOR", "ASSIGNED", {"p"}, {}, TRUE),
           Submitted("CUSTOM", "ALL", {}, {}, TRUE), Submitted("SYSTEM_ADMIN", "ALL", {}, {}, TRUE)}
MCGrant == {{"view"}, {"view", "manage"}}

\* Replies of a provider and connections of a service.
LOCAL Fail(status) ==
    [status |-> status, choice |-> FALSE, finish |-> FALSE, usage |-> 0, content |-> "none", tools |-> "none"]
MCReply == {Fail(401), Fail(404), Fail(503), [Fail(200) EXCEPT !.choice = TRUE, !.finish = TRUE, !.content = "text"],
            [Fail(200) EXCEPT !.choice = TRUE, !.finish = TRUE]}
MCConnection == {[endpoint |-> 1, protocol |-> "CHAT", retries |-> 1], [endpoint |-> 1, protocol |-> "RESPONSES", retries |-> 0]}
MCOwnerOf == (1 :> "acme") @@ (2 :> "acme") @@ (3 :> "spare")

\* Scope rules: texts with their normal forms, and the contents of a form.
LOCAL Fields(name, decision, match, pattern, priority, enabled) ==
    [name |-> name, decision |-> decision, match |-> match, pattern |-> pattern, priority |-> priority, enabled |-> enabled]
MCNormal == [risk |-> "risk", wide |-> "risk", ri |-> "ri", joke |-> "joke", blank |-> "", hello |-> "hello", advice |-> "advice"]
MCIncludes == [risk |-> {"risk", "ri"}, ri |-> {"ri"}, joke |-> {"joke"}, hello |-> {"hello"}, advice |-> {"advice"}]
MCDraft == {Fields(1, "BLOCK", "PHRASE", "ri", 0, TRUE), Fields(2, "ALLOW", "EXACT", "wide", 0, FALSE),
            Fields(1, "ALLOW", "PHRASE", "blank", 0, TRUE)}

\* Publications: a new code, a switch-off, two codes changed at once, and one refused.
LOCAL Item(id, code, active) == [id |-> id, code |-> code, active |-> active]
LOCAL Published(c, a, settings) == [categories |-> c, aliases |-> a, settings |-> settings]
MCPayload == {Published(<<Item(1, "x", TRUE)>>, <<Item(0, "y", TRUE)>>, "strict"), Published(<<Item(0, "y", TRUE)>>, <<>>, "default"),
              Published(<<Item(1, "y", TRUE), Item(2, "x", TRUE)>>, <<Item(0, "x", TRUE), Item(0, "y", FALSE)>>, "strict"),
              Published(<<Item(1, "x", FALSE)>>, <<>>, "strict"),
              Published(<<Item(0, "x", FALSE), Item(0, "y", TRUE)>>, <<Item(0, "x", TRUE), Item(1, "y", TRUE)>>, "default")}
=============================================================================
