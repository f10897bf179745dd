----------------------------- MODULE MCMailStages -----------------------------
(***************************************************************************)
(* TLC instance of Mail, of which the stages alone move: two projects, mails *)
(* that mention one, both or neither by name, and attachments at the limits. *)
(***************************************************************************)
EXTENDS Mail, TLC

MCSpec == MailInit /\ [][StagesStep]_<<vars, stagesVars>> /\ Stages!Fairness

-----------------------------------------------------------------------------
LOCAL NoZip == [comment |-> FALSE, entries |-> <<>>, required |-> "none"]
LOCAL Text(chars) == [kind |-> "text", size |-> 0, chars |-> chars]
LOCAL File(extension, size, zip, helper) ==
    [kind |-> "attachment", size |-> size, chars |-> 1, extension |-> extension,
     typeMatches |-> TRUE, zip |-> zip, helper |-> helper]
LOCAL Entry(name, size) == [name |-> name, encrypted |-> FALSE, unsafe |-> FALSE, size |-> size, packed |-> 1]
LOCAL Sheet(entries) == File(".xlsx", 2, [comment |-> FALSE, entries |-> entries, required |-> "book"], "OK")

LOCAL ToReport == [subject |-> {"weekly"}, sender |-> {}]
LOCAL Mentions(one, two) == (1 :> one) @@ (2 :> two)

MCSource == [
    named |-> [envelope |-> ToReport, mentions |-> Mentions({"nameSubject", "token"}, {"token"}),
        parts |-> <<Text(3), File(".txt", 2, NoZip, "OK"), Sheet(<<Entry("book", 2)>>),
                    File(".pdf", 1, NoZip, "PARSER_TIMEOUT")>>],
    both |-> [envelope |-> ToReport, mentions |-> Mentions({"nameBody"}, {"aliasBody"}),
        parts |-> <<File(".txt", 3, NoZip, "OK"), Sheet(<<Entry("book", 2), Entry("book", 1)>>),
                    File(".txt", 2, NoZip, "OK")>>],
    notice |-> [envelope |-> [subject |-> {}, sender |-> {}], mentions |-> Mentions({}, {}), parts |-> <<>>]]

LOCAL Risk(option) == [complete |-> TRUE, option |-> option, category |-> 1, level |-> "HIGH",
                       fields |-> TRUE, confidence |-> 90]
MCOutputs == {[json |-> TRUE, schema |-> TRUE, risks |-> <<Risk(1)>>],
              [json |-> TRUE, schema |-> TRUE, risks |-> <<Risk(2)>>]}
MCAnswers == {[decision |-> "MATCH", option |-> 1, confidence |-> 90],
              [decision |-> "MATCH", option |-> 0, confidence |-> 90],
              [decision |-> "NO_MATCH", option |-> 0, confidence |-> 10]}
MCFilter == [weeklyOnly |-> TRUE, keywords |-> {}, senders |-> {}]
MCZipLimits == [entries |-> 2, member |-> 3, total |-> 4, ratio |-> 3]
=============================================================================
