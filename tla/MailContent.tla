----------------------------- MODULE MailContent -----------------------------
(***************************************************************************)
(* What the mail workers compute from a fetched mail: the envelope filter,  *)
(* the bounded parse of its parts, the project it is about and the checked  *)
(* output of the providers.  A mail is abstracted to its parts (kind, size, *)
(* characters, what the helper process makes of it) and to where it         *)
(* mentions each project.                                                   *)
(***************************************************************************)
EXTENDS Integers, FiniteSets, Sequences, SequencesExt, FiniteSetsExt

CONSTANTS Project,           \* projects, in the order of their ids
          Visible,           \* projects in the mailbox owner's scope, not archived
          MaxCandidates,     \* MAX_PROJECT_RESOLUTION_CANDIDATES
          MaxAttachments,    \* MAX_ATTACHMENTS
          MaxAttachmentSize, \* MAX_ATTACHMENT_BYTES
          MaxTotalSize,      \* MAX_ATTACHMENT_TOTAL_BYTES
          MaxAttachmentChars,\* MAX_ATTACHMENT_CHARS
          MaxDelivered,      \* MAX_DELIVERED_CHARS
          ZipLimits          \* MAX_ZIP_*: entries, member, total, ratio

-----------------------------------------------------------------------------
(* Candidate filter: an envelope says which keywords its subject holds and  *)
(* which allowed senders its sender holds.                                  *)

EffectiveKeywords(filter, defaults) == IF filter.keywords = {} THEN defaults ELSE filter.keywords

IsCandidate(filter, defaults, envelope) ==
    \/ ~filter.weeklyOnly
    \/ /\ envelope.subject \cap EffectiveKeywords(filter, defaults) # {}
       /\ filter.senders # {} => envelope.sender \cap filter.senders # {}

-----------------------------------------------------------------------------
(* The parse.                                                              *)

Approved == {".txt", ".pdf", ".docx", ".xlsx"}

Total(entries, i) == FoldSet(LAMBDA j, sum : sum + entries[j].size, 0, 1..i)

\* _zip_preflight: the first entry that breaks a limit gives the code.
ZipPreflight(zip) ==
    LET Code(i) == CASE zip.entries[i].encrypted -> "ENCRYPTED"
                     [] \/ zip.entries[i].unsafe
                        \/ zip.entries[i].size > ZipLimits.member
                        \/ Total(zip.entries, i) > ZipLimits.total
                        \/ /\ zip.entries[i].packed > 0
                           /\ zip.entries[i].size > ZipLimits.ratio * zip.entries[i].packed
                             -> "ZIP_LIMIT_EXCEEDED"
                     [] OTHER -> "OK"
        bad == {i \in DOMAIN zip.entries : Code(i) # "OK"}
        names == {zip.entries[i].name : i \in DOMAIN zip.entries}
    IN  CASE zip.comment \/ Len(zip.entries) > ZipLimits.entries \/ Cardinality(names) < Len(zip.entries)
               -> "ZIP_LIMIT_EXCEEDED"
          [] bad # {} -> Code(Min(bad))
          [] zip.required \notin names -> "MALFORMED"
          [] OTHER -> "OK"

\* _helper, in its own process: what it sends, or that it was stopped (part.helper).
Helper(part) ==
    CASE part.extension \in {".docx", ".xlsx"} /\ ZipPreflight(part.zip) # "OK" -> ZipPreflight(part.zip)
      [] part.helper = "OK" /\ part.chars >= MaxAttachmentChars -> "OUTPUT_TRUNCATED"
      [] OTHER -> part.helper

\* parse_attachment: size, format, declared type and content come before the helper.
ParseAttachment(part) ==
    CASE part.size > MaxAttachmentSize -> "TOO_LARGE"
      [] part.extension \notin Approved -> "UNSUPPORTED"
      [] ~part.typeMatches -> "TYPE_MISMATCH"
      [] OTHER -> Helper(part)

\* The total counts every attachment read so far, the refused ones too.
Oversized(part, total) == part.size > MaxAttachmentSize \/ total > MaxTotalSize

NothingWalked == [body |-> 0, html |-> 0, rows |-> <<>>, total |-> 0]

\* One part of root.walk().
WalkPart(acc, part) ==
    LET total == acc.total + part.size
        Row(code, read) == [part |-> part, code |-> code, read |-> read]
    IN  CASE part.kind = "text" -> [acc EXCEPT !.body = part.chars]
          [] part.kind = "html" -> [acc EXCEPT !.html = part.chars]
          [] Len(acc.rows) >= MaxAttachments
               -> [acc EXCEPT !.rows = Append(@, Row("TOO_LARGE", FALSE))]
          [] Oversized(part, total)
               -> [acc EXCEPT !.rows = Append(@, Row("TOO_LARGE", FALSE)), !.total = total]
          [] OTHER
               -> [acc EXCEPT !.rows = Append(@, Row(ParseAttachment(part), TRUE)), !.total = total]

\* parse_mail: the rows of the attachments, and the delivered text cut at its limit.
ParseMail(parts) ==
    LET walked == FoldLeft(WalkPart, NothingWalked, parts)
        body == IF walked.body > 0 THEN walked.body ELSE walked.html
        texts == FoldLeft(LAMBDA sum, row : sum + IF row.code = "OK" THEN row.part.chars ELSE 0,
                          0, walked.rows)
    IN  [rows |-> walked.rows, body |-> body, truncated |-> body + texts > MaxDelivered,
         chars |-> Min({body + texts, MaxDelivered})]

-----------------------------------------------------------------------------
(* Project resolution: mentions[p] says where the mail holds p's external   *)
(* code, name and alias; "token" is any search hit.                         *)

Points(found) ==
    LET Worth(place, points) == IF place \in found THEN points ELSE 0
    IN  Worth("codeSubject", 1000) + Worth("token", 10)
        + (IF "nameSubject" \in found THEN 800 ELSE Worth("nameBody", 600))
        + (IF "aliasSubject" \in found THEN 500 ELSE Worth("aliasBody", 350))

\* retrieve_candidates: a window of hits by id, ranked by points and id downwards.
Candidates(mentions) ==
    LET hits == {p \in Visible : mentions[p] # {}}
        window == {p \in hits : Cardinality({q \in hits : q < p}) < 10 * MaxCandidates}
        Before(p, q) == \/ Points(mentions[p]) > Points(mentions[q])
                        \/ Points(mentions[p]) = Points(mentions[q]) /\ p > q
        ranked == SetToSortSeq(window, Before)
    IN  SubSeq(ranked, 1, Min({Len(ranked), MaxCandidates}))

Unresolved == [project |-> 0, source |-> "NONE"]

\* Candidates whose code, name or alias the mail holds.
Deterministic(mentions) == {p \in ToSet(Candidates(mentions)) : mentions[p] \ {"token"} # {}}

\* A match without the provider needs exactly one.
IsMatch(certain) == Cardinality(certain) = 1

\* parse_provider_output: an option is named exactly when there is a match.
ValidAnswer(answer) ==
    /\ answer.decision \in {"MATCH", "AMBIGUOUS", "NO_MATCH"}
    /\ answer.confidence \in 0..100
    /\ (answer.decision = "MATCH") <=> (answer.option # 0)

\* resolve, with the provider's answer to fall back on.
Resolve(mentions, answer) ==
    LET candidates == Candidates(mentions)
        certain == Deterministic(mentions)
    IN  CASE IsMatch(certain) -> [project |-> Min(certain), source |-> "DETERMINISTIC"]
          [] candidates = <<>> -> Unresolved
          [] OTHER -> IF /\ answer.decision = "MATCH" /\ answer.confidence >= 85
                         /\ answer.option \in DOMAIN candidates
                      THEN [project |-> candidates[answer.option], source |-> "AI"]
                      ELSE Unresolved

\* The provider is asked, and its answer must be valid, only when there is a choice.
NeedsProvider(mentions) == ~IsMatch(Deterministic(mentions)) /\ Candidates(mentions) # <<>>

-----------------------------------------------------------------------------
(* The review.                                                             *)

\* _provider_payload: the body and the first three parsed attachments, each cut.
PayloadChars(parsed) ==
    LET Parsed(row) == row.code = "OK"
        given == SelectSeq(parsed.rows, Parsed)
        first == SubSeq(given, 1, Min({3, Len(given)}))
    IN  Min({Min({parsed.body, 6000})
             + FoldLeft(LAMBDA sum, row : sum + Min({row.part.chars, 2000}), 0, first), 12000})

\* _parse_output: the stage at which an item, or the whole output, is refused.
ItemStage(item, options, categories) ==
    CASE ~item.complete -> "ITEM_SCHEMA_INVALID"
      [] item.option \notin options -> "PROJECT_OPTION_INVALID"
      [] item.category \notin categories -> "CATEGORY_OPTION_INVALID"
      [] item.level \notin {"HIGH", "MEDIUM", "LOW"} -> "LEVEL_INVALID"
      [] ~item.fields \/ item.confidence \notin 0..100 -> "FIELD_VALUE_INVALID"
      [] OTHER -> "OK"

OutputStage(raw, options, categories) ==
    LET refused == {i \in DOMAIN raw.risks : ItemStage(raw.risks[i], options, categories) # "OK"}
    IN  CASE ~raw.json -> "JSON_DECODE_FAILED"
          [] ~raw.schema -> "TOP_LEVEL_SCHEMA_INVALID"
          [] refused # {} -> ItemStage(raw.risks[Min(refused)], options, categories)
          [] OTHER -> "OK"
=============================================================================
