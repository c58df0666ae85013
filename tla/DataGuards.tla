----------------------------- MODULE DataGuards -----------------------------
(***************************************************************************)
(* What keeps personal data and secrets from leaving: the secrets scanner   *)
(* (secrets.py), the scans and redactions of text and payloads (redact.py,  *)
(* sdk/pii.py, presidio_backend.py), the erasure of a subject, and the      *)
(* article 10 scan of a dataset (sdk/dataset_scanner.py).                   *)
(* A text is the positions 1..DgLength; a pattern's match is the half-open  *)
(* interval of its offsets; a redacted text is the sequence of positions    *)
(* that are left, with 0 for each character of a marker.                    *)
(***************************************************************************)
EXTENDS Naturals, Sequences, SequencesExt, FiniteSets

CONSTANTS DgLength,   \* bound: characters of a text
          DgSubjects,
          DgLeaves    \* bound: values in a payload

VARIABLES dgScan,     \* the last scan: its matches and what came of them
          dgEvent,    \* an event: its payload, and the payload it was signed with
          dgFloor,    \* history: the lowest sensitivity redacted so far, 5 for none
          dgSteps,    \* bound: calls on the event
          dgStore,    \* the subjects of the events in the trace store
          dgReceipts  \* erasure receipts: <<subject, records erased, whether it was stored>>

dgVars == <<dgScan, dgEvent, dgFloor, dgSteps, dgStore, dgReceipts>>
eventVars == <<dgEvent, dgFloor, dgSteps>>
subjectVars == <<dgStore, dgReceipts>>

----------------------------------------------------------------------------
(* secrets.py.  The kinds of patterns are zero tolerance, gated by their     *)
(* confidence, and the rest; the confidence is 75, 90 with high entropy, 97  *)
(* with a keyword nearby, whatever the entropy.                              *)
Spans == {s \in (0..DgLength) \X (0..DgLength) : s[1] + 1 < s[2]}
Chars(m) == (m.start + 1)..m.end
Overlap(m, n) == Chars(m) \cap Chars(n) # {}
Match(span) == [start |-> span[1], end |-> span[2]]

_PATTERN_REGISTRY == {"zero", "gated", "plain"}
_score_hit == {75, 90, 97}
Hits == {[start |-> s[1], end |-> s[2], type |-> k, conf |-> c] : s \in Spans, k \in _PATTERN_REGISTRY, c \in _score_hit}

_compute_auto_block(h) == h.type = "zero" \/ (h.type = "gated" /\ h.conf >= 90)

(* Only what is listed is passed over, and what is not sure enough, unless   *)
(* it is of zero tolerance.                                                  *)
Qualified(found, allowed, threshold) ==
    SelectSeq(found, LAMBDA h : h \notin allowed /\ (h.type = "zero" \/ h.conf >= threshold))

(* The matches by rising rank, those of one rank as they were found.         *)
InOrder(found, rank) ==
    LET order == SetToSortSeq(DOMAIN found, LAMBDA i, j : rank[found[i]] < rank[found[j]]
                                                 \/ (rank[found[i]] = rank[found[j]] /\ i < j)) IN
    [i \in DOMAIN order |-> found[order[i]]]

ByStart == [h \in Hits |-> h.start * 100 + 100 - h.conf]

(* Of two matches that overlap the surer one stays, else the earlier one.    *)
(* A mutant: where the last match ended is not remembered when it is replaced. *)
DedupForgetsTheEnd(found) ==
    LET keep(acc, h) ==
          IF h.start >= acc.last THEN [out |-> Append(acc.out, h), last |-> h.end]
          ELSE IF h.conf > Last(acc.out).conf THEN [acc EXCEPT !.out = Append(Front(@), h)] ELSE acc IN
    FoldLeft(keep, [out |-> <<>>, last |-> 0], InOrder(found, ByStart)).out

_dedup_hits(found) ==
    LET keep(acc, h) ==
          IF h.start >= acc.last THEN [out |-> Append(acc.out, h), last |-> h.end]
          ELSE IF h.conf > Last(acc.out).conf THEN [out |-> Append(Front(acc.out), h), last |-> h.end] ELSE acc IN
    FoldLeft(keep, [out |-> <<>>, last |-> 0], InOrder(found, ByStart)).out

Text == [i \in 1..DgLength |-> i]
_build_redacted_text(hits) ==
    LET put(acc, h) == [text |-> acc.text \o SubSeq(Text, acc.cursor + 1, h.start) \o <<0>>, cursor |-> h.end]
        done == FoldLeft(put, [text |-> <<>>, cursor |-> 0], hits) IN
    done.text \o SubSeq(Text, done.cursor + 1, DgLength)

scan_secrets(found, allowed, threshold) ==
    LET qualified == Qualified(found, allowed, threshold)
        hits == _dedup_hits(qualified) IN
    [of |-> "secrets", found |-> qualified, hits |-> hits, text |-> _build_redacted_text(hits),
     blocked |-> \E i \in DOMAIN hits : _compute_auto_block(hits[i])]

(* Bound: three matches, and no two differ when something else is tried too; *)
(* all kinds meet in the first two.                                          *)
secrets_scan ==
    \E a, b, c \in Hits : \E allowed \in {{}, {a}}, threshold \in {75, 95} :
        /\ IF allowed # {} \/ threshold = 95 THEN b = c ELSE c.type = "plain"
        /\ dgScan' = scan_secrets(<<a, b, c>>, allowed, threshold)
        /\ UNCHANGED <<eventVars, subjectVars>>

----------------------------------------------------------------------------
(* sdk/pii.py.  The matches of a text are replaced from the last start to    *)
(* the first by markers of their own length, at the offsets they had in the  *)
(* text as it was: text[:start] + marker + text[end:].                       *)
Entities == {[start |-> s[1], end |-> s[2], marker |-> n, score |-> c] : s \in Spans, n \in {1, 4}, c \in {40, 100}}

Splice(text, e) ==
    SubSeq(text, 1, IF e.start < Len(text) THEN e.start ELSE Len(text)) \o [i \in 1..e.marker |-> 0]
      \o SubSeq(text, e.end + 1, Len(text))

(* A mutant: the matches are replaced from the first to the last.            *)
ReplaceForwards(entities) == FoldLeft(Splice, Text, InOrder(entities, [e \in Entities |-> e.start]))

Replace(entities) == FoldLeft(Splice, Text, InOrder(entities, [e \in Entities |-> DgLength - e.start]))

apply_pipeline_action(entities, action, threshold) ==
    LET above == SelectSeq(entities, LAMBDA e : e.score >= threshold) IN
    [of |-> "text", found |-> above, text |-> Replace(above), below |-> Len(entities) - Len(above),
     answer |-> IF action = "block" /\ above # <<>> THEN "raises"
                ELSE IF action = "redact" /\ above # <<>> THEN "redacted" ELSE "text"]

scan_text ==
    \E a, b \in Entities, action \in {"flag", "redact", "block"}, threshold \in {0, 85} :
        /\ dgScan' = apply_pipeline_action(<<a, b>>, action, threshold)
        /\ UNCHANGED <<eventVars, subjectVars>>

(* anonymize(): one pattern after the other, each over what the one before   *)
(* left: a match that lost a character is none.                              *)
Pass(text, e, marker) ==
    LET size == e.end - e.start
        at == {i \in 0..(Len(text) - size) : SubSeq(text, i + 1, i + size) = SubSeq(Text, e.start + 1, e.end)} IN
    IF at = {} THEN text
    ELSE LET i == CHOOSE i \in at : TRUE IN SubSeq(text, 1, i) \o marker \o SubSeq(text, i + size + 1, Len(text))
anonymize(entities) == FoldLeft(LAMBDA text, e : Pass(text, e, <<0>>), Text, entities)
anonymize_text ==
    \E a, b \in Entities :
        /\ a.score = 100 /\ b.score = 100 /\ a.marker = 1 /\ b.marker = 1
        /\ dgScan' = [of |-> "anonymize", found |-> <<a, b>>, text |-> anonymize(<<a, b>>)]
        /\ UNCHANGED <<eventVars, subjectVars>>

(* safe_harbor_deidentify(): first the ages, then the ZIP codes, of which    *)
(* the first digits stay, then the dates, of which the year stays, then the  *)
(* others; again each pass over what the one before left.                    *)
_SAFE_HARBOR_PATTERNS == <<"age_over_89", "zip", "date", "other">>
Phi == {[start |-> s[1], end |-> s[2], label |-> n] : s \in Spans, n \in ToSet(_SAFE_HARBOR_PATTERNS)}
Generalised(e) == CASE e.label = "zip" -> <<e.start + 1, 0>> [] e.label = "date" -> <<e.end>> [] OTHER -> <<0>>

safe_harbor_deidentify(found) ==
    FoldLeft(LAMBDA text, e : Pass(text, e, Generalised(e)), Text,
             InOrder(found, [e \in Phi |-> CHOOSE n \in 1..4 : _SAFE_HARBOR_PATTERNS[n] = e.label]))
safe_harbor_text ==
    \E a, b \in Phi :
        /\ dgScan' = [of |-> "safe_harbor", found |-> <<a, b>>, text |-> safe_harbor_deidentify(<<a, b>>)]
        /\ UNCHANGED <<eventVars, subjectVars>>

----------------------------------------------------------------------------
(* redact.py.  A value of a payload is marked with a sensitivity 0..4, holds *)
(* personal data in plain text, or is clean; it lies within the ten levels   *)
(* that are scanned, in a tuple there, deeper, or beyond the hundredth.      *)
Sensitivity == 0..4
Values == [kind : {"redactable"}, level : {0, 3, 4}, at : {"near", "deep", "abyss"}]
          \cup [kind : {"plain"}, level : {0}, at : {"near", "tuple", "deep"}] \cup [kind : {"clean"}, level : {0}, at : {"near"}]
_PII_PATTERNS(v) == v.kind = "plain"   \* a pattern matches, and its check digits are right
Cleaned(v) == [v EXCEPT !.kind = "clean"]

(* A mutant: a value of just the least sensitivity is kept.                  *)
OnlyAbove(v, min) == v.kind = "redactable" /\ v.level > min

_should_redact(v, min) == v.kind = "redactable" /\ v.level >= min

(* RedactionPolicy.apply(): the new event keeps the signature of the old.    *)
redact(min) ==
    LET p == dgEvent.payload IN
    /\ \A i \in DOMAIN p : p[i].at # "abyss"   \* else RecursionError, and nothing changes
    /\ dgEvent' = [dgEvent EXCEPT !.payload = [i \in DOMAIN p |-> IF _should_redact(p[i], min) THEN Cleaned(p[i]) ELSE p[i]]]
    /\ dgFloor' = IF min < dgFloor THEN min ELSE dgFloor
    /\ dgSteps' = dgSteps + 1
    /\ UNCHANGED <<dgScan, subjectVars>>

(* anonymise() walks dicts and lists, no tuples, ten levels deep.            *)
anonymise ==
    LET p == dgEvent.payload IN
    /\ dgEvent' = [dgEvent EXCEPT !.payload = [i \in DOMAIN p |-> IF _PII_PATTERNS(p[i]) /\ p[i].at = "near"
                                                                    THEN Cleaned(p[i]) ELSE p[i]]]
    /\ dgSteps' = dgSteps + 1
    /\ UNCHANGED <<dgScan, dgFloor, subjectVars>>

sign ==
    /\ dgEvent' = [dgEvent EXCEPT !.signed = <<dgEvent.payload>>]
    /\ dgSteps' = dgSteps + 1
    /\ UNCHANGED <<dgScan, dgFloor, subjectVars>>

(* A mutant: the scan passes over tuples too.                                *)
ScanWithoutTuples(p) == \E i \in DOMAIN p : _PII_PATTERNS(p[i]) /\ p[i].at = "near"

scan_payload(p) == \E i \in DOMAIN p : _PII_PATTERNS(p[i]) /\ p[i].at \in {"near", "tuple"}

contains_pii(p, scan_raw) == (\E i \in DOMAIN p : p[i].kind = "redactable") \/ (scan_raw /\ scan_payload(p))
assert_redacted(p) == IF contains_pii(p, TRUE) THEN "raises" ELSE "passes"

----------------------------------------------------------------------------
(* erase_subject() asks the class of the store for get_default(), which it   *)
(* has not; the exception is caught, and the receipt says 0.                 *)
record(s) ==
    /\ dgStore' = dgStore \cup {s} /\ s \notin dgStore
    /\ UNCHANGED <<dgScan, eventVars, dgReceipts>>
erase_subject(s) ==
    /\ Len(dgReceipts) < 2
    /\ dgReceipts' = Append(dgReceipts, <<s, 0, s \in dgStore>>)
    /\ UNCHANGED <<dgScan, eventVars, dgStore>>

----------------------------------------------------------------------------
(* The dataset scan: files that cannot be read, or of another kind, have no  *)
(* rows; a row tells consent and source or not, and has personal data or     *)
(* not; the density is per thousand tokens, four characters to a token.      *)
Files == [readable : BOOLEAN, rows : 0..2, consent : BOOLEAN, pii : BOOLEAN, long : BOOLEAN]
_load_file(f) == IF f.readable THEN f.rows ELSE 0
Count(files, of) == FoldLeft(LAMBDA n, f : IF f \in of THEN n + _load_file(f) ELSE n, 0, files)
Long == {f \in Files : f.long}
_estimate_tokens(files) == LET n == Count(files, Long) * 4000 + Count(files, Files \ Long) * 5
                           IN IF n = 0 THEN 1 ELSE n
_build_clauses(files) ==
    LET rows == Count(files, Files) IN
    [density |-> rows = 0 \/ Count(files, {f \in Files : f.pii}) * 1000 < _estimate_tokens(files),
     consent |-> rows = 0 \/ Count(files, {f \in Files : f.consent}) * 100 >= 80 * rows]
scan_dataset ==
    \E a, b \in Files :
        /\ dgScan' = [of |-> "dataset", files |-> <<a, b>>, clauses |-> _build_clauses(<<a, b>>)]
        /\ UNCHANGED <<eventVars, subjectVars>>

(* audit_training_data(): the lines that are not blank, as many as were asked *)
(* for; of a JSON object only the strings at its top are scanned.            *)
Lines == {"blank", "clean", "plain", "nested"}
audit_training_data(lines, max_records) ==
    LET records == SelectSeq(lines, LAMBDA l : l # "blank")
        read == SubSeq(records, 1, IF max_records < Len(records) THEN max_records ELSE Len(records)) IN
    [total |-> Len(read), pii |-> Len(SelectSeq(read, LAMBDA l : l = "plain"))]
audit_dataset ==
    \E lines \in [1..4 -> Lines], max_records \in {2, 4} :
        /\ dgScan' = [of |-> "training", lines |-> lines, max |-> max_records, report |-> audit_training_data(lines, max_records)]
        /\ UNCHANGED <<eventVars, subjectVars>>

----------------------------------------------------------------------------
NoScan == [of |-> "none"]
Init ==
    /\ dgScan = NoScan
    /\ dgEvent = [payload |-> <<>>, signed |-> <<>>] /\ dgFloor = 5 /\ dgSteps = 0
    /\ dgStore = {} /\ dgReceipts = <<>>

new_event ==
    \E p \in [1..DgLeaves -> Values] :
        /\ dgEvent' = [payload |-> p, signed |-> <<>>]
        /\ dgSteps' = 1
        /\ UNCHANGED <<dgScan, dgFloor, subjectVars>>
ScanStep == dgSteps = 0 /\ dgStore = {} /\ dgReceipts = <<>> /\ dgScan = NoScan
            /\ (secrets_scan \/ scan_text \/ anonymize_text \/ safe_harbor_text \/ scan_dataset \/ audit_dataset)
EventStep == /\ dgScan = NoScan /\ dgStore = {} /\ dgReceipts = <<>>
             /\ \/ dgSteps = 0 /\ new_event
                \/ dgSteps \in 1..3 /\ (sign \/ anonymise \/ \E min \in Sensitivity : redact(min))
SubjectStep == dgScan = NoScan /\ dgSteps = 0 /\ \E s \in DgSubjects : record(s) \/ erase_subject(s)
Next == ScanStep \/ EventStep \/ SubjectStep
Spec == Init /\ [][Next]_dgVars

----------------------------------------------------------------------------
GuardsTypeOK ==
    /\ dgScan.of \in {"none", "secrets", "text", "anonymize", "safe_harbor", "dataset", "training"}
    /\ dgFloor \in 0..5 /\ dgSteps \in 0..4
    /\ dgStore \subseteq DgSubjects

Left == {c \in 1..DgLength : \E i \in DOMAIN dgScan.text : dgScan.text[i] = c}
InSome(matches) == UNION {Chars(matches[i]) : i \in DOMAIN matches}

(* The hits of a scan for secrets are apart and in order, the text keeps     *)
(* just the characters of no hit, in order, and a found secret is no hit     *)
(* only when another one found overlaps it and is at least as sure, whatever *)
(* its kind; the promises below say what the documentation asks for more.    *)
SecretsAreCovered ==
    dgScan.of = "secrets" =>
      /\ \A i \in 1..(Len(dgScan.hits) - 1) : dgScan.hits[i].end <= dgScan.hits[i + 1].start
      /\ SelectSeq(dgScan.text, LAMBDA c : c # 0) = SelectSeq(Text, LAMBDA c : c \notin InSome(dgScan.hits))
      /\ \A i \in DOMAIN dgScan.found : LET h == dgScan.found[i] IN
           \/ \E j \in DOMAIN dgScan.hits : dgScan.hits[j] = h
           \/ \E j \in DOMAIN dgScan.found \ {i} : Overlap(dgScan.found[j], h) /\ dgScan.found[j].conf >= h.conf

(* Matches that do not overlap are replaced, each by its marker, and nothing *)
(* else (EntitiesAreReplaced below fails for nested ones); anonymize() and   *)
(* Safe Harbor leave no match whole, whatever overlaps and whatever an       *)
(* earlier pass left of it, and lose nothing else.                           *)
TextsAreCovered ==
    /\ dgScan.of = "text" /\ (\A i, j \in DOMAIN dgScan.found : i # j => ~Overlap(dgScan.found[i], dgScan.found[j])) =>
         SelectSeq(dgScan.text, LAMBDA c : c # 0) = SelectSeq(Text, LAMBDA c : c \notin InSome(dgScan.found))
    /\ dgScan.of = "text" /\ dgScan.answer = "text" => dgScan.found = <<>> \/ dgScan.text # Text
    /\ dgScan.of \in {"anonymize", "safe_harbor"} =>
         /\ \A i \in DOMAIN dgScan.found : ~(Chars(dgScan.found[i]) \subseteq Left)
         /\ (1..DgLength) \ InSome(dgScan.found) \subseteq Left

(* However redactions, anonymisations and signatures follow each other: no   *)
(* value as sensitive as some redaction asked for is left, what passes       *)
(* assert_redacted() hides personal data only beyond the tenth level.        *)
EventsAreCovered ==
    /\ \A i \in DOMAIN dgEvent.payload :
         dgEvent.payload[i].kind = "redactable" => dgEvent.payload[i].level < dgFloor
    /\ assert_redacted(dgEvent.payload) = "passes" =>
         \A i \in DOMAIN dgEvent.payload : dgEvent.payload[i].kind = "clean" \/ dgEvent.payload[i].at = "deep"

(* A dataset that lost its files passes: a file that cannot be read changes  *)
(* no clause, and two files that pass consent each pass it together.         *)
DatasetsAreGraded ==
    dgScan.of = "dataset" => LET f == dgScan.files IN
      /\ ~f[2].readable => dgScan.clauses = _build_clauses(<<f[1]>>)
      /\ \A c \in {"density", "consent"} : _build_clauses(<<f[1]>>)[c] /\ _build_clauses(<<f[2]>>)[c] => dgScan.clauses[c]

(* The report of a training file has a record with personal data for every   *)
(* line that shows some, unless it stopped before; a file adds up from any   *)
(* two parts of it, and never has more of such records than records.         *)
TrainingAddsUp ==
    dgScan.of = "training" => LET r == dgScan.report IN
      /\ r.pii <= r.total /\ r.total <= dgScan.max
      /\ \A i \in DOMAIN dgScan.lines : dgScan.lines[i] = "plain" => r.pii > 0 \/ r.total = dgScan.max
      /\ \A k \in 0..Len(dgScan.lines) :
           LET head == audit_training_data(SubSeq(dgScan.lines, 1, k), dgScan.max)
               tail == audit_training_data(SubSeq(dgScan.lines, k + 1, Len(dgScan.lines)), dgScan.max - head.total) IN
           r = [total |-> head.total + tail.total, pii |-> head.pii + tail.pii]

DataIsCovered == SecretsAreCovered /\ TextsAreCovered /\ EventsAreCovered /\ DatasetsAreGraded /\ TrainingAddsUp

(* "Zero-tolerance types are always blocked regardless of the confidence     *)
(* threshold" (secrets.py:22): a zero-tolerance match that is not allowed    *)
(* blocks the scan.  _dedup_hits drops it for a surer match that overlaps.   *)
ZeroToleranceBlocks ==
    dgScan.of = "secrets" =>
      \A i \in DOMAIN dgScan.found : dgScan.found[i].type = "zero" => dgScan.blocked

(* "every qualifying hit replaced by its redaction marker" (secrets.py:608): *)
(* the text keeps no character of a qualifying match.  The match that wins   *)
(* is replaced alone, and the loser may reach further on both sides.         *)
QualifyingHitsAreReplaced == dgScan.of = "secrets" => Left \cap InSome(dgScan.found) = {}

(* "The input text with each detected entity replaced" (sdk/_types.py:578):  *)
(* no character of an entity is left, nested entities included.              *)
EntitiesAreReplaced == dgScan.of = "text" => Left \cap InSome(dgScan.found) = {}

(* "Finds all pii_detection audit records ..., issues erasure instructions"  *)
(* or raises "if erasure cannot be completed" (sdk/pii.py:1095, :1111): a    *)
(* receipt for a subject that is stored counts something.                    *)
ErasureReachesTheStore == \A i \in DOMAIN dgReceipts : dgReceipts[i][3] => dgReceipts[i][2] > 0
=============================================================================
