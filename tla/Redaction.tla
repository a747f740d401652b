----------------------------- MODULE Redaction -----------------------------
(***************************************************************************)
(* backend/src/privacy: the one function every transcript row and summary  *)
(* goes through, redact().  A text is its length and what the detectors    *)
(* find in it; how a pattern matches its characters is left out, what is   *)
(* done with overlapping matches is not.                                   *)
(***************************************************************************)
EXTENDS Naturals, Sequences, FiniteSets, SequencesExt

\* The recognizers in the order they run; each names one category.
Recognizers == <<"OTP_PIN_CVV_PASSWORD", "IBAN", "CARD_NUMBER", "EMIRATES_ID",
                 "PHONE_NUMBER", "EMAIL_ADDRESS", "POLICY_CLAIM_ID">>
\* What Presidio is asked for, in English only.
NamedEntities == {"PERSON_NAME", "PHYSICAL_ADDRESS", "DATE_OF_BIRTH"}
Categories == Range(Recognizers) \union NamedEntities

\* A match covers the positions start .. end - 1.
Match == [start: Nat \ {0}, end: Nat \ {0}, category: Categories]
Overlap(m, n) == m.start < n.end /\ m.end > n.start

\* found is what find_deterministic_matches returns: what each recognizer matches, one
\* after the other, each from left to right without overlaps (re.finditer).
DeterministicOrder(found) ==
    \A i, j \in DOMAIN found : i < j =>
        \/ \E p, q \in DOMAIN Recognizers :
              /\ p < q
              /\ Recognizers[p] = found[i].category
              /\ Recognizers[q] = found[j].category
        \/ found[i].category = found[j].category /\ found[i].end <= found[j].start

\* entities is what find_presidio_matches returns, in any order.
EntitiesOnce(entities) ==
    \A i, j \in DOMAIN entities : i # j => entities[i] # entities[j]

Text == [len: Nat, found: Seq(Match), entities: Seq(Match)]
Findable(text) ==
    /\ \A m \in Range(text.found) \union Range(text.entities) :
          m.start < m.end /\ m.end <= text.len + 1
    /\ \A m \in Range(text.found) : m.category \in Range(Recognizers)
    /\ \A m \in Range(text.entities) : m.category \in NamedEntities
    /\ DeterministicOrder(text.found)
    /\ EntitiesOnce(text.entities)

-----------------------------------------------------------------------------
\* Mutant for MaskingIsExact: no category goes first.
PriorityFlat(m) == 1

\* A secret takes precedence over whatever else matches the same digits.
Priority(m) == IF m.category = "OTP_PIN_CVV_PASSWORD" THEN 0 ELSE 1

\* The stable sort of the matches by priority, then start.
Before(found, i, j) ==
    LET p == Priority(found[i])
        q == Priority(found[j])
    IN  \/ p < q
        \/ p = q /\ found[i].start < found[j].start
        \/ p = q /\ found[i].start = found[j].start /\ i < j

\* The elements of a finite set in the order of Less, which is total on it.
Sorted(S, Less(_, _)) ==
    CHOOSE s \in [1 .. Cardinality(S) -> S] :
        \A j, k \in 1 .. Cardinality(S) : j < k => Less(s[j], s[k])

Ranked(found) == Sorted(DOMAIN found, LAMBDA i, j : Before(found, i, j))

Take(selected, m) ==
    IF \E n \in selected : Overlap(m, n) THEN selected ELSE selected \union {m}

\* What is selected after so many of the ranked matches.
Selected(found) ==
    LET selected[n \in 0 .. Len(found)] ==
            IF n = 0 THEN {} ELSE Take(selected[n - 1], found[Ranked(found)[n]])
    IN  selected

resolve_overlaps(found) ==
    Sorted(Selected(found)[Len(found)], LAMBDA m, n : m.start < n.start)

\* The masked text as a sequence: characters of the text, and markers in place
\* of the matches.
Piece == [at: Nat, mark: Categories \union {"NONE"}]
Raw(p) == [at |-> p, mark |-> "NONE"]
Marker(m) == [at |-> m.start, mark |-> m.category]
Slice(first, last) == [k \in 1 .. (IF first > last THEN 0 ELSE last - first + 1) |->
                          Raw(first + k - 1)]

Splice(acc, m) ==
    [cursor |-> m.end,
     pieces |-> acc.pieces \o Slice(acc.cursor, m.start - 1) \o <<Marker(m)>>]

\* The pieces, and how far they reach, after so many of the matches.
Spliced(resolved) ==
    LET spliced[n \in 0 .. Len(resolved)] ==
            IF n = 0 THEN [cursor |-> 1, pieces |-> <<>>]
            ELSE Splice(spliced[n - 1], resolved[n])
    IN  spliced

apply_mask(len, resolved) ==
    LET done == Spliced(resolved)[Len(resolved)]
    IN  done.pieces \o Slice(done.cursor, len)

\* The categories in the order of their names.
Alphabetical == <<"CARD_NUMBER", "DATE_OF_BIRTH", "EMAIL_ADDRESS", "EMIRATES_ID", "IBAN",
                  "OTP_PIN_CVV_PASSWORD", "PERSON_NAME", "PHONE_NUMBER",
                  "PHYSICAL_ADDRESS", "POLICY_CLAIM_ID">>
Earlier(c, d) ==
    \E p, q \in DOMAIN Alphabetical : p < q /\ Alphabetical[p] = c /\ Alphabetical[q] = d

matches(text, language) ==
    IF language = "en" THEN text.found \o text.entities ELSE text.found

redact(text, language) ==
    LET resolved == resolve_overlaps(matches(text, language))
    IN  [text |-> apply_mask(text.len, resolved),
         detections |-> Sorted({m.category : m \in Range(resolved)}, Earlier)]

-----------------------------------------------------------------------------
\* All texts of the given length with up to count matches of the given categories.
TextsOf(len, count, categories) ==
    LET spans == {s \in (1 .. len) \X (2 .. len + 1) : s[1] < s[2]}
        Of(some) == {[start |-> s[1], end |-> s[2], category |-> c] : s \in spans, c \in some}
        found == Of(categories \ NamedEntities)
        entities == Of(categories \intersect NamedEntities)
        sizes == {z \in (0 .. count) \X (0 .. count) : z[1] + z[2] <= count}
        texts == UNION {{[len |-> len, found |-> f, entities |-> e] :
                            f \in [1 .. z[1] -> found], e \in [1 .. z[2] -> entities]} :
                        z \in sizes}
    IN  {t \in texts : Findable(t)}

\* Whatever overlaps whatever (privacy/service.py): a match is masked exactly if no
\* match ranked before it was masked over some of its digits; the masked text keeps
\* every other character, in order, with one marker for each masked match; and no
\* digit of a one-time password, PIN, CVV or password is left, whichever other
\* recognizer claims it too.  Named entities are looked for in English only.
MasksExactly(text, language) ==
    LET found == matches(text, language)
        masked == Range(resolve_overlaps(found))
        out == redact(text, language).text
        covered == {p \in 1 .. text.len : \E m \in masked : m.start <= p /\ p < m.end}
    IN  /\ \A i \in DOMAIN found : found[i] \in masked <=>
              ~ \E j \in DOMAIN found :
                    Before(found, j, i) /\ Overlap(found[i], found[j]) /\ found[j] \in masked
        /\ Range(out) = {Raw(p) : p \in (1 .. text.len) \ covered} \union {Marker(m) : m \in masked}
        /\ \A k \in 1 .. Len(out) - 1 : out[k].at < out[k + 1].at
        /\ \A i \in DOMAIN found : found[i].category = "OTP_PIN_CVV_PASSWORD" =>
              (found[i].start .. found[i].end - 1) \subseteq covered

\* What the redaction log rests on: the detections are the categories of the markers,
\* each once.
ReportsItsMarkers(text, language) ==
    LET out == redact(text, language)
    IN  /\ out.text \in Seq(Piece)
        /\ out.detections \in Seq(Categories)
        /\ Range(out.detections) = {out.text[k].mark : k \in DOMAIN out.text} \ {"NONE"}
        /\ \A j, k \in DOMAIN out.detections :
              out.detections[j] = out.detections[k] => j = k
=============================================================================
