------------------------------ MODULE Scrubbing ------------------------------
(* SAIb (saib/): what detection, classification, policy and masking make of  *)
(* a text, and what its four readers hand on: the LLM gateway, the read of a *)
(* connector, the ingestion of a file, its preview.  A text is a sequence of *)
(* cells; a detector's pattern is the cells it matches.                      *)
EXTENDS Naturals, SequencesExt

CONSTANTS
    Patterns,     \* the detectors' patterns in the order they run: [type, cells]
    Restricted,   \* cells that hold a restricted keyword
    Internal,     \* cells that hold an internal one
    Prompts,      \* texts to be read
    Systems,      \* texts that go before a prompt
    MaxText       \* cells that pass the minimizer: 12,000 characters

Marker == [raw |-> "truncated"]
Cells == UNION {ToSet(text) : text \in Prompts \cup Systems}

\* A cell is raw or a placeholder; no pattern matches nothing, a placeholder or the
\* minimizer's mark.  (One detector's may match a placeholder: a PASSWORD is any eight
\* characters after its keyword.  All that it then hides is the placeholder.)
ASSUME ScrubbingAssumption ==
    /\ MaxText \in Nat
    /\ Prompts \cup Systems \subseteq Seq(Cells)
    /\ \A c \in Cells : "raw" \in DOMAIN c \/ "type" \in DOMAIN c
    /\ Patterns \in Seq(ToSet(Patterns))
    /\ \A r \in DOMAIN Patterns : LET cells == Patterns[r].cells IN
         /\ cells \in Seq(ToSet(cells)) /\ cells # <<>>
         /\ \A c \in ToSet(cells) : "type" \notin DOMAIN c /\ c # Marker

VARIABLES
    mode,       \* the guard's mode: AOS_SAIB_MODE or the governance profile's
    guardUp,    \* the guard can be imported and runs
    handed      \* what the reader was handed, of what

scrubVars == <<mode, guardUp, handed>>

-----------------------------------------------------------------------------
\* A mode that is set and valid wins; otherwise the profile's, which for SAIb an invalid
\* one does not reach: it falls to MASK.
SaibModes == {"OFF", "DETECT", "MASK", "STRICT"}
ProfileDefaults ==
    [permissive |-> [trust |-> "advisory", lineage |-> "warn", recovery |-> "advisory", saib |-> "MASK"],
     strict |-> [trust |-> "strict_low_trust", lineage |-> "strict_all_material",
                 recovery |-> "safe_execute", saib |-> "STRICT"]]
SaibMode(explicit, profile) ==
    CASE explicit = "" -> ProfileDefaults[profile].saib
      [] explicit \in SaibModes -> explicit
      [] OTHER -> "MASK"

-----------------------------------------------------------------------------
\* The matches of all detectors that begin at a cell, as spans [from, to) of the text.
MatchesAt(text, p) ==
    {[from |-> p, to |-> p + Len(Patterns[r].cells), rank |-> r, type |-> Patterns[r].type] :
        r \in {q \in DOMAIN Patterns :
                 /\ p + Len(Patterns[q].cells) <= Len(text) + 1
                 /\ SubSeq(text, p, p + Len(Patterns[q].cells) - 1) = Patterns[q].cells}}
Spans(text) == UNION {MatchesAt(text, p) : p \in DOMAIN text}

\* Of those that begin together the longest is first; the sort is stable, so then the one
\* of the detector that runs first.
First(text, p) ==
    CHOOSE a \in MatchesAt(text, p) : \A b \in MatchesAt(text, p) \ {a} :
        a.to > b.to \/ (a.to = b.to /\ a.rank < b.rank)

\* Mutant: overlapping matches are all kept.
ScanAll(text) == [p \in {q \in DOMAIN text : MatchesAt(text, q) # {}} |-> First(text, p)]

\* last_end, when the matches that begin at a cell or before are gone through.
LastEnds(text) ==
    LET ends[p \in 0..Len(text)] ==
          IF p = 0 THEN 0
          ELSE IF MatchesAt(text, p) # {} /\ p >= ends[p - 1] THEN First(text, p).to
          ELSE ends[p - 1]
    IN  ends

\* The matches that are kept, by where they begin: where the last kept one has ended.
Scan(text) ==
    LET ends == LastEnds(text)
    IN  [p \in {q \in DOMAIN text : MatchesAt(text, q) # {} /\ q >= ends[q - 1]} |-> First(text, p)]

Placeholder(kept, p) ==
    [type |-> kept[p].type, sys |-> FALSE,
     n |-> Cardinality({q \in DOMAIN kept : q <= p /\ kept[q].type = kept[p].type})]

\* A cell of the masked text: the first one of a kept match is its placeholder.
Within(kept, p) == \E i \in DOMAIN kept : i <= p /\ p < kept[i].to
Piece(text, kept, p) ==
    IF p \in DOMAIN kept THEN <<Placeholder(kept, p)>>
    ELSE IF Within(kept, p) THEN <<>> ELSE <<text[p]>>

\* The text with a numbered placeholder for each kept match, and what each stands for.
MaskMatches(text, kept) ==
    [text |-> FlattenSeq([p \in DOMAIN text |-> Piece(text, kept, p)]),
     mapping |-> [h \in {Placeholder(kept, p) : p \in DOMAIN kept} |->
                    LET p == CHOOSE p \in DOMAIN kept : Placeholder(kept, p) = h
                    IN  SubSeq(text, p, kept[p].to - 1)]]
Mask(text) == MaskMatches(text, Scan(text))

Unmask(text, mapping) ==
    FlattenSeq([p \in DOMAIN text |->
                    IF text[p] \in DOMAIN mapping THEN mapping[text[p]] ELSE <<text[p]>>])

-----------------------------------------------------------------------------
Minimize(text) == IF Len(text) > MaxText THEN Append(SubSeq(text, 1, MaxText), Marker) ELSE text

Classify(text) ==
    CASE ToSet(text) \cap Restricted # {} -> "RESTRICTED"
      [] ToSet(text) \cap Restricted = {} /\ Spans(text) # {} -> "CONFIDENTIAL"
      [] OTHER -> IF ToSet(text) \cap Internal # {} THEN "INTERNAL" ELSE "PUBLIC"

\* policy.evaluate: block, mask (and minimize), minimize, or nothing.
Evaluate(m, class) ==
    CASE m \in {"OFF", "DETECT"} -> "allow"
      [] m \in {"MASK", "STRICT"} /\ (class = "RESTRICTED" \/ (m = "STRICT" /\ class = "CONFIDENTIAL")) -> "block"
      [] OTHER -> IF class = "CONFIDENTIAL" THEN "mask" ELSE "minimize"

Combined(prompt, system) ==
    IF system = <<>> THEN prompt ELSE system \o <<[raw |-> "newline"]>> \o prompt

\* A placeholder of the system text that the prompt has too is renamed.
Renamed(h, taken) == IF h \in taken THEN [h EXCEPT !.sys = TRUE] ELSE h

\* What the masked prompt p and the masked system text s come to: placeholders of s that
\* the prompt has too are renamed.
Joined(p, s) ==
    LET taken == DOMAIN p.mapping
        names == {Renamed(h, taken) : h \in DOMAIN s.mapping}
    IN  [prompt |-> p.text,
         system |-> [i \in DOMAIN s.text |->
                        IF s.text[i] \in DOMAIN s.mapping THEN Renamed(s.text[i], taken) ELSE s.text[i]],
         mapping |-> [h \in taken \cup names |->
                        IF h \in taken THEN p.mapping[h]
                        ELSE s.mapping[IF h.sys THEN [h EXCEPT !.sys = FALSE] ELSE h]]]

\* guard.process: a blocked text has an empty one for its safe text.
Outcome(outcome, prompt, system) ==
    CASE outcome = "block" -> [prompt |-> <<>>, system |-> <<>>, mapping |-> <<>>]
      [] outcome = "allow" -> [prompt |-> prompt, system |-> system, mapping |-> <<>>]
      [] outcome = "minimize" ->
            [prompt |-> Minimize(prompt), system |-> Minimize(system), mapping |-> <<>>]
      [] outcome = "mask" -> Joined(Mask(Minimize(prompt)), Mask(Minimize(system)))
Blocked(m, prompt, system) == Evaluate(m, Classify(Combined(prompt, system))) = "block"
Process(m, prompt, system) ==
    Outcome(Evaluate(m, Classify(Combined(prompt, system))), prompt, system)
Found(prompt, system) == Cardinality(DOMAIN Scan(Combined(prompt, system)))

-----------------------------------------------------------------------------
Waiting == [by |-> "nobody"]

ScrubInit ==
    /\ \E explicit \in SaibModes \cup {"", "other"}, profile \in DOMAIN ProfileDefaults :
        mode = SaibMode(explicit, profile)
    /\ guardUp \in BOOLEAN
    /\ handed = Waiting

Hand(reader, prompt, system, out, outSystem, count, mapping) ==
    /\ handed' = [by |-> reader, prompt |-> prompt, system |-> system, out |-> out,
                  outSystem |-> outSystem, count |-> count, mapping |-> mapping]
    /\ UNCHANGED <<mode, guardUp>>

\* complete(): a blocked prompt is an error, and so is a guard that is down.
AskGateway(prompt, system) ==
    /\ guardUp /\ ~Blocked(mode, prompt, system)
    /\ \E r \in {Process(mode, prompt, system)} :
        Hand("gateway", prompt, system, r.prompt, r.system, Found(prompt, system), r.mapping)

\* connectors._mask: whatever does not come out masked is handed on as it is.
ReadConnector(text) ==
    \E safe \in {IF guardUp THEN Process(mode, text, <<>>).prompt ELSE <<>>} :
        Hand("connector", text, <<>>, IF safe # <<>> THEN safe ELSE text, <<>>,
             IF safe # <<>> THEN Found(text, <<>>) ELSE 0, <<>>)

\* ingest._scrub: a blocked text is an empty one; without the guard the text itself.
Scrubbed(text) == text = <<>> \/ guardUp
Scrub(text) == IF text # <<>> /\ guardUp THEN Process(mode, text, <<>>).prompt ELSE text

\* ingest_file refuses what could not be scrubbed, and receipts the rest with its count.
IngestFile(text) ==
    Scrubbed(text) /\ Hand("ingest", text, <<>>, Scrub(text), <<>>, Found(text, <<>>), <<>>)

\* preview_redaction counts what the detectors find and does not ask whether _scrub could.
PreviewRedaction(text) ==
    Hand("preview", text, <<>>, Scrub(text), <<>>, Found(text, <<>>), <<>>)

ScrubNext ==
    /\ handed = Waiting
    /\ \E text \in Prompts :
        \/ \E system \in Systems : AskGateway(text, system)
        \/ ReadConnector(text) \/ IngestFile(text) \/ PreviewRedaction(text)

ScrubSpec == ScrubInit /\ [][ScrubNext]_scrubVars

-----------------------------------------------------------------------------
Masks == mode \in {"MASK", "STRICT"}
Overlap(a, b) == a.from < b.to /\ b.from < a.to
Crosses(text) == \E a, b \in Spans(text) : a # b /\ Overlap(a, b)
Typed(text) == {c \in ToSet(text) : "type" \in DOMAIN c}

\* The kept matches are disjoint, and each that is dropped overlaps a kept one that starts
\* no later: the earlier wins, not the longer (registry.scan; its docstring says longer).
EarlierWins ==
    LET kept == Scan(handed.prompt)
    IN  /\ \A i, j \in DOMAIN kept : i # j => ~Overlap(kept[i], kept[j])
        /\ \A e \in Spans(handed.prompt) :
            \E i \in DOMAIN kept : kept[i] = e \/ (Overlap(kept[i], e) /\ kept[i].from <= e.from)

\* No match is left to be found in what is handed on while the guard masks, but in what a
\* connector or a preview passes on raw because the guard was down, and the connector
\* alone because it blocked: _mask takes the empty text of a blocked one for no answer.
NothingLeftToFind ==
    Masks /\ Spans(handed.out) # {} =>
        \/ handed.by \in {"connector", "preview"} /\ ~guardUp
        \/ handed.by = "connector" /\ Blocked(mode, handed.prompt, <<>>)

\* A cell of a match is in the clear only when its match lost to an overlapping one or the
\* minimizer cut it: the cut is made before the text is scanned again (guard.process).
ClearCellsAreOutside ==
    LET text == handed.prompt
        free == {p \in DOMAIN text : \A e \in Spans(text) : p < e.from \/ e.to <= p}
        clear == {i \in DOMAIN handed.out : "raw" \in DOMAIN handed.out[i]}
    IN  handed.by = "gateway" /\ Masks /\ ~Crosses(text) /\ Len(text) <= MaxText /\ Typed(text) = {} =>
            Cardinality(clear) = Cardinality(free)

\* An answer that repeats the masked texts gives them back as they were minimized, the
\* prompt's and the system's, unless a text had a placeholder typed in (guard.unmask).
AnswersComeBack ==
    handed.by = "gateway" /\ Masks /\ Typed(handed.prompt) \cup Typed(handed.system) = {} =>
        /\ Unmask(handed.out, handed.mapping) = Minimize(handed.prompt)
        /\ Unmask(handed.outSystem, handed.mapping) = Minimize(handed.system)

\* The count on an ingest's receipt is of the placeholders in the text, unless the mode
\* masks nothing, the text was blocked, cut, or had placeholders (ingest_file).
ReceiptCountsMasks ==
    LET text == handed.prompt
    IN  handed.by = "ingest" /\ Masks /\ ~Blocked(mode, text, <<>>)
            /\ Len(text) <= MaxText /\ Typed(text) = {} =>
                handed.count = Cardinality({i \in DOMAIN handed.out : "type" \in DOMAIN handed.out[i]})

\* What the readers are handed is scrubbed.
ScrubHolds ==
    handed # Waiting =>
        /\ EarlierWins /\ NothingLeftToFind /\ ClearCellsAreOutside
        /\ AnswersComeBack /\ ReceiptCountsMasks
=============================================================================
