------------------------------- MODULE Masking -------------------------------
(***************************************************************************)
(* Detection, pseudonymization and rehydration of text (cloakpipe-core:    *)
(* detector/mod.rs, replacer.rs, rehydrator.rs).  A text is a sequence of  *)
(* glyphs: names and words, and the glyphs tokens are spelled with.  The   *)
(* layers that find entities (patterns, financial, NER, custom rules) are  *)
(* the constant Phrases; their merging is modelled.                        *)
(***************************************************************************)
EXTENDS Vault, FiniteSetsExt, SequencesExt

CONSTANTS Phrases,   \* what a layer finds: [words, category, confidence, layer, toggle]
          Preserve,  \* originals never masked
          Forced,    \* originals always masked: a sequence
          UpperGlyphs

DigitGlyphs == ToSet(DigitGlyph)

\* A set in the order of `before`, a set of pairs; equals in any order.
InsertSorted(x, seq, before) ==
    LET k == Cardinality({i \in DOMAIN seq : <<x, seq[i]>> \notin before})
    IN SubSeq(seq, 1, k) \o <<x>> \o SubSeq(seq, k + 1, Len(seq))
Sorted(S, before) == FoldSet(LAMBDA x, seq : InsertSorted(x, seq, before), <<>>, S)

\* The positions where the glyphs of `words` begin in a text.
Occurrences(text, words) ==
    {i \in 1..(Len(text) - Len(words) + 1) : \A k \in DOMAIN words : text[i + k - 1] = words[k]}
FirstOccurrence(text, words) == Min(Occurrences(text, words))

SpanAt(words, i, category, confidence) ==
    [start |-> i, end |-> i + Len(words) - 1, original |-> words, category |-> category, confidence |-> confidence]

(***************************************************************************)
(* Detector::detect, with the detection categories `on`.                   *)
(***************************************************************************)
LayerSpans(text, on) ==
    UNION {{<<p.layer, SpanAt(p.words, i, p.category, p.confidence)>> : i \in Occurrences(text, p.words)} :
            p \in {q \in Phrases : q.toggle \in on /\ q.words \notin Preserve}}

\* A forced entity is found once, where it first occurs.
ForcedSpans(text) ==
    {<<100 + i, SpanAt(Forced[i], FirstOccurrence(text, Forced[i]), "forced", 100)>> :
        i \in {j \in DOMAIN Forced : Occurrences(text, Forced[j]) # {}}}

\* Overlapping spans: the more confident one stays, then the longer one,
\* then the earlier.
Supersedes(e, last) ==
    \/ e.confidence > last.confidence
    \/ e.confidence = last.confidence /\ e.end - e.start > last.end - last.start
KeepSpan(kept, e) ==
    IF kept = <<>> \/ e.start > Last(kept).end THEN Append(kept, e)
    ELSE IF Supersedes(e, Last(kept)) THEN Append(Front(kept), e) ELSE kept
DeduplicateSpans(spans) == FoldLeft(KeepSpan, <<>>, spans)

Detect(text, on) ==
    LET spans == LayerSpans(text, on) \cup ForcedSpans(text)
        earlier(x, y) == x[2].start < y[2].start \/ (x[2].start = y[2].start /\ x[1] < y[1])
        found == Sorted(spans, {xy \in spans \X spans : earlier(xy[1], xy[2])})
    IN DeduplicateSpans([i \in DOMAIN found |-> found[i][2]])

(***************************************************************************)
(* Replacer::pseudonymize.                                                 *)
(***************************************************************************)
Pseudonymize(text, entities, v) ==
    LET step(s, e) ==
            LET r == GetOrCreate(s.vault, NoMatch, e.original, e.category)
            IN [text |-> s.text \o SubSeq(text, s.last + 1, e.start - 1) \o r.token.token,
                last |-> e.end, vault |-> r.vault]
        done == FoldLeft(step, [text |-> <<>>, last |-> 0, vault |-> v], entities)
    IN [text |-> done.text \o SubSeq(text, done.last + 1, Len(text)), vault |-> done.vault]

(***************************************************************************)
(* Rehydrator::rehydrate replaces every occurrence of every token, longer  *)
(* tokens first; an original that is put back is not a token.              *)
(***************************************************************************)
Replaced(text, words, by) ==
    LET at == Occurrences(text, words)
        inside(i) == \E s \in at : s < i /\ i < s + Len(words)
    IN FlattenSeq([i \in DOMAIN text |-> IF i \in at THEN by ELSE IF inside(i) THEN <<>> ELSE <<text[i]>>])

Rehydrate_ShortestFirst(text, v) ==
    LET tokens == DOMAIN v.reverse
        shortestFirst == Sorted(tokens, {st \in tokens \X tokens : Len(st[1]) < Len(st[2])})
    IN FoldLeft(LAMBDA sofar, token : Replaced(sofar, token, v.reverse[token]), text, shortestFirst)
Rehydrate(text, v) ==
    LET tokens == DOMAIN v.reverse
        longestFirst == Sorted(tokens, {st \in tokens \X tokens : Len(st[1]) > Len(st[2])})
    IN FoldLeft(LAMBDA sofar, token : Replaced(sofar, token, v.reverse[token]), text, longestFirst)

RehydratedCount(text, v) == Cardinality({t \in DOMAIN v.reverse : Occurrences(text, t) # {}})

(***************************************************************************)
(* Rehydrator::rehydrate_chunk: the tail of the buffer that may still grow *)
(* into a token (upper-case letters, then perhaps "_" and digits) is held  *)
(* back; the rest is searched for whole tokens, which are looked up.       *)
(***************************************************************************)
AllIn(text, i, j, glyphs) == \A k \in i..j : text[k] \in glyphs
IsTail(text, i) ==
    \E j \in i..Len(text) :
        /\ AllIn(text, i, j, UpperGlyphs)
        /\ \/ j = Len(text)
           \/ text[j + 1] = "_" /\ AllIn(text, j + 2, Len(text), DigitGlyphs)
HoldAt(text) == Min({i \in DOMAIN text : IsTail(text, i)} \cup {Len(text) + 1})

\* Letters, "_" and digits, as far as they go to both sides: <<first, last>>.
TokensIn(text) ==
    LET joints == {u \in 2..(Len(text) - 1) : text[u] = "_" /\ text[u - 1] \in UpperGlyphs /\ text[u + 1] \in DigitGlyphs}
    IN {<<Min({i \in 1..(u - 1) : AllIn(text, i, u - 1, UpperGlyphs)}),
          Max({j \in (u + 1)..Len(text) : AllIn(text, u + 1, j, DigitGlyphs)})>> : u \in joints}

LookedUp(text, v) ==
    LET known == {ij \in TokensIn(text) : SubSeq(text, ij[1], ij[2]) \in DOMAIN v.reverse}
        begins(i) == {ij \in known : ij[1] = i}
        inside(i) == \E ij \in known : ij[1] < i /\ i <= ij[2]
    IN FlattenSeq([i \in DOMAIN text |->
            IF begins(i) # {} THEN LET ij == CHOOSE x \in begins(i) : TRUE IN v.reverse[SubSeq(text, ij[1], ij[2])]
            ELSE IF inside(i) THEN <<>> ELSE <<text[i]>>])

RehydrateChunk(chunk, buffer, v) ==
    LET text == buffer \o chunk
        at == HoldAt(text)
    IN [text |-> LookedUp(SubSeq(text, 1, at - 1), v), buffer |-> SubSeq(text, at, Len(text))]
===============================================================================
