------------------------------ MODULE Anchors -------------------------------
(***************************************************************************)
(* Span anchors (cdp/anchor.py).  A line is the sequence of its words after*)
(* normalise_ws, so that a blank line is empty, and the length of a text is*)
(* its number of words.                                                    *)
(***************************************************************************)
EXTENDS Integers, SequencesExt

CONSTANTS
    MIN_ANCHOR_LEN, MAX_ANCHOR_LEN,
    MAX_MATCHES_IN_FILE,
    LINE_WINDOW,
    MAX_SPAN

ASSUME AnchorAssumption ==
    /\ {MIN_ANCHOR_LEN, MAX_ANCHOR_LEN, MAX_MATCHES_IN_FILE, MAX_SPAN} \subseteq Nat \ {0}
    /\ LINE_WINDOW \in Nat

NoAnchor == [line |-> 0, text |-> <<>>]

\* The file as one string: each word with the number of its line.
NormalisedIndex(lines) ==
    FlattenSeq([n \in DOMAIN lines |-> [w \in DOMAIN lines[n] |-> [word |-> lines[n][w], line |-> n]]])

Joined(lines, first, last) == FlattenSeq(SubSeq(lines, first, last))

\* The lines at which the text begins, within MAX_SPAN source lines.
FindMatches(lines, needle) ==
    LET blob == NormalisedIndex(lines)
        end(i) == i + Len(needle) - 1
        found == {i \in 1..(Len(blob) - Len(needle) + 1) :
                     \A k \in DOMAIN needle : blob[i + k - 1].word = needle[k]}
    IN IF needle = <<>> THEN {}
       ELSE {blob[i].line : i \in {j \in found : blob[end(j)].line - blob[j].line < MAX_SPAN}}

Near(hits, line) == {h \in hits : h - line \in -LINE_WINDOW..LINE_WINDOW}

Qualifies(lines, text, line) ==
    LET hits == FindMatches(lines, text) IN
    /\ Len(text) \in MIN_ANCHOR_LEN..MAX_ANCHOR_LEN
    /\ Cardinality(hits) \in 1..MAX_MATCHES_IN_FILE
    /\ Cardinality(Near(hits, line)) = 1

\* The shortest span that qualifies, downward from the line, else upward.
BuildAnchor(lines, line) ==
    LET last(width) == line + width - 1
        first(width) == line - width + 1
        down == {w \in 1..MAX_SPAN : last(w) <= Len(lines) /\ Qualifies(lines, Joined(lines, line, last(w)), line)}
        up == {w \in 2..MAX_SPAN : first(w) > 0 /\ Qualifies(lines, Joined(lines, first(w), line), first(w))}
    IN IF line \notin DOMAIN lines THEN NoAnchor
       ELSE IF down # {} THEN [line |-> line, text |-> Joined(lines, line, last(Min(down)))]
       ELSE IF up # {} THEN [line |-> first(Min(up)), text |-> Joined(lines, first(Min(up)), line)]
       ELSE NoAnchor

\* Mutant: of several matches in the window, the first one is taken.
VerifyFirst(lines, anchor) ==
    LET hits == FindMatches(lines, anchor.text)
        near == Near(hits, anchor.line)
        Failed(reason) == [ok |-> FALSE, line |-> anchor.line, reason |-> reason]
    IN IF Len(anchor.text) < MIN_ANCHOR_LEN \/ hits = {} THEN Failed("anchor_not_found")
       ELSE IF Cardinality(hits) > MAX_MATCHES_IN_FILE THEN Failed("anchor_too_common")
       ELSE IF near = {} THEN Failed("anchor_not_found")
       ELSE [ok |-> TRUE, line |-> Min(near), reason |-> "none"]

\* Found at exactly one line near the cited one, which the citation is moved to.
VerifyAt(anchor, hits, near) ==
    LET Failed(reason) == [ok |-> FALSE, line |-> anchor.line, reason |-> reason]
    IN IF Len(anchor.text) < MIN_ANCHOR_LEN \/ hits = {} THEN Failed("anchor_not_found")
       ELSE IF Cardinality(hits) > MAX_MATCHES_IN_FILE THEN Failed("anchor_too_common")
       ELSE IF near = {} THEN Failed("anchor_not_found")
       ELSE IF Cardinality(near) > 1 THEN Failed("ambiguous_anchor")
       ELSE [ok |-> TRUE, line |-> Min(near), reason |-> "none"]

VerifyAnchor(lines, anchor) ==
    VerifyAt(anchor, FindMatches(lines, anchor.text), Near(FindMatches(lines, anchor.text), anchor.line))
=============================================================================
