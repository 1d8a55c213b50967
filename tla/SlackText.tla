------------------------------ MODULE SlackText ------------------------------
(***************************************************************************)
(* SlackChannel._chunk_text (andino/channels/slack.py): a text is cut into *)
(* messages of at most max_len characters, at newlines where there are     *)
(* any.  A text is its length and the positions of its newlines, counted   *)
(* from 1; a chunk is the pair of its first and last position.             *)
(***************************************************************************)
EXTENDS Naturals, Sequences, FiniteSets, FiniteSetsExt

CONSTANTS
    MaxText,   \* bound: length of a text
    MaxLens    \* values of max_len

ASSUME TextAssumption == MaxText \in Nat /\ MaxLens \subseteq Nat \ {0}

VARIABLE text  \* [len, newlines, max, rest, chunks], rest the first position not cut

SlackTextTypeOK ==
    /\ text \in [len : 0..MaxText, newlines : SUBSET (1..MaxText), max : MaxLens \cup {1},
                rest : 1..(MaxText + 1), chunks : Seq((1..MaxText) \X (1..MaxText))]
    /\ text.rest <= text.len + 1 /\ text.newlines \subseteq 1..text.len

TextInit == text = [len |-> 0, newlines |-> {}, max |-> 1, rest |-> 1, chunks |-> <<>>]

TextGiven(n, newlines, max) ==
    /\ text.len = 0
    /\ text' = [len |-> n, newlines |-> newlines, max |-> max, rest |-> 1, chunks |-> <<>>]

\* The first position of the rest whose text[:split_at] is cut: past the last
\* newline within the limit, or the limit itself when that is none or the first
\* character.
Cut(t) ==
    LET newlines == {p \in t.newlines : t.rest < p /\ p < t.rest + t.max}
    IN  IF newlines = {} THEN t.rest + t.max ELSE Max(newlines)

\* Mutant of Skip: one character is dropped, newline or not.
SkipOne(t, p) == p + 1

\* lstrip: the newlines at the start of the rest are dropped.
Skip(t, p) == Min({q \in p..(t.len + 1) : q \notin t.newlines})

ChunkCut ==
    /\ text.rest + text.max <= text.len
    /\ text' = [text EXCEPT !.chunks = Append(@, <<text.rest, Cut(text) - 1>>),
                            !.rest = Skip(text, Cut(text))]

\* What is left fits.
ChunkLast ==
    /\ text.rest <= text.len /\ text.len < text.rest + text.max
    /\ text' = [text EXCEPT !.chunks = Append(@, <<text.rest, text.len>>), !.rest = text.len + 1]

TextNext ==
    \/ \E n \in 1..MaxText : \E newlines \in SUBSET (1..n), max \in MaxLens :
          TextGiven(n, newlines, max)
    \/ ChunkCut \/ ChunkLast

TextSpec == TextInit /\ [][TextNext]_text

-----------------------------------------------------------------------------
\* Properties.

\* What is posted is the text: every chunk has a character and fits, and every
\* character that is not a newline is in exactly one of them, in its place.
ChunksAreTheText ==
    /\ \A i \in DOMAIN text.chunks :
          LET length == text.chunks[i][2] + 1 - text.chunks[i][1]
          IN  0 < length /\ length <= text.max
    /\ \A i, j \in DOMAIN text.chunks : i < j => text.chunks[i][2] < text.chunks[j][1]
    /\ \A p \in 1..(text.rest - 1) \ text.newlines :
          \E i \in DOMAIN text.chunks : text.chunks[i][1] <= p /\ p <= text.chunks[i][2]
=============================================================================
