------------------------------ MODULE UsageLog ------------------------------
(***************************************************************************)
(* The usage file of an agent (andino/usage.py): a line is appended for    *)
(* every completed task, by whichever process runs it, and folded on       *)
(* demand.  The write may stop short, at a full disk or a kill, and the    *)
(* next record then continues the line.  A line is the sequence of the     *)
(* pieces written to it: "torn", "bare" (all but the newline) or "whole".  *)
(* Left out: costs and the window of days.                                 *)
(***************************************************************************)
EXTENDS Naturals, Sequences, FiniteSets, SequencesExt, Folds

CONSTANT MaxRecords   \* bound: records

ASSUME UsageAssumption == MaxRecords \in Nat

VARIABLES
    lines,     \* of the file
    recorded,  \* records written in whole or in part
    torn       \* records of which the write stopped short

usageVars == <<lines, recorded, torn>>

Piece == {"torn", "bare", "whole"}

UsageTypeOK ==
    /\ lines \in Seq(Seq(Piece))
    /\ recorded \in 0..MaxRecords /\ torn \in 0..recorded

UsageInit == lines = <<>> /\ recorded = 0 /\ torn = 0

\* A record is appended, to the last line if that has no end.  An error is
\* logged and goes no further.
Record(piece) ==
    /\ recorded < MaxRecords
    /\ recorded' = recorded + 1
    /\ torn' = IF piece = "whole" THEN torn ELSE torn + 1
    /\ lines' = IF lines = <<>> \/ Last(Last(lines)) = "whole"
                THEN Append(lines, <<piece>>)
                ELSE Append(Front(lines), Append(Last(lines), piece))

Readable(line) == line \in {<<"bare">>, <<"whole">>}

\* Mutant of summarize: the fold ends at a line it cannot read.
summarizeUpToError ==
    LET readable == {n \in 0..Len(lines) : \A i \in 1..n : Readable(lines[i])}
    IN  CHOOSE n \in readable : \A k \in readable : k <= n

\* The number of tasks: a line that is no JSON is passed over.
summarize == Cardinality({i \in DOMAIN lines : Readable(lines[i])})

UsageNext == \E piece \in Piece : Record(piece)

UsageSpec == UsageInit /\ [][UsageNext]_usageVars

-----------------------------------------------------------------------------
\* Properties.

\* A write that stops short costs its own record and at most the next one, and
\* no record is counted that was not written.
TornWritesCostTwo ==
    /\ summarize <= recorded
    /\ summarize + 2 * torn >= recorded
=============================================================================
