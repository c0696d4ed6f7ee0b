------------------------------- MODULE History -------------------------------
(***************************************************************************)
(* The score history (core/history.py): a JSONL file that scans append to. *)
(* A line is the sequence of the pieces written to it: whole records, or   *)
(* the first part of one whose writer was killed.  One whole piece is a    *)
(* line that can be read; anything else is skipped.                        *)
(***************************************************************************)
EXTENDS Integers, Sequences, SequencesExt

\* A file: its lines, and whether the last one still lacks its newline.
NoHistory == [lines |-> <<>>, open |-> FALSE]

Piece(record, full) == [record |-> record, full |-> full]

\* append_record: what is written goes to the end of the file, on the last line if that is open.
Write(file, piece, newline) ==
  [open  |-> ~newline,
   lines |-> IF file.open THEN [file.lines EXCEPT ![Len(file.lines)] = Append(@, piece)]
             ELSE Append(file.lines, <<piece>>)]

AppendRecord(file, record) == Write(file, Piece(record, TRUE), TRUE)

\* The writer is killed: part of the record is in the file, or all of it but the newline.
CutRecord(file, record, full) == Write(file, Piece(record, full), FALSE)

Readable(line) == Len(line) = 1 /\ line[1].full

\* Mutant: reading stops at the first line that cannot be read.
LoadUntilBad(file) ==
  LET bad   == SelectInSeq(file.lines, LAMBDA line : ~Readable(line))
      lines == IF bad = 0 THEN file.lines ELSE SubSeq(file.lines, 1, bad - 1)
  IN SortSeq([i \in DOMAIN lines |-> lines[i][1].record], LAMBDA r, s : r.stamp < s.stamp)

\* load_history: the readable lines, oldest first; records of one second keep their order.
LoadHistory(file) ==
  LET at(i)       == file.lines[i][1].record
      older(i, k) == at(i).stamp < at(k).stamp \/ (at(i).stamp = at(k).stamp /\ i < k)
      readable    == {i \in DOMAIN file.lines : Readable(file.lines[i])}
      order       == CHOOSE s \in [1..Cardinality(readable) -> readable] :
                       \A i, k \in DOMAIN s : i < k => older(s[i], s[k])
  IN [i \in DOMAIN order |-> at(order[i])]

Comparable(r, s) == r.branch = s.branch /\ r.schema = s.schema

\* The scores two records share: the project's and those of the modules in both.
Drops(old, new, maxDrop) ==
  \/ old.project - new.project > maxDrop
  \/ \E m \in DOMAIN old.modules \cap DOMAIN new.modules : old.modules[m] - new.modules[m] > maxDrop

\* detect_regressions, as far as whether it finds one: the newest record against the one before
\* it that can be compared with it.
Regressed(records, maxDrop) ==
  LET n        == Len(records)
      previous == SelectLastInSubSeq(records, 1, n - 1, LAMBDA r : Comparable(r, records[n]))
  IN n >= 2 /\ previous # 0 /\ Drops(records[previous], records[n], maxDrop)

\* normalize_report: a report of version 0.3.0 or older says neither its schema nor the project's
\* score.
NormalizeReport(report, mean) ==
  [stamp |-> report.stamp, branch |-> report.branch, modules |-> report.modules,
   schema  |-> IF report.schema = 0 THEN 1 ELSE report.schema,
   project |-> IF report.project = -1 THEN mean ELSE report.project]
=============================================================================
