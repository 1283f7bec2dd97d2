------------------------------- MODULE TurnLog -------------------------------
(***************************************************************************)
(* The files of one user's conversation memory (memory/jsonl.go): the log  *)
(* history.jsonl, the watermark in state.json, the archived logs.          *)
(*                                                                         *)
(* A file is a sequence of bytes.  The bytes of a turn's JSON text are     *)
(* numbered; the text is readable when all of them are there and no other  *)
(* byte is on the line.  An offset counts bytes, as in the code.  A file   *)
(* that does not exist is empty: every reader treats the two alike.        *)
(* Each operation runs under the user's mutex and is one step.             *)
(***************************************************************************)
EXTENDS Naturals, SequencesExt

CONSTANTS
  Turns,     \* conversation rounds, numbered in the order they are stored
  Size,      \* bytes of a turn's text, without the newline
  MaxBytes,  \* size from which a log is archived
  TailChunk  \* bytes read per step when scanning backwards

ASSUME TurnLogAssumption ==
  /\ Turns \subseteq Nat \ {0}
  /\ Size \in [Turns -> Nat \ {0}]
  /\ MaxBytes \in Nat \ {0}
  /\ TailChunk \in Nat \ {0}

VARIABLES
  log,       \* the bytes of history.jsonl
  mark,      \* consolidated_bytes of state.json, 0 if there is none
  archives   \* the contents of history-<time>.jsonl

fileVars == <<log, mark, archives>>

-----------------------------------------------------------------------------
\* Lines and records

NewLine == [turn |-> 0, byte |-> 0]
Bytes == {NewLine} \union UNION {[turn : {t}, byte : 1..Size[t]] : t \in Turns}

Text(t) == [i \in 1..Size[t] |-> [turn |-> t, byte |-> i]]
Line(t) == Append(Text(t), NewLine)

\* bytes.Split at newlines: the last piece is what follows the last newline.
Split(bytes) ==
  LET lines[i \in 0..Len(bytes)] ==
        IF i = 0 THEN << <<>> >>
        ELSE LET before == lines[i - 1]
             IN  IF bytes[i] = NewLine THEN Append(before, <<>>)
                 ELSE [before EXCEPT ![Len(before)] = Append(@, bytes[i])]
  IN  lines[Len(bytes)]

\* parseTurn: blank lines and lines that are not one JSON text are skipped.
IsRecord(line) == line # <<>> /\ line = Text(line[1].turn)

Records(lines) ==
  LET turns[i \in 0..Len(lines)] ==
        IF i = 0 THEN <<>>
        ELSE IF IsRecord(lines[i]) THEN Append(turns[i - 1], lines[i][1].turn)
        ELSE turns[i - 1]
  IN  turns[Len(lines)]

Whole(bytes) == SubSeq(bytes, 1, Max({0} \union {i \in DOMAIN bytes : bytes[i] = NewLine}))

\* The turns a file holds on lines that are complete.
TurnsIn(bytes) == ToSet(Records(Split(Whole(bytes))))
Stored == TurnsIn(log) \union UNION {TurnsIn(a) : a \in archives}

-----------------------------------------------------------------------------
\* Unconsolidated: the turns after the watermark and the offset to commit for them.

From == IF mark > Len(log) THEN 0 ELSE mark
Fresh == Whole(SubSeq(log, From + 1, Len(log)))
Pending == Records(Split(Fresh))
NextMark == From + Len(Fresh)

MarkTo(offset) == IF offset <= mark THEN mark ELSE offset

-----------------------------------------------------------------------------
\* Append

\* Mutant: without the check for unconsolidated turns.
MayRotatePending == Len(log) >= MaxBytes

MayRotate == Len(log) >= MaxBytes /\ mark >= Len(log)

\* What maybeRotate leaves: the log archived, with the watermark reset or (a failed write,
\* a crash) not; or everything as it was, when it refuses or the rename fails.
Rotations ==
  LET asItWas == [log |-> log, mark |-> mark, archives |-> archives]
      moved   == [log : {<<>>}, mark : {0, mark}, archives : {archives \union {log}}]
  IN  {asItWas} \union (IF MayRotate THEN moved ELSE {})

\* Mutant: opened with O_TRUNC in place of O_APPEND.
WriteTruncates(r, bytes) ==
  /\ log' = bytes
  /\ mark' = r.mark
  /\ archives' = r.archives

\* r is the outcome of maybeRotate, bytes is as much as the write got to the disk.
Write(r, bytes) ==
  /\ log' = r.log \o bytes
  /\ mark' = r.mark
  /\ archives' = r.archives

\* Delete: os.RemoveAll; it may fail, or be cut short by a crash, after some of the files.
RemoveAll(files) ==
  /\ log' = IF "history" \in files THEN <<>> ELSE log
  /\ mark' = IF "state" \in files THEN 0 ELSE mark
  /\ archives' = IF "history" \in files THEN {} ELSE archives

AllFiles == {"history", "state"}

-----------------------------------------------------------------------------
\* Tail: the last turns, found by reading the log backwards in chunks.

\* Mutant: the start of a line that the chunk before ended in is dropped.
ReadChunkDropsStart(s, limit) ==
  LET from   == IF TailChunk > s.offset THEN 0 ELSE s.offset - TailChunk
      lines  == Split(SubSeq(log, from + 1, s.offset))
      rest   == IF from = 0 THEN lines ELSE Tail(lines)
      found  == Reverse(Records(rest))
  IN  [offset  |-> from,
       pending |-> <<>>,
       out     |-> s.out \o SubSeq(found, 1, Min({Len(found), limit - Len(s.out)}))]

\* One chunk: s.offset bytes are still unread, s.pending is the start of a line read so far,
\* s.out the turns found, latest first.
ReadChunk(s, limit) ==
  LET from   == IF TailChunk > s.offset THEN 0 ELSE s.offset - TailChunk
      lines  == Split(SubSeq(log, from + 1, s.offset) \o s.pending)
      rest   == IF from = 0 THEN lines ELSE Tail(lines)
      found  == Reverse(Records(rest))
  IN  [offset  |-> from,
       pending |-> IF from = 0 THEN <<>> ELSE Head(lines),
       out     |-> s.out \o SubSeq(found, 1, Min({Len(found), limit - Len(s.out)}))]

TailScan(limit) ==
  LET steps == Len(log) \div TailChunk + 1
      scan[n \in 0..steps] ==
        IF n = 0 THEN [offset |-> Len(log), pending |-> <<>>, out |-> <<>>]
        ELSE LET s == scan[n - 1]
             IN  IF s.offset > 0 /\ Len(s.out) < limit THEN ReadChunk(s, limit) ELSE s
  IN  Reverse(scan[steps].out)

\* What it is meant to return.
LastTurns(limit) ==
  LET all == Records(Split(log))
  IN  SubSeq(all, Max({1, Len(all) - limit + 1}), Len(all))
=============================================================================
