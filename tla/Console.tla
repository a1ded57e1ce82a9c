------------------------------- MODULE Console -------------------------------
(***************************************************************************)
(* v1: a console pane, FORTH's or SHELL's: the input line                  *)
(* (console_input.c), its recall of earlier lines (console_history.c), the *)
(* scrollback (console_output.c) and the keys kmain_frame routes to them.  *)
(* Both stores are rings addressed by arithmetic modulo their size; what   *)
(* they promise is stated with all that was ever typed and printed.        *)
(***************************************************************************)
EXTENDS Integers, SequencesExt

CONSTANTS
  Chars,        \* characters that may be typed
  InputMax,     \* CONSOLE_INPUT_MAX
  HistoryMax,   \* CONSOLE_HISTORY_MAX
  OutputMax,    \* CONSOLE_OUTPUT_MAX_LINES
  VisibleRows,  \* rows of text the pane has room for
  Replies,      \* the lines the system prints
  Greeting,     \* the one it prints at boot
  Answers,      \* bound: what an evaluation may print, sequences of lines
  MaxSubmitted  \* bound: lines submitted, and half of the lines printed

ASSUME ConsoleAssumption ==
  InputMax \in Nat \ {0} /\ HistoryMax \in Nat \ {0} /\ OutputMax \in Nat \ {0}
  /\ VisibleRows \in Nat /\ MaxSubmitted \in Nat
  /\ Greeting \in Replies /\ Answers \subseteq Seq(Replies)

VARIABLES
  text,       \* ci.text
  caret,      \* ci.cursor
  kept,       \* hist.lines, by ring index
  pastCount,  \* hist.count
  pastNext,   \* hist.next
  browse,     \* hist.browse_offset
  out,        \* co.lines, by ring index
  outCount,   \* co.line_count
  outNext,    \* co.next_line
  typed,      \* history: the lines submitted, but for the empty ones
  printed     \* history: every line appended to the scrollback
consoleVars == << text, caret, kept, pastCount, pastNext, browse,
                  out, outCount, outNext, typed, printed >>

\* console_output_append_line
Append1(o, line) ==
  [ring |-> [o.ring EXCEPT ![o.next] = line],
   next |-> (o.next + 1) % OutputMax,
   count |-> IF o.count < OutputMax THEN o.count + 1 ELSE o.count]

\* One line after the other, append_split_lines.
AppendAll(o, lines) ==
  LET after[n \in 0 .. Len(lines)] ==
        IF n = 0 THEN o ELSE Append1(after[n - 1], lines[n])
  IN after[Len(lines)]

ConsoleInit ==
  /\ text = << >> /\ caret = 0
  /\ kept = [i \in 0 .. HistoryMax - 1 |-> << >>] /\ pastCount = 0 /\ pastNext = 0
  /\ browse = -1
  /\ LET o == Append1([ring |-> [i \in 0 .. OutputMax - 1 |-> << >>],
                       next |-> 0, count |-> 0], Greeting)
     IN out = o.ring /\ outNext = o.next /\ outCount = o.count
  /\ typed = << >> /\ printed = << Greeting >>

PastUnchanged == UNCHANGED << kept, pastCount, pastNext, typed >>
OutUnchanged == UNCHANGED << out, outCount, outNext, printed >>

----------------------------------------------------------------------------
\* console_input_feed_char: typing and backspace, at the caret.
TypeChar(c) ==
  /\ browse' = -1 /\ PastUnchanged /\ OutUnchanged
  /\ IF Len(text) < InputMax
       THEN text' = InsertAt(text, caret + 1, c) /\ caret' = caret + 1
       ELSE UNCHANGED << text, caret >>
Backspace ==
  /\ browse' = -1 /\ PastUnchanged /\ OutUnchanged
  /\ IF caret > 0 THEN text' = RemoveAt(text, caret) /\ caret' = caret - 1
                   ELSE UNCHANGED << text, caret >>

\* console_input_move_cursor, clamped to the text
MoveCursor(delta) ==
  /\ caret + delta \in 0 .. Len(text) /\ caret' = caret + delta
  /\ UNCHANGED << text, browse >> /\ PastUnchanged /\ OutUnchanged

\* (mutant) the newest entry is taken to be at the write index
HistoryIndexAhead(offset) == (pastNext - offset + HistoryMax * 2) % HistoryMax

\* history_index: offset steps back from the most recent entry
HistoryIndex(offset) == (pastNext - 1 - offset + HistoryMax * 2) % HistoryMax

SetText(line) == text' = line /\ caret' = Len(line)

\* KEY_UP, console_history_prev; at the oldest entry nothing happens.
RecallPrev ==
  /\ pastCount > 0 /\ (browse < 0 \/ browse + 1 < pastCount)
  /\ browse' = browse + 1
  /\ SetText(kept[HistoryIndex(browse')])
  /\ PastUnchanged /\ OutUnchanged

\* KEY_DOWN, console_history_next; past the newest entry the line is empty.
RecallNext ==
  /\ browse >= 0
  /\ browse' = browse - 1
  /\ SetText(IF browse = 0 THEN << >> ELSE kept[HistoryIndex(browse')])
  /\ PastUnchanged /\ OutUnchanged

PrintLines(lines) ==
  LET o == AppendAll([ring |-> out, next |-> outNext, count |-> outCount], lines)
  IN /\ out' = o.ring /\ outNext' = o.next /\ outCount' = o.count
     /\ printed' = printed \o lines

\* console_history_push; an empty line is not remembered.
PushHistory ==
  IF text = << >> THEN PastUnchanged
  ELSE /\ kept' = [kept EXCEPT ![pastNext] = text]
       /\ pastNext' = (pastNext + 1) % HistoryMax
       /\ pastCount' = IF pastCount < HistoryMax THEN pastCount + 1 ELSE pastCount
       /\ typed' = Append(typed, text)

\* Enter: the line is echoed, evaluated, its answer printed, pushed and cleared.
Submit(answer) ==
  /\ Len(printed) < 2 * MaxSubmitted /\ Len(typed) < MaxSubmitted
  /\ PrintLines(<< text >> \o answer) /\ PushHistory
  /\ text' = << >> /\ caret' = 0 /\ browse' = -1

ConsoleNext ==
  \/ \E c \in Chars : TypeChar(c)
  \/ Backspace \/ \E delta \in { -1, 1 } : MoveCursor(delta)
  \/ RecallPrev \/ RecallNext
  \/ \E answer \in Answers : Submit(answer)

----------------------------------------------------------------------------
\* While browsing, the input line is the entry that many submissions back.
RecallInOrder == browse >= 0 => text = typed[Len(typed) - browse]
\* Nothing the ring still holds is out of reach.
AllRecallable == pastCount = (IF Len(typed) < HistoryMax THEN Len(typed) ELSE HistoryMax)

\* console_output_draw: row i of the pane, from the top.
Shown == IF outCount < VisibleRows THEN outCount ELSE VisibleRows
ShownRow(i) == out[(outNext - 1 - (Shown - 1 - i) + 2 * OutputMax) % OutputMax]
ShowsLatest ==
  /\ Shown <= Len(printed)
  /\ \A i \in 0 .. Shown - 1 : ShownRow(i) = printed[Len(printed) - (Shown - 1 - i)]

(* Past the point where either ring has wrapped, Up and Down walk the      *)
(* lines in the order they were submitted, the oldest and the newest       *)
(* included, and the pane shows the latest output in order                 *)
(* (console_history.c, console_output.c).                                  *)
ConsoleInOrder == RecallInOrder /\ AllRecallable /\ ShowsLatest
=============================================================================
