------------------------------- MODULE Editor -------------------------------
(***************************************************************************)
(* The line editor and the history (src/src/line_editor.c, src/src/shell.c): *)
(* one interactive shell whose user presses keys, the history it loads at    *)
(* its start and writes at its end, and another shell of the same user that  *)
(* shares the history file.  The editor is one loop of one thread; a key is  *)
(* an action.  What it keeps from key to key (the draft, the undo snapshot,  *)
(* the kill buffer, the place in the history) outlives the keys in between.  *)
(*                                                                          *)
(* A text is a sequence of one-character strings.  Drawing, and the          *)
(* suggestion in grey that is part of it, are left out.                      *)
(***************************************************************************)
EXTENDS Integers, Sequences, FiniteSets, SequencesExt

CONSTANTS
  Char,         \* the characters
  Typed,        \* the characters the user types
  Files,        \* what the history file may hold at first
  Candidates,   \* the commands and files that completion offers
  OtherEntries, \* what the other shell is told to run
  MaxLine,      \* ARKSH_MAX_LINE - 1: the longest line, and history entry
  MaxMulti,     \* ARKSH_MAX_OUTPUT - 1: the longest command of several lines
  MaxHistory,   \* ARKSH_MAX_HISTORY
  MaxKeys,      \* bound on the keys pressed
  MaxStarts     \* bound on the shells the user starts, one after the other

NL == "\n"
Text == Seq(Char)

ASSUME EditorAssumption ==
  /\ MaxLine \in Nat \ {0} /\ MaxMulti \in Nat /\ MaxLine <= MaxMulti
  /\ MaxHistory \in Nat \ {0} /\ MaxKeys \in Nat /\ MaxStarts \in Nat
  /\ {" ", ";", NL} \subseteq Char /\ Typed \subseteq Char \ {NL}
  /\ Files \subseteq Text /\ Candidates \subseteq Text /\ OtherEntries \subseteq Text

VARIABLES
  phase,    \* "off", "edit", "search", "exit" (leaving), "open" (file truncated)
  line, cursor, multi, cont,   \* the line, the lines before it, in_continuation
  index, scratch,              \* history_index, history_scratch
  undo,                        \* the undo snapshot <<line, cursor>>, or <<>>
  kill,                        \* s_kill_buf
  search,                      \* [query, match] of the reverse search; match 0: none
  history, dirty,              \* shell->history, shell->history_dirty
  file,                        \* the text of the history file
  other,                       \* the other shell: [kind, phase, history]
  keys, starts,                \* the bounds' counters
  draft,    \* ghost: <<the line Up left>> while the history is shown, or <<>>
  wanted,   \* ghost: every command entered, after the history found at the start
  saved     \* ghost: <<what the last whole save wrote>>, or <<>>

editing == <<line, cursor, multi, cont, index, scratch, undo, kill, search, draft>>
memory  == <<history, dirty, wanted>>
disk    == <<file, saved>>
vars    == <<phase, editing, memory, disk, other, keys, starts>>

-----------------------------------------------------------------------------
(* History entries *)

IsSpace(c) == c \in {" ", NL}

\* trim_copy
Trim(t) ==
  LET P == {i \in DOMAIN t : ~IsSpace(t[i])}
  IN  IF P = {} THEN <<>>
      ELSE SubSeq(t, CHOOSE i \in P : \A k \in P : i <= k, CHOOSE i \in P : \A k \in P : k <= i)

Cut(t, n) == SubSeq(t, 1, n)

\* normalize_history_entry: a run of newlines becomes " ; "
Spaced(out) == IF out # <<>> /\ Last(out) # " " THEN Append(out, " ") ELSE out
Joining(s, t, i) ==
  IF s.end \/ Len(s.out) >= MaxLine THEN [s EXCEPT !.end = TRUE]
  ELSE IF t[i] # NL THEN [s EXCEPT !.out = Append(@, t[i])]
  ELSE IF i > 1 /\ t[i - 1] = NL THEN s
  ELSE IF Len(Spaced(s.out)) + 2 > MaxLine THEN [out |-> Spaced(s.out), end |-> TRUE]
  ELSE [s EXCEPT !.out = Spaced(@) \o <<";", " ">>]
Normalized(t) ==
  LET join[i \in 0 .. Len(t)] ==
        IF i = 0 THEN [out |-> <<>>, end |-> FALSE] ELSE Joining(join[i - 1], t, i)
  IN  Trim(join[Len(t)].out)

\* trim_trailing_newlines
WithoutNewlines(t) ==
  LET P == {i \in DOMAIN t : t[i] # NL}
  IN  IF P = {} THEN <<>> ELSE Cut(t, CHOOSE i \in P : \A k \in P : k <= i)

EntryOf(t) == Normalized(WithoutNewlines(Cut(t, IF Len(t) < MaxLine THEN Len(t) ELSE MaxLine)))

\* is_blank_or_comment_line, of a trimmed entry
IsBlank(e) == e = <<>> \/ e[1] = "#"

\* Mutant: a full history keeps its oldest entries.
AddKeepsOldest(h, t) ==
  IF IsBlank(EntryOf(t)) \/ (h # <<>> /\ Last(h) = EntryOf(t)) \/ Len(h) >= MaxHistory THEN h
  ELSE Append(h, EntryOf(t))

\* arksh_shell_history_add
Added(h, t) ==
  IF IsBlank(EntryOf(t)) \/ (h # <<>> /\ Last(h) = EntryOf(t)) THEN h
  ELSE Append(IF Len(h) >= MaxHistory THEN Tail(h) ELSE h, EntryOf(t))

\* load_history: every line that fgets returns, with a buffer of ARKSH_MAX_LINE, and
\* what is left at the end
Read(s, c) ==
  LET t == Append(s.line, c)
  IN  IF c = NL \/ Len(t) = MaxLine
      THEN [history |-> Added(s.history, WithoutNewlines(t)), line |-> <<>>]
      ELSE [s EXCEPT !.line = t]
Loaded(f) ==
  LET read[i \in 0 .. Len(f)] ==
        IF i = 0 THEN [history |-> <<>>, line |-> <<>>] ELSE Read(read[i - 1], f[i])
  IN  Added(read[Len(f)].history, WithoutNewlines(read[Len(f)].line))

\* save_history: what is written, and the file after it, written at its start
Written(h) ==
  LET text[k \in 0 .. Len(h)] == IF k = 0 THEN <<>> ELSE text[k - 1] \o h[k] \o <<NL>>
  IN  text[Len(h)]
Over(f, g) == f \o SubSeq(g, Len(f) + 1, Len(g))

-----------------------------------------------------------------------------
(* Lines *)

\* The text before and the text after the cursor k
Before(t, k) == SubSeq(t, 1, k)
After(t, k)  == SubSeq(t, k + 1, Len(t))

\* word_backward, word_forward
WordBackward(t, k) ==
  LET W == {i \in 1 .. k : ~IsSpace(t[i]) /\ (i = 1 \/ IsSpace(t[i - 1]))}
  IN  IF W = {} THEN 0 ELSE (CHOOSE i \in W : \A j \in W : j <= i) - 1
WordForward(t, k) ==
  LET W == {i \in k + 2 .. Len(t) : ~IsSpace(t[i]) /\ IsSpace(t[i - 1])}
  IN  IF W = {} THEN Len(t) ELSE (CHOOSE i \in W : \A j \in W : i <= j) - 1

\* find_token_start
TokenStart(t, k) ==
  LET D == {i \in 1 .. k : t[i] \in {" ", ";", "(", ")"}}
  IN  IF D = {} THEN 0 ELSE CHOOSE i \in D : \A j \in D : j <= i

\* command_requires_more_input.  The parser is not part of this module: open and
\* closing parentheses stand for all that opens and closes a compound command.
Opened(t) == Cardinality({i \in DOMAIN t : t[i] = "("})
Closed(t) == Cardinality({i \in DOMAIN t : t[i] = ")"})
NeedsMore(t) == Opened(t) > Closed(t)
IsError(t)   == Opened(t) < Closed(t)

-----------------------------------------------------------------------------
(* Keys.  One that changes nothing is no step. *)

NoSearch == [query |-> <<>>, match |-> 0]

\* read_key has turned the bytes of the terminal into a key.  A resize changes no
\* state; one in the middle of an escape sequence leaves the rest of it to be
\* read as Insert keys, and a sequence that is not known is a ReadError.
Press(p) ==
  /\ phase = p
  /\ keys < MaxKeys
  /\ keys' = keys + 1
  /\ UNCHANGED <<disk, other, starts>>

\* A key that changes the line and, first, takes the undo snapshot
Modifies(l, c) ==
  /\ Press("edit")
  /\ line' = l /\ cursor' = c
  /\ undo' = <<line, cursor>>
  /\ UNCHANGED <<phase, multi, cont, index, scratch, search, draft, memory>>

Insert(c) ==
  /\ Len(line) < MaxLine
  /\ Modifies(Before(line, cursor) \o <<c>> \o After(line, cursor), cursor + 1)
  /\ UNCHANGED kill

Backspace ==
  /\ cursor > 0
  /\ Modifies(Before(line, cursor - 1) \o After(line, cursor), cursor - 1)
  /\ UNCHANGED kill

Delete ==
  /\ cursor < Len(line)
  /\ Modifies(Before(line, cursor) \o After(line, cursor + 1), cursor)
  /\ UNCHANGED kill

\* Ctrl-K, Ctrl-U and Ctrl-W
KillToEnd ==
  /\ cursor < Len(line)
  /\ Modifies(Before(line, cursor), cursor)
  /\ kill' = After(line, cursor)

KillBackTo(k) ==
  /\ cursor > 0
  /\ Modifies(Before(line, k) \o After(line, cursor), k)
  /\ kill' = SubSeq(line, k + 1, cursor)

KillLine == KillBackTo(0)
KillWord == KillBackTo(WordBackward(line, cursor))

Yank ==
  /\ kill # <<>> /\ Len(line) + Len(kill) <= MaxLine
  /\ Modifies(Before(line, cursor) \o kill \o After(line, cursor), cursor + Len(kill))
  /\ UNCHANGED kill

\* Ctrl-_: there is one snapshot
Undo ==
  /\ undo # <<>>
  /\ Press("edit")
  /\ line' = undo[1] /\ cursor' = undo[2]
  /\ undo' = <<>>
  /\ UNCHANGED <<phase, multi, cont, index, scratch, kill, search, draft, memory>>

\* Ctrl-A, Ctrl-E, the arrows and their word forms
MoveTo(k) ==
  /\ k # cursor
  /\ Press("edit")
  /\ cursor' = k
  /\ UNCHANGED <<phase, line, multi, cont, index, scratch, undo, kill, search, draft, memory>>

Move ==
  \E k \in {0, Len(line), WordBackward(line, cursor), WordForward(line, cursor)}
           \cup ({cursor - 1, cursor + 1} \cap (0 .. Len(line))) : MoveTo(k)

\* handle_completion and replace_range; no snapshot is taken.  The candidates are
\* those of one context; the members of an object are left out.
Complete ==
  LET start  == TokenStart(line, cursor)
      prefix == SubSeq(line, start + 1, cursor)
      found  == {w \in Candidates : IsPrefix(prefix, w)}
      only   == CHOOSE w \in found : TRUE
      text   == IF Cardinality(found) = 1 THEN IF Last(only) = "/" THEN only ELSE Append(only, " ")
                ELSE LongestCommonPrefix(found)
  IN
  /\ found # {}
  /\ Cardinality(found) = 1 \/ Len(text) > Len(prefix)
  /\ start + Len(text) + Len(line) - cursor <= MaxLine
  /\ Press("edit")
  /\ line' = Before(line, start) \o text \o After(line, cursor)
  /\ cursor' = start + Len(text)
  /\ UNCHANGED <<phase, multi, cont, index, scratch, undo, kill, search, draft, memory>>

\* apply_history_entry
Shows(t, i) == line' = t /\ cursor' = Len(t) /\ index' = i

\* Mutant: every Up saves the line it leaves.
UpSavesAlways ==
  /\ ~cont /\ index > 0
  /\ Press("edit")
  /\ scratch' = line
  /\ draft' = IF index = Len(history) THEN <<line>> ELSE draft
  /\ Shows(history[index], index - 1)
  /\ UNCHANGED <<phase, multi, cont, undo, kill, search, memory>>

\* navigate_history
Up ==
  /\ ~cont /\ index > 0
  /\ Press("edit")
  /\ scratch' = IF index = Len(history) THEN line ELSE scratch
  /\ draft' = IF index = Len(history) THEN <<line>> ELSE draft
  /\ Shows(history[index], index - 1)
  /\ UNCHANGED <<phase, multi, cont, undo, kill, search, memory>>

Down ==
  /\ ~cont /\ index < Len(history)
  /\ Press("edit")
  /\ Shows(IF index + 1 = Len(history) THEN scratch ELSE history[index + 2], index + 1)
  /\ draft' = IF index + 1 = Len(history) THEN <<>> ELSE draft
  /\ UNCHANGED <<phase, multi, cont, scratch, undo, kill, search, memory>>

-----------------------------------------------------------------------------
(* The end of a line *)

\* arksh_line_editor_read_line starts with nothing but the kill buffer
FreshLine(h) ==
  /\ line' = <<>> /\ cursor' = 0 /\ multi' = <<>> /\ cont' = FALSE
  /\ index' = Len(h) /\ scratch' = <<>>
  /\ undo' = <<>> /\ search' = NoSearch /\ draft' = <<>>

\* arksh_shell_run_repl with the text t: a command that is no syntax error goes to
\* the history and runs; it may end the shell.
Accept(t) ==
  LET runs == t # <<>> /\ ~IsError(t)
      h    == IF runs THEN Added(history, t) ELSE history
  IN
  /\ history' = h
  /\ dirty' = (dirty \/ h # history)
  /\ wanted' = IF runs /\ ~IsBlank(EntryOf(t)) THEN Append(wanted, EntryOf(t)) ELSE wanted
  /\ \/ phase' = "edit"
     \/ runs /\ phase' = "exit"
  /\ FreshLine(h)
  /\ UNCHANGED kill

\* The lines before, and the line l: dropped when it does not fit
Joined(l) ==
  LET m == IF multi # <<>> /\ Len(multi) < MaxMulti THEN Append(multi, NL) ELSE multi
  IN  IF Len(m) + Len(l) <= MaxMulti THEN m \o l ELSE m

\* Enter with the line l: the next line of the same command, or its end
Ends(l) ==
  LET m == Joined(l)
  IN  \/ /\ NeedsMore(m)
         /\ phase' = "edit" /\ multi' = m /\ cont' = TRUE
         /\ line' = <<>> /\ cursor' = 0
         /\ index' = Len(history) /\ scratch' = <<>>
         /\ search' = NoSearch /\ draft' = <<>>
         /\ UNCHANGED <<undo, kill, memory>>
      \/ ~NeedsMore(m) /\ Accept(m)

Enter == Press("edit") /\ Ends(line)

\* Ctrl-C
Interrupt == Press("edit") /\ Accept(<<>>)

\* Ctrl-D on the first line, when it is empty, and on a later one
EndOfFile ==
  /\ line = <<>> /\ multi = <<>>
  /\ Press("edit")
  /\ phase' = "exit"
  /\ UNCHANGED <<editing, memory>>

SubmitMulti ==
  /\ multi # <<>>
  /\ Press("edit")
  /\ Accept(multi)

\* A read error, and what read_key takes for one: an escape sequence it does not
\* know.  The REPL returns.
ReadError ==
  /\ Press("edit")
  /\ phase' = "exit"
  /\ UNCHANGED <<editing, memory>>

-----------------------------------------------------------------------------
(* Reverse search *)

Has(e, q) == \E i \in 1 .. Len(e) - Len(q) + 1 : SubSeq(e, i, i + Len(q) - 1) = q

\* find_history_match among the first n entries
Match(q, n) ==
  LET M == {i \in 1 .. n : q # <<>> /\ Has(history[i], q)}
  IN  IF M = {} THEN 0 ELSE CHOOSE i \in M : \A k \in M : k <= i

Search ==
  /\ ~cont
  /\ Press("edit")
  /\ phase' = "search"
  /\ search' = NoSearch
  /\ UNCHANGED <<line, cursor, multi, cont, index, scratch, undo, kill, draft, memory>>

\* The query becomes q, and m its match
Looks(q, m) ==
  /\ Press("search")
  /\ search' = [query |-> q, match |-> m]
  /\ UNCHANGED <<phase, line, cursor, multi, cont, index, scratch, undo, kill, draft, memory>>

SearchType(c) ==
  LET q == Append(search.query, c)
  IN  Len(q) <= MaxLine /\ Looks(q, Match(q, Len(history)))

SearchErase ==
  LET q == Front(search.query)
  IN  search.query # <<>> /\ Looks(q, Match(q, Len(history)))

\* Ctrl-R again: the next older match, if there is one
SearchAgain ==
  LET m == Match(search.query, search.match - 1)
  IN  search.match > 0 /\ m > 0 /\ Looks(search.query, m)

\* A key that is none of the search's shows the match and goes on editing; the line
\* it replaces is not kept.
SearchAccept ==
  /\ Press("search")
  /\ phase' = "edit"
  /\ search' = NoSearch
  /\ IF search.match = 0 THEN UNCHANGED <<line, cursor, index>>
     ELSE Shows(history[search.match], search.match - 1)
  /\ UNCHANGED <<multi, cont, scratch, undo, kill, draft, memory>>

SearchCancel ==
  /\ Press("search")
  /\ phase' = "edit"
  /\ search' = NoSearch
  /\ UNCHANGED <<line, cursor, multi, cont, index, scratch, undo, kill, draft, memory>>

SearchEnter ==
  /\ Press("search")
  /\ Ends(IF search.match = 0 THEN line ELSE history[search.match])

-----------------------------------------------------------------------------
(* The shell and the history file *)

\* A process that is gone keeps nothing.
Gone ==
  /\ phase' = "off"
  /\ FreshLine(<<>>) /\ kill' = <<>>
  /\ history' = <<>> /\ dirty' = FALSE /\ wanted' = <<>>
  /\ UNCHANGED <<other, keys, starts>>

Start ==
  /\ phase = "off" /\ starts < MaxStarts
  /\ phase' = "edit"
  /\ starts' = starts + 1
  /\ history' = Loaded(file) /\ dirty' = FALSE
  /\ wanted' = IF saved = <<>> THEN Loaded(file) ELSE saved[1]
  /\ FreshLine(Loaded(file)) /\ kill' = <<>>
  /\ UNCHANGED <<disk, other, keys>>

\* save_history: nothing new, or the file cannot be opened ...
NotSaved ==
  /\ phase = "exit"
  /\ Gone
  /\ UNCHANGED disk

\* ... or it is truncated, and written when it is closed.
Truncate ==
  /\ phase = "exit" /\ dirty
  /\ phase' = "open"
  /\ file' = <<>> /\ saved' = <<>>
  /\ UNCHANGED <<editing, memory, other, keys, starts>>

Flush(h) ==
  /\ file' = Over(Written(h), file)
  /\ saved' = IF file = <<>> THEN <<h>> ELSE <<>>

Write == phase = "open" /\ Flush(history) /\ Gone

\* The terminal or the machine goes away.
Killed == phase # "off" /\ Gone /\ UNCHANGED disk

\* Another shell of the user.  Only an interactive one loads the history; each adds
\* to it the command t it runs.
OtherIs(o) == other' = o /\ UNCHANGED <<phase, editing, memory, keys, starts>>

OtherRuns(kind, t) ==
  LET h == IF kind = "interactive" THEN Loaded(file) ELSE <<>>
  IN
  /\ other.phase = "none"
  /\ Added(h, t) # h
  /\ OtherIs([kind |-> kind, phase |-> "run", history |-> Added(h, t)])
  /\ UNCHANGED disk

OtherTruncates ==
  /\ other.phase = "run"
  /\ OtherIs([other EXCEPT !.phase = "open"])
  /\ file' = <<>> /\ saved' = <<>>

NoOther == [kind |-> "interactive", phase |-> "none", history |-> <<>>]
OtherEnded == [NoOther EXCEPT !.phase = "gone"]

OtherWrites ==
  /\ other.phase = "open"
  /\ Flush(other.history)
  /\ OtherIs(OtherEnded)

OtherKilled ==
  /\ other.phase \in {"run", "open"}
  /\ OtherIs(OtherEnded)
  /\ UNCHANGED disk

-----------------------------------------------------------------------------
Init ==
  /\ phase = "off"
  /\ line = <<>> /\ cursor = 0 /\ multi = <<>> /\ cont = FALSE
  /\ index = 0 /\ scratch = <<>> /\ undo = <<>> /\ kill = <<>>
  /\ search = NoSearch /\ draft = <<>>
  /\ history = <<>> /\ dirty = FALSE /\ wanted = <<>>
  /\ file \in Files /\ saved = <<>>
  /\ other = NoOther
  /\ keys = 0 /\ starts = 0

Editing ==
  \/ \E c \in Typed : Insert(c)
  \/ Backspace \/ Delete \/ KillToEnd \/ KillLine \/ KillWord \/ Yank \/ Undo
  \/ Move \/ Complete \/ Up \/ Down

Ending == Enter \/ Interrupt \/ EndOfFile \/ SubmitMulti \/ ReadError

Searching ==
  \/ Search
  \/ \E c \in Typed : SearchType(c)
  \/ SearchErase \/ SearchAgain \/ SearchAccept \/ SearchCancel \/ SearchEnter

Shells ==
  \/ Start \/ NotSaved \/ Truncate \/ Write \/ Killed
  \/ \E k \in {"interactive", "piped"}, t \in OtherEntries : OtherRuns(k, t)
  \/ OtherTruncates \/ OtherWrites \/ OtherKilled

Next == Editing \/ Ending \/ Searching \/ Shells

Spec == Init /\ [][Next]_vars

-----------------------------------------------------------------------------
(* Properties *)

\* What is left of a sequence when an entry equal to the one before it is dropped
Deduped(s) ==
  LET kept[i \in 0 .. Len(s)] ==
        IF i = 0 THEN <<>>
        ELSE IF i > 1 /\ s[i] = s[i - 1] THEN kept[i - 1] ELSE Append(kept[i - 1], s[i])
  IN  kept[Len(s)]

Newest(s, n) == SubSeq(s, IF Len(s) > n THEN Len(s) - n + 1 ELSE 1, Len(s))

\* The history is what the last shell to end wrote, followed by every command
\* entered since, without the repetitions, and cut to the newest entries: through
\* the limit, the joining of lines, the file and its reading back, whichever shell
\* wrote it, unless two of them wrote at once or one died while writing
\* (shell.c:7709, shell.c:7742, shell.c:7764).
HistoryExact ==
  phase \in {"edit", "search"} => history = Newest(Deduped(wanted), MaxHistory)

\* The line that was being typed when Up left it is there again when Down comes
\* back to it, whatever was looked at, edited or searched for in between
\* (line_editor.c:1438).
DraftReturns ==
  [][Down /\ draft # <<>> /\ index' = Len(history) => line' = draft[1]]_vars

\* docs/benchmarks-baseline.md:274: a shell that reads piped input never writes the
\* history (shell.c:14518, shell.c:7764).
PipedNeverWrites ==
  [][other' # other /\ other.kind = "piped" => file' = file]_vars
=============================================================================
