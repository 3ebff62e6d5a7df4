----------------------------- MODULE CommandLine ----------------------------
(***************************************************************************)
(* The line editor of shell.c, with its history, on the screen of Screen.  *)
(*                                                                         *)
(* A key is an interrupt and its handler runs to the end, so each key is   *)
(* an action.  The editor is not alone on the screen: commands print,      *)
(* programs print while they run and some after the shell has its prompt   *)
(* back, and finalize_command is called from the system calls of other     *)
(* processes whenever one of them is reaped and run_pid is empty.          *)
(*                                                                         *)
(* The editor is a value sh with the globals of shell.c, the screen and    *)
(* the buffers mem_alloc has given out; history has pointers to those.     *)
(* What a command does is reduced to what it prints, the programs it       *)
(* starts and the prompt it leads to.                                      *)
(***************************************************************************)
EXTENDS Screen, FiniteSets, FiniteSetsExt, Functions

CONSTANTS
  BUFFER_SIZE,    \* buffer_size (128)
  HISTORY_SIZE,   \* history_size (100)
  Chars,          \* characters that are typed
  Outputs,        \* what a command may print
  SPLASH,         \* what splash_screen prints
  Prompts,        \* the prompts, by the path in them
  Prints,         \* characters programs print
  MAX_RUN,        \* bound on the programs of the shell that run at a time
  MAX_FAMILY,     \* bound on the processes that Ctrl-C kills
  MAX_INPUTS,     \* bound on characters typed or printed by programs, and
                  \* prompts, together
  INTERRUPTED,    \* what Ctrl-C prints
  Careful         \* see Fits and Overwrites

VARIABLES
  sh,         \* the editor
  path,       \* the prompt of the current directory
  run_pid,    \* number of programs in the list run_pid
  inputs,     \* the number of these characters, and
  prompts,    \* of prompts so far
  launched,   \* whether a program was started: others may descend from it
  shown       \* history variable: the editor has the cells behind its prompt
              \* for itself

vars == <<sh, path, run_pid, inputs, prompts, launched, shown>>

ASSUME EditorAssumption ==
  /\ BUFFER_SIZE \in Nat \ {0} /\ HISTORY_SIZE \in Nat \ {0, 1}
  /\ BUFFER_SIZE + SCREEN_WIDTH <= CELLS
  /\ MAX_RUN \in Nat /\ MAX_FAMILY \in Nat /\ MAX_INPUTS \in Nat
  /\ Careful \in BOOLEAN
  /\ Chars \cap {NUL, NL, TAB, BS, DEL} = {}    \* keys of their own

\* The strings that are printed have no backspace, but for what commands print.
ASSUME TextAssumption ==
  /\ Prompts # {}
  /\ \A cs \in Prompts \cup {SPLASH, INTERRUPTED} :
       cs \in Seq(STRING) /\ \A i \in 1..Len(cs) : cs[i] # BS

Places == 0..(BUFFER_SIZE - 1)
Buffers == 1..(HISTORY_SIZE + 1)
EMPTY == [i \in Places |-> NUL]    \* str_fill with '\0'

\* A string ends before its first '\0'.
str_length(b) == Min({i \in Places : b[i] = NUL})
String(b) == [k \in 1..str_length(b) |-> b[k - 1]]
str_copy(source, dest) ==
  [i \in Places |-> IF i <= str_length(source) THEN source[i] ELSE dest[i]]

\* The buffer of entry k of the history, and of the line that is edited.
Entry(s, k) == s.heap[s.history[k]]
Line(s) == Entry(s, s.history_pos)
SetLine(s, b) == [s EXCEPT !.heap[s.history[s.history_pos]] = b]

-----------------------------------------------------------------------------
\* Cursor and echo.

set_pos(s) == [s EXCEPT !.screen = set_cursor_pos(@, s.start_of_command + s.pos)]

update_max_length(s) ==
  [s EXCEPT !.max_length = IF s.length > @ THEN s.length ELSE @]

\* Mutant of Fit: the cell behind the line is forgotten.
FitLate(s) ==
  IF s.start_of_command + s.length > CELLS
  THEN [s EXCEPT !.screen = scroll(@), !.start_of_command = @ - SCREEN_WIDTH]
  ELSE s

\* "Take care of the scrolling": one line up, if the line and the cursor
\* behind it do not fit on the screen.
Fit(s) ==
  IF s.start_of_command + s.length >= CELLS
  THEN [s EXCEPT !.screen = scroll(@), !.start_of_command = @ - SCREEN_WIDTH]
  ELSE s

\* echo_command: blanks over all cells the line ever took, then the line.
Echoed(s, text) ==
  write_string(set_cursor_pos(s.screen, s.start_of_command), text)
echo_command(s) ==
  LET blanked == [s EXCEPT !.screen =
                    Echoed(s, String([s.blank_command EXCEPT ![s.max_length] = NUL])),
                           !.blank_command[s.max_length] = SP]
  IN  set_pos([blanked EXCEPT !.screen = Echoed(blanked, String(Line(s)))])

-----------------------------------------------------------------------------
\* Characters.

\* A character at the cursor; the rest of the line moves by one.
Inserted(s, c) ==
  [SetLine(s, [i \in Places |-> IF i = s.pos THEN c
                                ELSE IF i \in (s.pos + 1)..s.length THEN Line(s)[i - 1]
                                ELSE Line(s)[i]])
     EXCEPT !.pos = @ + 1, !.length = @ + 1]

\* The character at the cursor goes.
Deleted(s) ==
  [SetLine(s, [i \in Places |-> IF i \in s.pos..(s.length - 1) THEN Line(s)[i + 1]
                                ELSE Line(s)[i]])
     EXCEPT !.length = IF s.pos < s.length THEN @ - 1 ELSE @]

\* Entry k of the history becomes the line.
Recalled(s, k) ==
  LET n == str_length(Entry(s, k))
  IN  Fit(update_max_length([s EXCEPT !.history_pos = k, !.pos = n, !.length = n]))

-----------------------------------------------------------------------------
\* finalize_command.

\* Mutant of Shifted: the oldest entry is freed but keeps its place.
ShiftedNot(s) ==
  [s EXCEPT !.heap = [b \in DOMAIN @ \ {s.history[0]} |-> @[b]],
            !.history_pos = s.history_length]

\* A full history loses its oldest entry.
Shifted(s) ==
  [s EXCEPT !.heap = [b \in DOMAIN @ \ {s.history[0]} |-> @[b]],
            !.history = [k \in DOMAIN @ |-> IF k = HISTORY_SIZE - 1 THEN @[k] ELSE @[k + 1]],
            !.history_pos = s.history_length]

\* Mutant of Kept: the history does not grow.
KeptNot(s) ==
  [s EXCEPT !.heap[s.history[s.history_length]] = str_copy(Line(s), @),
            !.history_pos = s.history_length]

\* Otherwise the line that was entered is copied to its end.
Kept(s) ==
  [s EXCEPT !.heap[s.history[s.history_length]] = str_copy(Line(s), @),
            !.history_length = @ + 1,
            !.history_pos = s.history_length + 1]

\* mem_alloc of a buffer for the next line, filled with '\0'.
NewLine(s) ==
  LET new == Min(Buffers \ DOMAIN s.heap)
  IN  [s EXCEPT !.heap = [b \in DOMAIN @ \cup {new} |-> IF b = new THEN EMPTY ELSE @[b]],
                !.history[s.history_pos] = new]

Prompted(s, prompt) == [s EXCEPT !.screen = write_string(@, prompt)]
Started(s) == [s EXCEPT !.pos = 0, !.length = 0, !.max_length = 0,
                        !.start_of_command = s.screen.cursor]

\* finalize_command, once no program of the shell runs any more.
finalize_command(s, prompt) ==
  Started(NewLine(IF s.history_length = HISTORY_SIZE - 1
                  THEN Shifted(Prompted(s, prompt)) ELSE Kept(Prompted(s, prompt))))

\* Copying a line over a longer one leaves the end of that one behind the
\* '\0', where a character that is typed later meets it again.  Careful users
\* do not enter a recalled line that is shorter than what they had typed.
Overwrites(s) ==
  /\ s.history_length < HISTORY_SIZE - 1
  /\ str_length(Line(s)) < str_length(Entry(s, s.history_length))

\* finalize_command, n times in a row.
Finalizes(s, prompt, n) ==
  LET after[k \in 0..n] ==
        IF k = 0 THEN s ELSE finalize_command(after[k - 1], prompt)
  IN  after[n]

\* What follows a command or the end of a program: new prompts, or nothing as
\* long as a program of the shell runs.
Reprompted(s, prompt, n) ==
  /\ Careful => ~Overwrites(s)
  /\ inputs + prompts + n <= MAX_INPUTS /\ prompts' = prompts + n
  /\ sh' = Finalizes(s, prompt, n) /\ shown' = TRUE
  /\ UNCHANGED inputs
Finalized(s, prompt) == Reprompted(s, prompt, 1)
Deferred(s) ==
  /\ Careful => ~Overwrites(s)
  /\ sh' = s /\ shown' = FALSE /\ UNCHANGED <<inputs, prompts>>

-----------------------------------------------------------------------------
\* Keys.  While a program of the shell runs only Ctrl-C is looked at.

\* The model ends when the prompt has left the screen: it never comes back.
Visible == sh.start_of_command < CELLS
Editing == run_pid = 0 /\ Visible

\* A key of the editor that leaves it as s.
Key(s) == sh' = s /\ UNCHANGED <<path, run_pid, prompts, launched, shown>>
Edit(s) == Key(s) /\ UNCHANGED inputs

\* One more character.
Counted == inputs + prompts < MAX_INPUTS /\ inputs' = inputs + 1

\* shell_write_char
Type(c) ==
  /\ Editing /\ Counted
  /\ Key(echo_command(IF sh.length < BUFFER_SIZE - 1
                      THEN Fit(update_max_length(Inserted(sh, c))) ELSE sh))
Backspace ==
  Editing /\ sh.pos > 0 /\ Edit(echo_command(Deleted([sh EXCEPT !.pos = @ - 1])))
Delete == Editing /\ Edit(echo_command(Deleted(sh)))

shell_home == Editing /\ Edit(set_pos([sh EXCEPT !.pos = 0]))
shell_end == Editing /\ Edit(set_pos([sh EXCEPT !.pos = sh.length]))
shell_left ==
  Editing /\ Edit(set_pos([sh EXCEPT !.pos = IF @ > 0 THEN @ - 1 ELSE @]))
shell_right ==
  Editing /\ Edit(set_pos([sh EXCEPT !.pos =
    IF @ < BUFFER_SIZE - 1 /\ Line(sh)[@] # NUL THEN @ + 1 ELSE @]))

\* shell_up and shell_down.  One line is all they scroll.  A line that still
\* does not fit is written over the end of the screen, and the newline behind
\* it takes the cursor off the screen for good.
Fits(s) == s.start_of_command + s.length < CELLS
Recall(k) ==
  /\ Editing
  /\ Careful => Fits(Recalled(sh, k))
  /\ Edit(echo_command(Recalled(sh, k)))
shell_up == sh.history_pos > 0 /\ Recall(sh.history_pos - 1)
shell_down == sh.history_pos < sh.history_length /\ Recall(sh.history_pos + 1)

\* The commands (send_command): what they print, or the programs they start.
\* A line of spaces is none.
Words(s) == \E c \in Range(String(Line(s))) : c # SP
Entered == write_char(set_cursor_pos(sh.screen, sh.start_of_command + sh.length), NL)

\* A line without words, and a command that prints.
EnterNothing ==
  /\ Editing /\ ~Words(sh)
  /\ Finalized([sh EXCEPT !.screen = Entered], path)
  /\ UNCHANGED <<path, run_pid, launched>>
EnterPrints(out) ==
  /\ Editing /\ Words(sh)
  /\ Finalized([sh EXCEPT !.screen = write_string(Entered, out)], path)
  /\ UNCHANGED <<path, run_pid, launched>>
EnterSplash ==
  /\ Editing /\ Words(sh)
  /\ Finalized([sh EXCEPT !.screen = write_string(clear(Entered), SPLASH)], path)
  /\ UNCHANGED <<path, run_pid, launched>>
EnterCd(to) ==
  /\ Editing /\ Words(sh)
  /\ Finalized([sh EXCEPT !.screen = Entered], to)
  /\ path' = to
  /\ UNCHANGED <<run_pid, launched>>
EnterRun(n) ==
  /\ Editing /\ Words(sh)
  /\ Deferred([sh EXCEPT !.screen = Entered])
  /\ run_pid' = n /\ launched' = TRUE
  /\ UNCHANGED path

\* keyboard_shell_handler, Ctrl-C: a program is taken off the list, and
\* kill_family ends it with the family of n processes it has.  Each of them
\* goes through resolve_exit_wait, and once the list is empty each is another
\* finalize_command.
CtrlC(n) ==
  LET s == [sh EXCEPT !.screen = write_string(@, INTERRUPTED)]
  IN  /\ run_pid > 0
      /\ run_pid' = run_pid - 1
      /\ IF run_pid = 1 THEN Reprompted(s, path, n) ELSE Deferred(s)
      /\ UNCHANGED <<path, launched>>

-----------------------------------------------------------------------------
\* Programs.

\* resolve_exit_wait of a program of the shell.
Reap ==
  /\ run_pid > 0
  /\ run_pid' = run_pid - 1
  /\ IF run_pid = 1 THEN Finalized(sh, path) ELSE Deferred(sh)
  /\ UNCHANGED <<path, launched>>

\* resolve_exit_wait of any other process: with run_pid empty the shell
\* starts a new line, whatever the user is about to type.
ReapOther ==
  /\ launched /\ Visible
  /\ IF run_pid = 0 THEN Finalized(sh, path) ELSE Deferred(sh)
  /\ UNCHANGED <<path, run_pid, launched>>

\* One character of any program.
syscall_printf(c) ==
  /\ launched /\ Visible /\ sh.screen.cursor < CELLS
  /\ sh' = [sh EXCEPT !.screen = write_char(@, c)]
  /\ Counted
  /\ shown' = FALSE
  /\ UNCHANGED <<path, run_pid, prompts, launched>>

-----------------------------------------------------------------------------
\* shell_install
Installed(screen) ==
  [screen |-> screen, blank_command |-> [i \in Places |-> IF i = 0 THEN SP ELSE NUL],
   pos |-> 0, length |-> 0, max_length |-> 0, start_of_command |-> screen.cursor,
   history |-> [k \in 0..(HISTORY_SIZE - 1) |-> IF k = 0 THEN 1 ELSE 0],
   history_length |-> 0, history_pos |-> 0, heap |-> [b \in {1} |-> EMPTY]]

\* The prompt with the path "/".
Root == CHOOSE p \in Prompts : \A q \in Prompts : Len(p) <= Len(q)

Init ==
  /\ path = Root
  /\ sh = Installed(write_string(write_string(clear(Blank), SPLASH), path))
  /\ run_pid = 0 /\ inputs = 0 /\ prompts = 0 /\ launched = FALSE /\ shown = TRUE

Next ==
  \/ \E c \in Chars : Type(c)
  \/ Backspace \/ Delete
  \/ shell_home \/ shell_end \/ shell_left \/ shell_right
  \/ shell_up \/ shell_down
  \/ EnterNothing
  \/ \E out \in Outputs : EnterPrints(out)
  \/ EnterSplash
  \/ \E to \in Prompts : EnterCd(to)
  \/ \E n \in 1..MAX_RUN : EnterRun(n)
  \/ \E n \in 1..MAX_FAMILY : CtrlC(n)
  \/ Reap \/ ReapOther
  \/ \E c \in Prints : syscall_printf(c)

Spec == Init /\ [][Next]_vars

-----------------------------------------------------------------------------
\* Properties.

\* What the user sees is the line that Enter will execute: as long as nobody
\* else writes there, the cells behind the prompt show the buffer, then
\* blanks over all that longer lines left behind, and the cursor is where the
\* next character goes.  Typing in the middle, deleting, recalling shorter and
\* longer lines and scrolling in between keep it so.
LineShown ==
  shown =>
    /\ sh.start_of_command + sh.max_length < CELLS
    /\ sh.screen.cursor = sh.start_of_command + sh.pos
    /\ \A i \in 0..(sh.max_length - 1) :
         sh.screen.cell[sh.start_of_command + i] =
           IF i < sh.length THEN Line(sh)[i] ELSE SP

\* The buffers and the numbers kept beside them agree: the entries of the
\* history are the buffers that are allocated, each once, none lost and none
\* freed while in use; the line ends at length, with the cursor inside it;
\* and the blanks of echo_command, of which only the first is there at first,
\* reach as far as any line did.
HistorySound ==
  LET used == 0..sh.history_length
  IN  /\ \A k \in used : sh.history[k] \in DOMAIN sh.heap
      /\ \A k, l \in used : sh.history[k] = sh.history[l] => k = l
      /\ Cardinality(DOMAIN sh.heap) = sh.history_length + 1
      /\ \A k \in used : \E i \in Places : Entry(sh, k)[i] = NUL
      /\ str_length(Line(sh)) = sh.length
      /\ sh.pos \in 0..sh.length /\ sh.length <= sh.max_length
      /\ \A i \in 0..(sh.max_length - 1) : sh.blank_command[i] = SP

\* A line that was entered, or given up for a new prompt, is the youngest
\* entry of the history afterwards, also when one step gives several prompts.
\* The entries keep their order, and only as many of the oldest are forgotten
\* as there are more new ones than room.  In a full history the line behind
\* the last entry becomes an entry, whichever line was entered.
EntriesKept ==
  LET last == sh.history_length
      room == HISTORY_SIZE - 1 - last
      given == prompts' - prompts
      gone == IF given > room THEN given - room ELSE 0
      youngest == IF room = 0 THEN last ELSE sh.history_pos
  IN  /\ sh'.history_length = last + given - gone
      /\ \A k \in gone..last :
           String(Entry(sh', k - gone)) =
             String(Entry(sh, IF k = last THEN youngest ELSE k))
FinalizeKeeps == [][prompts' # prompts => EntriesKept]_vars
=============================================================================
