-------------------------------- MODULE Tty ---------------------------------
(***************************************************************************)
(* The console client (src/src/tty/tty.c): it asks for a name and a        *)
(* password, starts cmd.exe, and lends it the terminal at the other end of *)
(* the console a line at a time.  GetLine edits the line as it is typed    *)
(* and keeps the terminal's row in step with it.                           *)
(*                                                                         *)
(* The handles of the monitor's pipe are in Session, which says when a     *)
(* read finds keys or fails and whether what is written is shown.          *)
(***************************************************************************)
EXTENDS Naturals, FiniteSets, Sequences, SequencesExt

CONSTANTS
    LineSize    \* of the buffer a line is read into

ASSUME TtyAssumption == LineSize \in Nat \ {0}

\* What can be typed: a printable character, a control character that is
\* shown as "^X", DEL, ^C and ^M.
Keys == {"char", "ctrl", "del", "brk", "cr"}

Endings == {"brk", "cr"}

VARIABLES
    tty,        \* where the process is
    child,      \* cmd.exe runs: the client's, or the one its last process
                \* has left behind
    chunk,      \* the rest of Sequence, as it was read
    buffer,     \* the line read so far
    stdin,      \* the child has yet to read the line it was sent
    row,        \* the terminal's row, from where the line begins
    typed,      \* history: the keys taken since the line began
    spoilt      \* history: the child has written to the row since then, or an
                \* echo was not shown

lineVars == <<chunk, buffer, row, typed, spoilt>>
ttyVars == <<tty, child, lineVars, stdin>>

\* "none" while it does not run; "openIn" and "openOut" are the two CreateFile
\* of the pipe, "write" is TtyIn's WriteFile to the child.
TtyPC == {"none", "openIn", "openOut", "login", "password", "shell", "write"}

Reading == tty \in {"login", "password", "shell"}

NoEcho == tty = "password"

-----------------------------------------------------------------------------
(* Mistakes the runs must notice; see "mutants" in PROJECT.json.           *)

\* "\b \b" whatever the character was.
OneCell(k) == IF NoEcho THEN 0 ELSE 1

\* DEL is not refused at the beginning of the line.
ErasesPrompt(line) == IF line = <<>> THEN <<"del">> ELSE Front(line)

-----------------------------------------------------------------------------
(* GetLine                                                                 *)

\* The cells a character takes on the terminal.
Echoed(k) ==
    IF k = "ctrl" THEN <<"^", "X">>
    ELSE IF NoEcho THEN <<>> ELSE <<k>>

\* How far DEL goes back for the character it erases.
Cells(k) ==
    IF k = "ctrl" THEN 2 ELSE IF NoEcho THEN 0 ELSE 1

WithoutLast(line) == IF line = <<>> THEN <<>> ELSE Front(line)

EraseCells(n) == SubSeq(row, 1, IF n < Len(row) THEN Len(row) - n ELSE 0)

FreshLine ==
    /\ chunk' = <<>> /\ buffer' = <<>> /\ row' = <<>>
    /\ typed' = <<>> /\ spoilt' = FALSE

\* ReadFile gives what there is, up to the size of Sequence.
ReadChunk(keys) ==
    /\ Reading /\ chunk = <<>>
    /\ chunk' = keys
    /\ UNCHANGED <<tty, child, buffer, stdin, row, typed, spoilt>>

\* A character of the chunk that does not end the line.
TakeKey(shown) ==
    /\ Reading /\ chunk # <<>> /\ Head(chunk) \notin Endings
    /\ chunk' = Tail(chunk)
    /\ typed' = Append(typed, Head(chunk))
    /\ \/ /\ Head(chunk) = "del"
          /\ buffer' = WithoutLast(buffer)
          /\ row' = IF buffer = <<>> \/ ~shown THEN row
                    ELSE EraseCells(Cells(Last(buffer)))
       \/ /\ Head(chunk) # "del" /\ Len(buffer) + 1 < LineSize
          /\ buffer' = Append(buffer, Head(chunk))
          /\ row' = IF shown THEN row \o Echoed(Head(chunk)) ELSE row
    /\ spoilt' = (spoilt \/ ~shown)
    /\ UNCHANGED <<tty, child, stdin>>

\* The end of the process: its handles are closed.  The child comes to the end
\* of its input, after what it was sent and has yet to read, which is not
\* followed any more; until then it goes on.
Exit ==
    /\ tty' = "none" /\ UNCHANGED child
    /\ stdin' = FALSE
    /\ FreshLine

\* What GetCredentials, _tmain and TtyIn do with a line.
Login(line) ==
    /\ tty = "login"
    /\ IF Last(line) = "cr" /\ Len(line) > 1
       THEN tty' = "password" /\ FreshLine /\ UNCHANGED <<child, stdin>>
       ELSE Exit

\* LogonUser, the pipes, CreateChild and the two threads may each fail.  A child
\* left behind earlier is not followed beside the new one.
Password(line) ==
    /\ tty = "password"
    /\ \/ /\ Last(line) = "cr"
          /\ tty' = "shell" /\ child' = TRUE
          /\ FreshLine /\ UNCHANGED stdin
       \/ Exit

\* ^C becomes CTRL_BREAK for the processes of the console, which may end the
\* child or, as it is not ignored, the client; a line that filled the buffer
\* is dropped.
Command(line) ==
    /\ tty = "shell"
    /\ \/ /\ Last(line) = "cr"
          /\ tty' = "write" /\ UNCHANGED child
          /\ buffer' = Append(line, "lf")
          /\ chunk' = <<>> /\ row' = <<>> /\ spoilt' = FALSE
          /\ UNCHANGED <<stdin, typed>>
       \/ /\ Last(line) = "brk" /\ child' \in {child, FALSE}
          /\ FreshLine /\ UNCHANGED <<tty, stdin>>
       \/ Last(line) = "brk" /\ Exit
       \/ /\ Last(line) \notin Endings
          /\ FreshLine /\ UNCHANGED <<tty, child, stdin>>

\* The line ends with ^C or ^M, or with the character that fills the buffer;
\* what is left of the chunk is dropped.
EndLine ==
    /\ Reading /\ chunk # <<>>
    /\ \/ Head(chunk) \in Endings
       \/ Head(chunk) # "del" /\ Len(buffer) + 1 >= LineSize
    /\ LET line == Append(buffer, Head(chunk))
       IN \/ Login(line)
          \/ Password(line)
          \/ Command(line)

\* GetLine fails, and with it GetCredentials or TtyIn.
ReadFails ==
    /\ Reading /\ chunk = <<>>
    /\ Exit

-----------------------------------------------------------------------------
(* TtyIn's WriteFile, TtyOut, and the wait for any of them and the child   *)

WriteLine ==
    /\ tty = "write" /\ ~stdin
    /\ stdin' = TRUE
    /\ tty' = "shell"
    /\ FreshLine
    /\ UNCHANGED child

ChildReads ==
    /\ child /\ stdin
    /\ stdin' = FALSE
    /\ UNCHANGED <<tty, child, lineVars>>

\* The child writes something other than a new line, and TtyOut shows it; what
\* is shown before a line begins is not a part of its row.
Output(shown) ==
    /\ child /\ tty \in {"shell", "write"} /\ shown
    /\ IF tty = "shell" /\ buffer # <<>> /\ ~spoilt
       THEN row' = Append(row, "out") /\ spoilt' = TRUE
       ELSE UNCHANGED <<row, spoilt>>
    /\ UNCHANGED <<tty, child, chunk, buffer, stdin, typed>>

ChildExits ==
    /\ child
    /\ child' = FALSE /\ stdin' = FALSE
    /\ UNCHANGED <<tty, lineVars>>

\* _tmain returns when the child or one of the two threads has ended: TtyIn
\* ends in ReadFails, TtyOut when it has something to write and cannot.
ChildGone ==
    /\ tty \in {"shell", "write"} /\ ~child
    /\ Exit

OutputFails ==
    /\ tty \in {"shell", "write"} /\ child
    /\ Exit

-----------------------------------------------------------------------------

TtyInit ==
    /\ tty = "none" /\ child = FALSE
    /\ chunk = <<>> /\ buffer = <<>> /\ stdin = FALSE
    /\ row = <<>> /\ typed = <<>> /\ spoilt = FALSE

\* The process is started again.
Begin ==
    /\ tty = "none"
    /\ tty' = "openIn"
    /\ UNCHANGED <<child, lineVars, stdin>>

\* CreateFile of the pipe for reading, then for writing.
OpenPipe(from, to) ==
    /\ tty = from
    /\ tty' = to
    /\ UNCHANGED <<child, lineVars, stdin>>

-----------------------------------------------------------------------------
(* Properties                                                              *)

\* The DELs among the keys from i to j.
Erasures(keys, i, j) == Cardinality({d \in i .. j : keys[d] = "del"})

\* The key at i is not erased: up to no later key have more DELs been typed
\* than characters.
Survives(keys, i) ==
    /\ keys[i] # "del"
    /\ \A j \in i + 1 .. Len(keys) : 2 * Erasures(keys, i + 1, j) <= j - i

\* The line was meant by the keys: it is those that survive, in their order.
IsMeant(line, keys) ==
    LET Places == 1 .. Len(line)
        Kept == {i \in 1 .. Len(keys) : Survives(keys, i)}
    IN \E key \in [Places -> Kept] :
          /\ \A i, j \in Places : i < j => key[i] < key[j]
          /\ \A k \in Kept : \E i \in Places : key[i] = k
          /\ \A i \in Places : line[i] = keys[key[i]]

\* While a line is typed the terminal shows what GetLine has in its buffer,
\* every character of it and none that was erased, and of a password the
\* control characters only; unless the child has written to the same row, when
\* TtyOut and GetLine go back and forth over each other's cells, or the service
\* has let go of the pipe the echo goes to.
ScreenShowsLine ==
    Reading /\ ~spoilt => row = FlattenSeq([i \in DOMAIN buffer |-> Echoed(buffer[i])])

\* What the child is given is the line that was meant by the keys typed since
\* the one before ended, with what ends it: no key more or less, whichever way
\* the keys were cut into chunks (what was typed ahead in the chunk that ended
\* a line is dropped and belongs to no line).
LinesArriveAsTyped ==
    tty = "write" => LET line == SubSeq(buffer, 1, Len(buffer) - 2)
                     IN buffer = line \o <<"cr", "lf">> /\ IsMeant(line, typed)

=============================================================================
