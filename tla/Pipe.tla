-------------------------------- MODULE Pipe --------------------------------
(***************************************************************************)
(* The in-memory pipe of eudaemonty (eudaemonty/src/lib.rs, mkpipe): lines *)
(* behind a mutex, readers that block on a condition variable, writers     *)
(* that count themselves.  The loop of write_str takes a step for every    *)
(* character and holds the mutex throughout; whatever else is done under   *)
(* the mutex is one step; the notifications come after it was dropped.     *)
(***************************************************************************)
EXTENDS Integers, Sequences, FiniteSets

CONSTANTS
    Readers,    \* PipeReader handles, a thread each
    Writers,    \* PipeWriter handles, a thread each
    First,      \* the handle mkpipe returns
    Chars,      \* the characters
    NewLine,    \* the newline character
    Chunks,     \* the strings given to write_str
    Bodies,     \* the strings given to write_line
    MaxText     \* bound of the model: characters written in all

ASSUME PipeAssumption ==
    /\ IsFiniteSet(Readers) /\ IsFiniteSet(Writers) /\ First \in Writers
    /\ NewLine \in Chars
    /\ Chunks \subseteq Seq(Chars) /\ Bodies \subseteq Seq(Chars)
    /\ MaxText \in Nat

VARIABLES
    lines,          \* complete lines, oldest first
    partial,        \* the line being accumulated
    writerCount,    \* writer_count
    reader,         \* where each reader is
    writer,         \* where each writer is
    rest,           \* what the loop of write_str has left of its string
    hadNewline,     \* its had_newline
    text,           \* history: every character written, in the order of the mutex
    taken,          \* history: every character read, in the order of the mutex
    extra           \* history: newlines written besides the first of each string

vars == <<lines, partial, writerCount, reader, writer, rest, hadNewline, text, taken, extra>>

\* out: not in read_line; trying: wants the mutex; waiting: in the condvar's wait
\* set; eof: read_line returned None.
ReaderStates == {"out", "trying", "waiting", "eof"}

\* new: not a handle yet; open: between calls; push: in the loop of write_str; body:
\* in the loop of write_line's first write_str; eol: between its two; notifyOne,
\* notifyBody, notifyAll: the mutex is dropped, the notification is next; gone:
\* dropped.
WriterStates == {"new", "open", "push", "body", "eol", "notifyOne", "notifyBody",
                 "notifyAll", "gone"}

Alive == {w \in Writers : writer[w] \notin {"new", "notifyAll", "gone"}}
Pushing == {w \in Writers : writer[w] \in {"push", "body"}}
Locked == Pushing # {}

Init ==
    /\ lines = <<>> /\ partial = <<>>
    /\ writerCount = 1
    /\ reader = [r \in Readers |-> "out"]
    /\ writer = [w \in Writers |-> IF w = First THEN "open" ELSE "new"]
    /\ rest = <<>> /\ hadNewline = FALSE
    /\ text = <<>> /\ taken = <<>> /\ extra = 0

-----------------------------------------------------------------------------
(* Writers *)

\* Room for n more characters, besides the newlines that are due.
Room(n) == Len(text) + n + Cardinality({w \in Writers : writer[w] = "eol"}) <= MaxText

\* write_str takes the mutex.
Begin(w, s, at) ==
    /\ ~Locked
    /\ writer' = [writer EXCEPT ![w] = at]
    /\ rest' = s /\ hadNewline' = FALSE
    /\ UNCHANGED <<lines, partial, writerCount, reader, text, taken, extra>>

WriteStr(w) ==
    /\ writer[w] = "open"
    /\ \E s \in Chunks : Room(Len(s)) /\ Begin(w, s, "push")

\* write_line: write_str of the string, then write_str of the newline.
WriteLine(w) ==
    /\ writer[w] = "open"
    /\ \E s \in Bodies : Room(Len(s) + 1) /\ Begin(w, s, "body")
EndLine(w) == writer[w] = "eol" /\ Begin(w, <<NewLine>>, "push")

\* Seeded bug: a newline that ends the string is not noted.
PushCharBug(w) ==
    /\ w \in Pushing /\ rest # <<>>
    /\ IF Head(rest) = NewLine
       THEN /\ lines' = Append(lines, partial) /\ partial' = <<>>
            /\ hadNewline' = (Len(rest) > 1)
            /\ extra' = IF hadNewline THEN extra + 1 ELSE extra
       ELSE /\ partial' = Append(partial, Head(rest))
            /\ UNCHANGED <<lines, hadNewline, extra>>
    /\ rest' = Tail(rest)
    /\ text' = Append(text, Head(rest))
    /\ UNCHANGED <<writerCount, reader, writer, taken>>

\* The loop over the characters of the string.
PushChar(w) ==
    /\ w \in Pushing /\ rest # <<>>
    /\ IF Head(rest) = NewLine
       THEN /\ lines' = Append(lines, partial) /\ partial' = <<>>
            /\ hadNewline' = TRUE
            /\ extra' = IF hadNewline THEN extra + 1 ELSE extra
       ELSE /\ partial' = Append(partial, Head(rest))
            /\ UNCHANGED <<lines, hadNewline, extra>>
    /\ rest' = Tail(rest)
    /\ text' = Append(text, Head(rest))
    /\ UNCHANGED <<writerCount, reader, writer, taken>>

\* After the loop, a string with a newline is followed by a notification.
EndStr(w) ==
    /\ w \in Pushing /\ rest = <<>>
    /\ writer' = [writer EXCEPT ![w] =
                     IF @ = "push" THEN (IF hadNewline THEN "notifyOne" ELSE "open")
                     ELSE (IF hadNewline THEN "notifyBody" ELSE "eol")]
    /\ UNCHANGED <<lines, partial, writerCount, reader, rest, hadNewline, text, taken, extra>>

Clone(w) ==
    /\ writer[w] = "open" /\ ~Locked
    /\ writerCount' = writerCount + 1
    /\ \E v \in Writers :
          /\ writer[v] = "new"
          /\ writer' = [writer EXCEPT ![v] = "open"]
    /\ UNCHANGED <<lines, partial, reader, rest, hadNewline, text, taken, extra>>

Drop(w) ==
    /\ writer[w] = "open" /\ ~Locked
    /\ writerCount' = IF writerCount = 0 THEN 0 ELSE writerCount - 1
    /\ writer' = [writer EXCEPT ![w] = "notifyAll"]
    /\ UNCHANGED <<lines, partial, reader, rest, hadNewline, text, taken, extra>>

Waiting == {r \in Readers : reader[r] = "waiting"}

NotifyOne(w) ==
    /\ writer[w] \in {"notifyOne", "notifyBody"}
    /\ writer' = [writer EXCEPT ![w] = IF @ = "notifyOne" THEN "open" ELSE "eol"]
    /\ \/ Waiting = {} /\ UNCHANGED reader
       \/ \E r \in Waiting : reader' = [reader EXCEPT ![r] = "trying"]
    /\ UNCHANGED <<lines, partial, writerCount, rest, hadNewline, text, taken, extra>>

\* Seeded bug: the last writer wakes a single reader.
NotifyAllBug(w) ==
    /\ writer[w] = "notifyAll"
    /\ writer' = [writer EXCEPT ![w] = "gone"]
    /\ \/ Waiting = {} /\ UNCHANGED reader
       \/ \E r \in Waiting : reader' = [reader EXCEPT ![r] = "trying"]
    /\ UNCHANGED <<lines, partial, writerCount, rest, hadNewline, text, taken, extra>>

NotifyAll(w) ==
    /\ writer[w] = "notifyAll"
    /\ writer' = [writer EXCEPT ![w] = "gone"]
    /\ reader' = [r \in Readers |-> IF r \in Waiting THEN "trying" ELSE reader[r]]
    /\ UNCHANGED <<lines, partial, writerCount, rest, hadNewline, text, taken, extra>>

-----------------------------------------------------------------------------
(* Readers *)

ReadLine(r) ==
    /\ reader[r] \in {"out", "eof"}
    /\ reader' = [reader EXCEPT ![r] = "trying"]
    /\ UNCHANGED <<lines, partial, writerCount, writer, rest, hadNewline, text, taken, extra>>

\* The reader has the mutex.
Enters(r) == reader[r] = "trying" /\ ~Locked

TakeLine(r) ==
    /\ Enters(r) /\ lines # <<>>
    /\ lines' = Tail(lines)
    /\ taken' = taken \o Append(Head(lines), NewLine)
    /\ reader' = [reader EXCEPT ![r] = "out"]
    /\ UNCHANGED <<partial, writerCount, writer, rest, hadNewline, text, extra>>

\* Seeded bug: the rest is returned and kept.
TakeRestBug(r) ==
    /\ Enters(r) /\ lines = <<>> /\ writerCount = 0 /\ partial # <<>>
    /\ taken' = taken \o partial
    /\ reader' = [reader EXCEPT ![r] = "out"]
    /\ UNCHANGED <<lines, partial, writerCount, writer, rest, hadNewline, text, extra>>

\* No writer is left: the line without a newline, then the end.
TakeRest(r) ==
    /\ Enters(r) /\ lines = <<>> /\ writerCount = 0 /\ partial # <<>>
    /\ taken' = taken \o partial
    /\ partial' = <<>>
    /\ reader' = [reader EXCEPT ![r] = "out"]
    /\ UNCHANGED <<lines, writerCount, writer, rest, hadNewline, text, extra>>

SeeEnd(r) ==
    /\ Enters(r) /\ lines = <<>> /\ writerCount = 0 /\ partial = <<>>
    /\ reader' = [reader EXCEPT ![r] = "eof"]
    /\ UNCHANGED <<lines, partial, writerCount, writer, rest, hadNewline, text, taken, extra>>

\* Condvar::wait drops the mutex and joins the wait set in one step.
Wait(r) ==
    /\ Enters(r) /\ lines = <<>> /\ writerCount > 0
    /\ reader' = [reader EXCEPT ![r] = "waiting"]
    /\ UNCHANGED <<lines, partial, writerCount, writer, rest, hadNewline, text, taken, extra>>

\* A condition variable may wake a thread for no reason.
SpuriousWakeup(r) ==
    /\ reader[r] = "waiting"
    /\ reader' = [reader EXCEPT ![r] = "trying"]
    /\ UNCHANGED <<lines, partial, writerCount, writer, rest, hadNewline, text, taken, extra>>

-----------------------------------------------------------------------------
\* What a thread does once it has begun a call.
Reads(r) == TakeLine(r) \/ TakeRest(r) \/ SeeEnd(r) \/ Wait(r)
Completes(w) == PushChar(w) \/ EndStr(w) \/ EndLine(w) \/ NotifyOne(w) \/ NotifyAll(w)

Next ==
    \/ \E w \in Writers : WriteStr(w) \/ WriteLine(w) \/ Clone(w) \/ Drop(w) \/ Completes(w)
    \/ \E r \in Readers : ReadLine(r) \/ Reads(r) \/ SpuriousWakeup(r)

\* A thread inside a call is scheduled again.  Nobody has to start a call, write or
\* drop, and nothing has to wake up without a notification.
Fairness ==
    /\ \A r \in Readers : WF_vars(Reads(r))
    /\ \A w \in Writers : WF_vars(Completes(w))

Spec == Init /\ [][Next]_vars /\ Fairness

-----------------------------------------------------------------------------
(* Properties *)

TypeOK ==
    /\ lines \in Seq(Seq(Chars)) /\ partial \in Seq(Chars) /\ rest \in Seq(Chars)
    /\ text \in Seq(Chars) /\ taken \in Seq(Chars)
    /\ hadNewline \in BOOLEAN /\ extra \in Nat
    /\ reader \in [Readers -> ReaderStates]
    /\ writer \in [Writers -> WriterStates]
    /\ writerCount = Cardinality(Alive)

\* However many readers and writers there are, the text written is, once and in
\* order, what was read, then each queued line with its newline, then what is
\* accumulated: cut[i] is where the line i ends in the text.
NothingLost ==
    \E cut \in [0 .. Len(lines) -> 0 .. Len(text)] :
        /\ taken = SubSeq(text, 1, cut[0])
        /\ \A i \in 1 .. Len(lines) :
              Append(lines[i], NewLine) = SubSeq(text, cut[i - 1] + 1, cut[i])
        /\ partial = SubSeq(text, cut[Len(lines)] + 1, Len(text))

\* The text is cut at every newline.
NoNewline(s) == \A i \in 1 .. Len(s) : s[i] # NewLine
CutAtNewlines == NoNewline(partial) /\ \A i \in 1 .. Len(lines) : NoNewline(lines[i])

\* A reader sees the end only when nothing was left to read and nothing can come.
EndIsFinal ==
    \A r \in Readers : reader[r] = "eof" => Alive = {} /\ taken = text

\* What the readers see, together: all of the text in order, line by line, then its
\* end.
ReadInFull == TypeOK /\ NothingLost /\ CutAtNewlines /\ EndIsFinal

\* Those who are about to wake a reader, or to come for a line themselves.
Notifying == {w \in Writers : writer[w] \in {"notifyOne", "notifyBody"}
                              \/ (writer[w] \in {"push", "body"} /\ hadNewline)}
Trying == {r \in Readers : reader[r] = "trying"}

\* Whatever strings are written, while a reader sleeps: every line in the queue has
\* somebody who is on the way to it or about to wake a reader, but for the further
\* lines of a string of several, which notifies once; if they all sleep beside a line,
\* a writer is about to wake one; and after the last drop a writer is about to wake
\* them all.
WakeupDue ==
    Waiting # {} =>
        /\ Len(lines) <= Cardinality(Notifying) + Cardinality(Trying) + extra
        /\ Waiting = Readers /\ lines # <<>> => Notifying # {}
        /\ writerCount = 0 => \E w \in Writers : writer[w] = "notifyAll"

\* "Blocks if no data is available": when the last writer is gone, every reader in
\* read_line comes back; the readers do not all stay blocked while a line is there;
\* and none of them does as long as no string has had several newlines.
ReadersReturn ==
    /\ \A r \in Readers :
          writerCount = 0 /\ reader[r] \in {"trying", "waiting"} ~> reader[r] \in {"out", "eof"}
    /\ lines # <<>> /\ Waiting = Readers ~> Waiting # Readers
    /\ \A r \in Readers :
          lines # <<>> /\ reader[r] = "waiting"
            ~> lines = <<>> \/ reader[r] # "waiting" \/ extra > 0
=============================================================================
