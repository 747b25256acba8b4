------------------------------ MODULE PipeProofs ------------------------------
(* Proofs about Pipe, for any number of readers and writers and strings of    *)
(* any length.                                                                *)
EXTENDS Pipe, SequenceTheorems, FiniteSetTheorems, TLAPS

-----------------------------------------------------------------------------
(* Pieces of a text that grows at its end *)

\* A character at the end leaves the pieces before it alone and ends the last one.
LEMMA SubSeqOfAppend ==
    ASSUME NEW s \in Seq(Chars), NEW c \in Chars
    PROVE  /\ Append(s, c) \in Seq(Chars) /\ Len(Append(s, c)) = Len(s) + 1
           /\ \A m \in 1 .. Len(s) + 1 : \A n \in 0 .. Len(s) :
                 SubSeq(Append(s, c), m, n) = SubSeq(s, m, n)
           /\ \A m \in 1 .. Len(s) + 1 :
                 SubSeq(Append(s, c), m, Len(s) + 1) = Append(SubSeq(s, m, Len(s)), c)
  <1> DEFINE t == Append(s, c)
  <1>1. /\ t \in Seq(Chars) /\ Len(t) = Len(s) + 1 /\ Len(s) \in Nat
        /\ \A i \in 1 .. Len(s) : t[i] = s[i] /\ t[i] \in Chars /\ s[i] \in Chars
        /\ t[Len(s) + 1] = c
    BY AppendProperties, LenProperties, ElementOfSeq
  <1>2. ASSUME NEW m \in 1 .. Len(s) + 1, NEW n \in 0 .. Len(s)
        PROVE  SubSeq(t, m, n) = SubSeq(s, m, n)
    <2>1. /\ m \in Int /\ n \in Int
          /\ \A i \in m .. n : t[i] = s[i] /\ t[i] \in Chars /\ s[i] \in Chars
      BY <1>1
    <2>2. /\ SubSeq(s, m, n) \in Seq(Chars)
          /\ Len(SubSeq(s, m, n)) = IF m <= n THEN n - m + 1 ELSE 0
          /\ \A i \in 1 .. n - m + 1 : SubSeq(s, m, n)[i] = s[m + i - 1]
      BY <2>1, SubSeqProperties
    <2>3. /\ SubSeq(t, m, n) \in Seq(Chars)
          /\ Len(SubSeq(t, m, n)) = IF m <= n THEN n - m + 1 ELSE 0
          /\ \A i \in 1 .. n - m + 1 : SubSeq(t, m, n)[i] = t[m + i - 1]
      BY <2>1, SubSeqProperties
    <2>4. \A i \in 1 .. Len(SubSeq(t, m, n)) : SubSeq(t, m, n)[i] = SubSeq(s, m, n)[i]
      BY <1>1, <2>2, <2>3
    <2> QED
      BY <2>2, <2>3, <2>4, SeqEqual
  <1>3. ASSUME NEW m \in 1 .. Len(s) + 1
        PROVE  SubSeq(t, m, Len(s) + 1) = Append(SubSeq(s, m, Len(s)), c)
    <2>1. m \in 1 .. Len(t) /\ Len(s) + 1 \in m .. Len(t)
      BY <1>1
    <2>2. SubSeq(t, m, Len(s) + 1) = SubSeq(t, m, Len(s)) \o <<c>>
      BY <1>1, <2>1, SubSeqRecursiveSecond
    <2>3. SubSeq(t, m, Len(s)) = SubSeq(s, m, Len(s))
      BY <1>1, <1>2
    <2>4. SubSeq(s, m, Len(s)) \in Seq(Chars)
      BY <1>1, SubSeqProperties
    <2> QED
      BY <2>2, <2>3, <2>4, AppendIsConcat
  <1> QED
    BY <1>1, <1>2, <1>3

\* Two neighbouring pieces, the second of which ends with a character.
LEMMA JoinPieces ==
    ASSUME NEW s \in Seq(Chars), NEW k \in 0 .. Len(s), NEW n \in 0 .. Len(s),
           NEW piece \in Seq(Chars), Append(piece, NewLine) = SubSeq(s, k + 1, n)
    PROVE  /\ k < n
           /\ SubSeq(s, 1, k) \o Append(piece, NewLine) = SubSeq(s, 1, n)
  <1>1. Len(s) \in Nat /\ \A i \in 1 .. Len(s) : s[i] \in Chars
    BY LenProperties, ElementOfSeq
  <1>2. k < n
    <2>1. Append(piece, NewLine) # <<>>
      BY PipeAssumption, AppendProperties
    <2> QED
      BY <1>1, <2>1, SubSeqEmpty
  <1>3. /\ 1 \in 1 .. Len(s) + 1 /\ k \in 1 - 1 .. Len(s) /\ n \in k .. Len(s)
    BY <1>1, <1>2
  <1> QED
    BY <1>2, <1>3, ConcatAdjacentSubSeq

-----------------------------------------------------------------------------
(* The inductive invariant *)

\* The mutex: one writer at a time is in the loop.
OneHolder == \A v, w \in Pushing : v = w

IInv == TypeOK /\ OneHolder /\ NothingLost /\ CutAtNewlines /\ EndIsFinal

\* What writer_count says of the writers there are.
LEMMA CountsWriters ==
    ASSUME TypeOK
    PROVE  /\ IsFiniteSet(Alive) /\ writerCount \in Nat
           /\ writerCount = 0 <=> Alive = {}
  <1>1. IsFiniteSet(Alive)
    BY PipeAssumption, FS_Subset DEF Alive
  <1> QED
    BY <1>1, FS_CardinalityType, FS_EmptySet DEF TypeOK

\* An empty pipe satisfies IInv.
LEMMA InitIInv == Init => IInv
  <1> SUFFICES ASSUME Init PROVE IInv
    OBVIOUS
  <1>1. Alive = {First} /\ Pushing = {}
    BY PipeAssumption DEF Init, Alive, Pushing
  <1>2. TypeOK
    <2>1. writerCount = Cardinality(Alive)
      BY <1>1, FS_Singleton, Zenon DEF Init
    <2>2. /\ reader \in [Readers -> ReaderStates] /\ writer \in [Writers -> WriterStates]
      BY DEF Init, ReaderStates, WriterStates
    <2>3. <<>> \in Seq(Seq(Chars)) /\ <<>> \in Seq(Chars) /\ 0 \in Nat
      BY EmptySeq
    <2> QED
      BY <2>1, <2>2, <2>3, Zenon DEF Init, TypeOK
  <1>3. NothingLost
    <2> DEFINE cut == [i \in 0 .. 0 |-> 0]
    <2>1. lines = <<>> /\ partial = <<>> /\ text = <<>> /\ taken = <<>>
      BY DEF Init
    <2>2. Len(lines) = 0 /\ Len(text) = 0
      BY <2>1
    <2>3. cut \in [0 .. Len(lines) -> 0 .. Len(text)] /\ cut[0] = 0
      BY <2>2
    <2>4. SubSeq(text, 1, 0) = <<>>
      BY SubSeqEmpty, <2>1
    <2>5. \A i \in 1 .. Len(lines) :
              Append(lines[i], NewLine) = SubSeq(text, cut[i - 1] + 1, cut[i])
      BY <2>2
    <2> HIDE DEF cut
    <2>6. taken = SubSeq(text, 1, cut[0]) /\ partial = SubSeq(text, cut[Len(lines)] + 1, Len(text))
      BY <2>1, <2>2, <2>3, <2>4
    <2> QED
      BY <2>3, <2>5, <2>6, Zenon DEF NothingLost
  <1>4. CutAtNewlines
    BY DEF Init, CutAtNewlines, NoNewline
  <1> QED
    BY <1>1, <1>2, <1>3, <1>4 DEF Init, IInv, OneHolder, EndIsFinal

\* Nothing moves between the writers, the queue and the readers.
LEMMA TextStays ==
    ASSUME IInv, UNCHANGED <<lines, partial, text, taken>>
    PROVE  NothingLost' /\ CutAtNewlines'
  BY DEF IInv, NothingLost, CutAtNewlines, NoNewline

\* Whoever takes the mutex is the only one to hold it, and keeps the writers there are.
LEMMA BeginKeeps ==
    ASSUME IInv, NEW w \in Writers, NEW s \in Seq(Chars), NEW at \in {"push", "body"},
           writer[w] \in {"open", "eol"}, Begin(w, s, at)
    PROVE  IInv'
  <1>1. Alive' = Alive /\ Pushing' = {w} /\ Pushing = {}
    BY DEF IInv, TypeOK, Begin, Alive, Pushing, Locked
  <1>2. TypeOK'
    BY <1>1 DEF IInv, TypeOK, Begin, WriterStates
  <1>3. OneHolder' /\ NothingLost' /\ CutAtNewlines' /\ EndIsFinal'
    BY <1>1, TextStays DEF Begin, IInv, OneHolder, EndIsFinal
  <1> QED
    BY <1>2, <1>3 DEF IInv

\* A character more: it ends a line or makes the last one longer.
LEMMA PushCharKeeps ==
    ASSUME IInv, NEW w \in Writers, PushChar(w)
    PROVE  IInv'
  <1> DEFINE c == Head(rest)
  <1>1. /\ rest' = Tail(rest) /\ text' = Append(text, c)
        /\ UNCHANGED <<writerCount, reader, writer, taken>>
        /\ w \in Alive /\ Alive' = Alive /\ Pushing' = Pushing
    BY DEF PushChar, Alive, Pushing
  <1>2. c \in Chars /\ Tail(rest) \in Seq(Chars)
    BY HeadTailProperties DEF IInv, TypeOK, PushChar
  <1>3. /\ lines \in Seq(Seq(Chars)) /\ partial \in Seq(Chars) /\ text \in Seq(Chars)
    BY DEF IInv, TypeOK
  <1>4. Len(text) \in Nat /\ Len(lines) \in Nat
    BY <1>3, LenProperties
  <1>5. /\ text' \in Seq(Chars) /\ Len(text') = Len(text) + 1
    BY <1>1, <1>2, <1>3, SubSeqOfAppend
  <1>6. /\ \A m \in 1 .. Len(text) + 1 : \A n \in 0 .. Len(text) :
              SubSeq(text', m, n) = SubSeq(text, m, n)
        /\ \A m \in 1 .. Len(text) + 1 :
              SubSeq(text', m, Len(text) + 1) = Append(SubSeq(text, m, Len(text)), c)
    BY <1>1, <1>2, <1>3, SubSeqOfAppend
  <1>7. /\ Append(lines, partial) \in Seq(Seq(Chars)) /\ Append(partial, c) \in Seq(Chars)
        /\ Len(Append(lines, partial)) = Len(lines) + 1
        /\ Append(lines, partial)[Len(lines) + 1] = partial
        /\ \A i \in 1 .. Len(lines) : Append(lines, partial)[i] = lines[i]
    <2>1. Append(partial, c) \in Seq(Chars)
      BY <1>2, <1>3, AppendProperties
    <2>2. /\ Append(lines, partial) \in Seq(Seq(Chars))
          /\ Len(Append(lines, partial)) = Len(lines) + 1
          /\ Append(lines, partial)[Len(lines) + 1] = partial
          /\ \A i \in 1 .. Len(lines) : Append(lines, partial)[i] = lines[i]
      BY <1>3, AppendProperties
    <2> QED
      BY <2>1, <2>2, Zenon
  <1>8. TypeOK'
    <2>1. /\ lines' \in Seq(Seq(Chars)) /\ partial' \in Seq(Chars)
          /\ hadNewline' \in BOOLEAN /\ extra' \in Nat
      <3>1. lines' \in {lines, Append(lines, partial)} /\ partial' \in {<<>>, Append(partial, c)}
            /\ hadNewline' \in {TRUE, hadNewline} /\ extra' \in {extra, extra + 1}
        BY DEF PushChar
      <3>2. hadNewline \in BOOLEAN /\ <<>> \in Seq(Chars) /\ extra \in Nat /\ extra + 1 \in Nat
        BY EmptySeq DEF IInv, TypeOK
      <3> QED
        BY <1>3, <1>7, <3>1, <3>2, Zenon
    <2> QED
      BY <1>1, <1>2, <1>5, <2>1, Zenon DEF IInv, TypeOK
  <1>9. NothingLost'
    <2>1. PICK cut \in [0 .. Len(lines) -> 0 .. Len(text)] :
              /\ taken = SubSeq(text, 1, cut[0])
              /\ \A i \in 1 .. Len(lines) :
                    Append(lines[i], NewLine) = SubSeq(text, cut[i - 1] + 1, cut[i])
              /\ partial = SubSeq(text, cut[Len(lines)] + 1, Len(text))
      BY DEF IInv, NothingLost
    <2>2. taken' = SubSeq(text', 1, cut[0])
      <3>1. cut[0] \in 0 .. Len(text) /\ 1 \in 1 .. Len(text) + 1
        BY <1>4
      <3> QED
        BY <1>1, <1>6, <2>1, <3>1, Zenon
    <2>3. \A i \in 1 .. Len(lines) :
              SubSeq(text', cut[i - 1] + 1, cut[i]) = SubSeq(text, cut[i - 1] + 1, cut[i])
      <3> SUFFICES ASSUME NEW i \in 1 .. Len(lines)
                   PROVE  SubSeq(text', cut[i - 1] + 1, cut[i]) = SubSeq(text, cut[i - 1] + 1, cut[i])
        OBVIOUS
      <3>1. cut[i - 1] + 1 \in 1 .. Len(text) + 1 /\ cut[i] \in 0 .. Len(text)
        BY <1>4
      <3> QED
        BY <1>6, <3>1, Zenon
    <2>4. Append(partial, c) = SubSeq(text', cut[Len(lines)] + 1, Len(text'))
      <3>1. cut[Len(lines)] + 1 \in 1 .. Len(text) + 1
        BY <1>4
      <3> QED
        BY <1>5, <1>6, <2>1, <3>1, Zenon
    <2>5. CASE c = NewLine
      <3> DEFINE more == [i \in 0 .. Len(lines) + 1 |->
                            IF i <= Len(lines) THEN cut[i] ELSE Len(text) + 1]
      <3>1. /\ lines' = Append(lines, partial) /\ partial' = <<>>
            /\ Len(lines') = Len(lines) + 1 /\ lines'[Len(lines) + 1] = partial
            /\ \A i \in 1 .. Len(lines) : lines'[i] = lines[i]
        BY <1>7, <2>5, Zenon DEF PushChar
      <3>2. more \in [0 .. Len(lines') -> 0 .. Len(text')]
        BY <1>4, <1>5, <3>1
      <3>3. \A i \in 1 .. Len(lines') :
                Append(lines'[i], NewLine) = SubSeq(text', more[i - 1] + 1, more[i])
        <4> SUFFICES ASSUME NEW i \in 1 .. Len(lines')
                     PROVE  Append(lines'[i], NewLine) = SubSeq(text', more[i - 1] + 1, more[i])
          OBVIOUS
        <4>1. CASE i \in 1 .. Len(lines)
          <5>1. more[i - 1] = cut[i - 1] /\ more[i] = cut[i] /\ lines'[i] = lines[i]
            BY <1>4, <3>1, <4>1
          <5> HIDE DEF more
          <5> QED
            BY <2>1, <2>3, <4>1, <5>1, Zenon
        <4>2. CASE i = Len(lines) + 1
          <5>1. more[i - 1] = cut[Len(lines)] /\ more[i] = Len(text') /\ lines'[i] = partial
            BY <1>4, <1>5, <3>1, <4>2
          <5> HIDE DEF more
          <5> QED
            BY <2>4, <2>5, <5>1, Zenon
        <4>3. Len(lines') = Len(lines) + 1
          BY <3>1
        <4>4. i \in 1 .. Len(lines) \/ i = Len(lines) + 1
          BY <1>4, <4>3
        <4> QED
          BY <4>1, <4>2, <4>4
      <3>4. partial' = SubSeq(text', more[Len(lines')] + 1, Len(text'))
        <4>1. more[Len(lines')] = Len(text')
          BY <1>4, <1>5, <3>1
        <4> QED
          BY <1>4, <1>5, <3>1, <4>1, SubSeqEmpty
      <3>5. taken' = SubSeq(text', 1, more[0])
        BY <1>4, <2>2
      <3> HIDE DEF more
      <3> QED
        BY <3>2, <3>3, <3>4, <3>5, Zenon DEF NothingLost
    <2>6. CASE c # NewLine
      <3>1. lines' = lines /\ partial' = Append(partial, c)
        BY <2>6 DEF PushChar
      <3>2. cut \in [0 .. Len(lines') -> 0 .. Len(text')]
        BY <1>4, <1>5, <3>1
      <3> QED
        BY <2>1, <2>2, <2>3, <2>4, <3>1, <3>2, Zenon DEF NothingLost
    <2> QED
      BY <2>5, <2>6
  <1>10. CutAtNewlines'
    <2>1. NoNewline(partial) /\ \A i \in 1 .. Len(lines) : NoNewline(lines[i])
      BY DEF IInv, CutAtNewlines
    <2>2. CASE c = NewLine
      <3>1. lines' = Append(lines, partial) /\ partial' = <<>>
        BY <2>2 DEF PushChar
      <3>2. \A i \in 1 .. Len(lines) + 1 : i \in 1 .. Len(lines) \/ i = Len(lines) + 1
        BY <1>4
      <3>3. \A i \in 1 .. Len(lines') : NoNewline(lines'[i])
        BY <1>7, <2>1, <3>1, <3>2, Zenon
      <3>4. NoNewline(<<>>)
        BY DEF NoNewline
      <3> QED
        BY <3>1, <3>3, <3>4, Zenon DEF CutAtNewlines
    <2>3. CASE c # NewLine
      <3>1. lines' = lines /\ partial' = Append(partial, c)
        BY <2>3 DEF PushChar
      <3>2. NoNewline(Append(partial, c))
        BY <1>2, <1>3, <2>1, <2>3, AppendProperties DEF NoNewline
      <3> QED
        BY <2>1, <3>1, <3>2 DEF CutAtNewlines
    <2> QED
      BY <2>2, <2>3
  <1>11. OneHolder' /\ EndIsFinal'
    BY <1>1 DEF IInv, OneHolder, EndIsFinal
  <1> QED
    BY <1>8, <1>9, <1>10, <1>11 DEF IInv

\* The end of write_str keeps IInv.
LEMMA EndStrKeeps ==
    ASSUME IInv, NEW w \in Writers, EndStr(w)
    PROVE  IInv'
  <1>1. Alive' = Alive /\ Pushing' \subseteq Pushing
    BY DEF IInv, TypeOK, EndStr, Alive, Pushing
  <1>2. TypeOK'
    BY <1>1 DEF IInv, TypeOK, EndStr, WriterStates
  <1>3. OneHolder' /\ NothingLost' /\ CutAtNewlines' /\ EndIsFinal'
    BY <1>1, TextStays DEF EndStr, IInv, OneHolder, EndIsFinal
  <1> QED
    BY <1>2, <1>3 DEF IInv

\* writer_count is the number of the writers there are.
LEMMA CloneKeeps ==
    ASSUME IInv, NEW w \in Writers, Clone(w)
    PROVE  IInv'
  <1>1. PICK v \in Writers : writer[v] = "new" /\ writer' = [writer EXCEPT ![v] = "open"]
    BY DEF Clone
  <1>2. /\ Alive' = Alive \cup {v} /\ v \notin Alive /\ Alive # {}
        /\ Pushing' = Pushing
    BY <1>1 DEF IInv, TypeOK, Clone, Alive, Pushing
  <1>3. Cardinality(Alive') = Cardinality(Alive) + 1
    BY <1>2, CountsWriters, FS_AddElement, Zenon DEF IInv
  <1>4. TypeOK'
    BY <1>1, <1>3 DEF IInv, TypeOK, Clone, WriterStates
  <1>5. OneHolder' /\ NothingLost' /\ CutAtNewlines' /\ EndIsFinal'
    BY <1>2, TextStays DEF Clone, IInv, OneHolder, EndIsFinal
  <1> QED
    BY <1>4, <1>5 DEF IInv

\* Dropping a writer keeps IInv.
LEMMA DropKeeps ==
    ASSUME IInv, NEW w \in Writers, Drop(w)
    PROVE  IInv'
  <1>1. Alive' = Alive \ {w} /\ w \in Alive /\ Pushing' = Pushing
    BY DEF IInv, TypeOK, Drop, Alive, Pushing
  <1>2. Cardinality(Alive') = Cardinality(Alive) - 1
    BY <1>1, CountsWriters, FS_RemoveElement, Zenon DEF IInv
  <1>3. writerCount # 0
    BY <1>1, CountsWriters DEF IInv
  <1>4. TypeOK'
    BY <1>2, <1>3 DEF IInv, TypeOK, Drop, WriterStates
  <1>5. OneHolder' /\ NothingLost' /\ CutAtNewlines' /\ EndIsFinal'
    BY <1>1, TextStays DEF Drop, IInv, OneHolder, EndIsFinal
  <1> QED
    BY <1>4, <1>5 DEF IInv

\* A notification changes where readers are, and brings no reader to the end.
LEMMA NotifyKeeps ==
    ASSUME IInv, NEW w \in Writers, NotifyOne(w) \/ NotifyAll(w)
    PROVE  IInv'
  <1>1. Alive' = Alive /\ Pushing' = Pushing
    BY DEF IInv, TypeOK, NotifyOne, NotifyAll, Alive, Pushing
  <1>2. /\ reader' \in [Readers -> ReaderStates]
        /\ \A r \in Readers : reader'[r] \in {reader[r], "trying"}
    BY DEF IInv, TypeOK, NotifyOne, NotifyAll, Waiting, ReaderStates
  <1>3. writer' \in [Writers -> WriterStates]
    BY DEF IInv, TypeOK, NotifyOne, NotifyAll, WriterStates
  <1>4. UNCHANGED <<lines, partial, writerCount, rest, hadNewline, text, taken, extra>>
    BY DEF NotifyOne, NotifyAll
  <1>5. TypeOK'
    BY <1>1, <1>2, <1>3, <1>4 DEF IInv, TypeOK
  <1>6. OneHolder' /\ NothingLost' /\ CutAtNewlines' /\ EndIsFinal'
    BY <1>1, <1>2, <1>4, TextStays DEF IInv, OneHolder, EndIsFinal
  <1> QED
    BY <1>5, <1>6 DEF IInv

\* Where nothing is queued or accumulated, everything was read.
LEMMA NothingLeft ==
    ASSUME IInv, lines = <<>>, partial = <<>>
    PROVE  taken = text
  <1>1. PICK cut \in [0 .. Len(lines) -> 0 .. Len(text)] :
            /\ taken = SubSeq(text, 1, cut[0])
            /\ partial = SubSeq(text, cut[Len(lines)] + 1, Len(text))
    BY DEF IInv, NothingLost
  <1>2. text \in Seq(Chars)
    BY DEF IInv, TypeOK
  <1>3. Len(text) \in Nat /\ \A i \in 1 .. Len(text) : text[i] \in Chars
    BY <1>2, LenProperties, ElementOfSeq
  <1>4. Len(lines) = 0
    OBVIOUS
  <1>5. cut[0] \in 0 .. Len(text) /\ SubSeq(text, cut[0] + 1, Len(text)) = <<>>
    BY <1>1, <1>4
  <1>6. Len(SubSeq(text, cut[0] + 1, Len(text)))
            = IF cut[0] + 1 <= Len(text) THEN Len(text) - (cut[0] + 1) + 1 ELSE 0
    BY <1>3, <1>5, SubSeqProperties
  <1>7. cut[0] = Len(text)
    <2>1. Len(<<>>) = 0
      OBVIOUS
    <2>2. Len(SubSeq(text, cut[0] + 1, Len(text))) = 0
      BY <1>5, <2>1, Zenon
    <2> QED
      BY <1>3, <1>5, <1>6, <2>2
  <1> QED
    BY <1>1, <1>2, <1>7, SubSeqFull

\* The end was seen: there is nothing to take any more.
LEMMA NothingAfterEnd ==
    ASSUME IInv, taken = text
    PROVE  lines = <<>> /\ partial = <<>>
  <1>1. PICK cut \in [0 .. Len(lines) -> 0 .. Len(text)] :
            /\ taken = SubSeq(text, 1, cut[0])
            /\ \A i \in 1 .. Len(lines) :
                  Append(lines[i], NewLine) = SubSeq(text, cut[i - 1] + 1, cut[i])
            /\ partial = SubSeq(text, cut[Len(lines)] + 1, Len(text))
    BY DEF IInv, NothingLost
  <1>2. text \in Seq(Chars) /\ lines \in Seq(Seq(Chars))
    BY DEF IInv, TypeOK
  <1>3. Len(text) \in Nat /\ Len(lines) \in Nat /\ \A i \in 1 .. Len(text) : text[i] \in Chars
    BY <1>2, LenProperties, ElementOfSeq
  <1>4. cut[0] \in 0 .. Len(text)
    BY <1>3
  <1>5. Len(SubSeq(text, 1, cut[0])) = cut[0]
    <2>1. Len(SubSeq(text, 1, cut[0])) = IF 1 <= cut[0] THEN cut[0] - 1 + 1 ELSE 0
      BY <1>3, <1>4, SubSeqProperties
    <2> QED
      BY <1>4, <2>1
  <1>6. cut[0] = Len(text)
    BY <1>1, <1>5
  <1>7. Len(lines) = 0
    <2> SUFFICES ASSUME Len(lines) # 0 PROVE FALSE
      OBVIOUS
    <2>1. 1 \in 1 .. Len(lines) /\ cut[1] \in 0 .. Len(text)
      BY <1>3
    <2>2. Append(lines[1], NewLine) = SubSeq(text, cut[0] + 1, cut[1])
      BY <1>1, <2>1
    <2>3. lines[1] \in Seq(Chars)
      BY <1>2, <2>1, ElementOfSeq
    <2>4. cut[0] < cut[1]
      BY <1>2, <1>4, <2>1, <2>2, <2>3, JoinPieces
    <2> QED
      BY <1>3, <1>6, <2>1, <2>4
  <1>8. lines = <<>>
    BY <1>2, <1>7
  <1>9. partial = <<>>
    <2>1. partial = SubSeq(text, Len(text) + 1, Len(text))
      BY <1>1, <1>6, <1>7
    <2> QED
      BY <1>3, <2>1, SubSeqEmpty
  <1> QED
    BY <1>8, <1>9

\* The first line is the next piece of the text.
LEMMA TakeLineKeeps ==
    ASSUME IInv, NEW r \in Readers, TakeLine(r)
    PROVE  IInv'
  <1>1. /\ lines # <<>> /\ lines' = Tail(lines)
        /\ taken' = taken \o Append(Head(lines), NewLine)
        /\ reader' = [reader EXCEPT ![r] = "out"]
        /\ UNCHANGED <<partial, writerCount, writer, rest, hadNewline, text, extra>>
    BY DEF TakeLine
  <1>2. lines \in Seq(Seq(Chars)) /\ text \in Seq(Chars) /\ taken \in Seq(Chars)
    BY DEF IInv, TypeOK
  <1>3. Len(text) \in Nat /\ Len(lines) \in Nat \ {0}
    BY <1>1, <1>2, LenProperties, EmptySeq
  <1>4. /\ Head(lines) \in Seq(Chars) /\ Head(lines) = lines[1]
        /\ Tail(lines) \in Seq(Seq(Chars)) /\ Len(Tail(lines)) = Len(lines) - 1
        /\ \A i \in 1 .. Len(Tail(lines)) : Tail(lines)[i] = lines[i + 1]
    <2>1. \A S : \A s \in Seq(S) : s # <<>> =>
              /\ Head(s) \in S /\ Tail(s) \in Seq(S) /\ Len(Tail(s)) = Len(s) - 1
              /\ \A i \in 1 .. Len(Tail(s)) : Tail(s)[i] = s[i + 1]
      BY HeadTailProperties, Zenon
    <2>2. Head(lines) = lines[1]
      BY <1>1, <1>2
    <2> QED
      BY <1>1, <1>2, <2>1, <2>2, Zenon
  <1>5. TypeOK'
    <2>1. taken' \in Seq(Chars)
      BY <1>1, <1>2, <1>4, PipeAssumption, AppendProperties, ConcatProperties
    <2>2. Alive' = Alive
      BY <1>1 DEF Alive
    <2>3. reader' \in [Readers -> ReaderStates]
      BY <1>1 DEF IInv, TypeOK, ReaderStates
    <2> QED
      BY <1>1, <1>4, <2>1, <2>2, <2>3, Zenon DEF IInv, TypeOK
  <1>6. NothingLost'
    <2>1. PICK cut \in [0 .. Len(lines) -> 0 .. Len(text)] :
              /\ taken = SubSeq(text, 1, cut[0])
              /\ \A i \in 1 .. Len(lines) :
                    Append(lines[i], NewLine) = SubSeq(text, cut[i - 1] + 1, cut[i])
              /\ partial = SubSeq(text, cut[Len(lines)] + 1, Len(text))
      BY DEF IInv, NothingLost
    <2> DEFINE n == Len(lines) - 1
               left == [i \in 0 .. n |-> cut[i + 1]]
    <2>2. n \in Nat /\ Len(lines') = n
      BY <1>1, <1>3, <1>4
    <2>3. left \in [0 .. Len(lines') -> 0 .. Len(text')]
      <3>1. \A i \in 0 .. n : cut[i + 1] \in 0 .. Len(text)
        BY <1>3
      <3> QED
        BY <1>1, <2>2, <3>1
    <2>4. taken' = SubSeq(text', 1, left[0])
      <3>1. /\ cut[0] \in 0 .. Len(text) /\ cut[1] \in 0 .. Len(text)
            /\ 1 \in 1 .. Len(lines) /\ 1 - 1 = 0
        BY <1>3
      <3>2. Append(lines[1], NewLine) = SubSeq(text, cut[1 - 1] + 1, cut[1])
        BY <2>1, <3>1, Zenon
      <3>3. Append(lines[1], NewLine) = SubSeq(text, cut[0] + 1, cut[1])
        BY <3>1, <3>2, Zenon
      <3>4. lines[1] \in Seq(Chars)
        BY <1>4, Zenon
      <3>5. SubSeq(text, 1, cut[0]) \o Append(lines[1], NewLine) = SubSeq(text, 1, cut[1])
        BY <1>2, <3>1, <3>3, <3>4, JoinPieces
      <3>6. left[0] = cut[1]
        BY <2>2
      <3> QED
        BY <1>1, <1>4, <2>1, <3>5, <3>6
    <2>5. \A i \in 1 .. Len(lines') :
              Append(lines'[i], NewLine) = SubSeq(text', left[i - 1] + 1, left[i])
      <3> SUFFICES ASSUME NEW i \in 1 .. Len(lines')
                   PROVE  Append(lines'[i], NewLine) = SubSeq(text', left[i - 1] + 1, left[i])
        OBVIOUS
      <3>1. /\ i + 1 \in 1 .. Len(lines) /\ (i + 1) - 1 = i
            /\ left[i - 1] = cut[i] /\ left[i] = cut[i + 1]
        BY <1>3, <2>2
      <3>2. lines'[i] = lines[i + 1]
        BY <1>1, <1>4
      <3>3. Append(lines[i + 1], NewLine) = SubSeq(text, cut[(i + 1) - 1] + 1, cut[i + 1])
        BY <2>1, <3>1
      <3> QED
        BY <1>1, <3>1, <3>2, <3>3
    <2>6. partial' = SubSeq(text', left[Len(lines')] + 1, Len(text'))
      <3>1. left[Len(lines')] = cut[Len(lines)]
        BY <1>3, <2>2
      <3> QED
        BY <1>1, <2>1, <3>1
    <2> HIDE DEF left
    <2> QED
      BY <2>3, <2>4, <2>5, <2>6, Zenon DEF NothingLost
  <1>7. CutAtNewlines'
    <2>1. NoNewline(partial) /\ \A i \in 1 .. Len(lines) : NoNewline(lines[i])
      BY DEF IInv, CutAtNewlines
    <2>2. \A i \in 1 .. Len(Tail(lines)) : i + 1 \in 1 .. Len(lines)
      BY <1>3, <1>4
    <2> QED
      BY <1>1, <1>4, <2>1, <2>2, Zenon DEF CutAtNewlines
  <1>8. OneHolder' /\ EndIsFinal'
    <2>1. \A q \in Readers : reader[q] # "eof"
      BY <1>1, NothingAfterEnd DEF IInv, EndIsFinal
    <2>2. \A q \in Readers : reader'[q] # "eof"
      BY <1>1, <2>1 DEF IInv, TypeOK
    <2> QED
      BY <1>1, <2>2 DEF IInv, OneHolder, EndIsFinal, Pushing
  <1> QED
    BY <1>5, <1>6, <1>7, <1>8 DEF IInv

\* What is left after the last writer is the last piece of the text.
LEMMA TakeRestKeeps ==
    ASSUME IInv, NEW r \in Readers, TakeRest(r)
    PROVE  IInv'
  <1>1. /\ lines = <<>> /\ lines' = <<>> /\ partial # <<>> /\ partial' = <<>>
        /\ taken' = taken \o partial
        /\ reader' = [reader EXCEPT ![r] = "out"]
        /\ UNCHANGED <<writerCount, writer, rest, hadNewline, text, extra>>
    BY DEF TakeRest
  <1>2. text \in Seq(Chars) /\ taken \in Seq(Chars) /\ partial \in Seq(Chars)
    BY DEF IInv, TypeOK
  <1>3. Len(text) \in Nat /\ Len(lines) = 0 /\ Len(lines') = 0
    BY <1>1, <1>2, LenProperties
  <1>4. taken' = text
    <2>1. PICK cut \in [0 .. Len(lines) -> 0 .. Len(text)] :
              /\ taken = SubSeq(text, 1, cut[0])
              /\ partial = SubSeq(text, cut[Len(lines)] + 1, Len(text))
      BY DEF IInv, NothingLost
    <2>2. partial = SubSeq(text, cut[0] + 1, Len(text))
      BY <1>3, <2>1
    <2>3. /\ 1 \in 1 .. Len(text) + 1 /\ cut[0] \in 1 - 1 .. Len(text)
          /\ Len(text) \in cut[0] .. Len(text)
      BY <1>3
    <2>4. SubSeq(text, 1, cut[0]) \o SubSeq(text, cut[0] + 1, Len(text)) = SubSeq(text, 1, Len(text))
      BY <1>2, <2>3, ConcatAdjacentSubSeq
    <2> QED
      BY <1>1, <1>2, <2>1, <2>2, <2>4, SubSeqFull
  <1>5. TypeOK'
    <2>1. Alive' = Alive /\ reader' \in [Readers -> ReaderStates]
      BY <1>1 DEF IInv, TypeOK, ReaderStates, Alive
    <2>2. <<>> \in Seq(Chars) /\ <<>> \in Seq(Seq(Chars))
      BY EmptySeq
    <2> QED
      BY <1>1, <1>2, <1>4, <2>1, <2>2, Zenon DEF IInv, TypeOK
  <1>6. NothingLost'
    <2> DEFINE cut == [i \in 0 .. 0 |-> Len(text)]
    <2>1. cut \in [0 .. Len(lines') -> 0 .. Len(text')] /\ cut[0] = Len(text)
      BY <1>1, <1>3
    <2>2. taken' = SubSeq(text', 1, cut[0])
      BY <1>1, <1>2, <1>4, <2>1, SubSeqFull
    <2>3. partial' = SubSeq(text', cut[Len(lines')] + 1, Len(text'))
      <3>1. SubSeq(text, Len(text) + 1, Len(text)) = <<>>
        BY <1>3, SubSeqEmpty
      <3> QED
        BY <1>1, <1>3, <2>1, <3>1
    <2>4. \A i \in 1 .. Len(lines') :
              Append(lines'[i], NewLine) = SubSeq(text', cut[i - 1] + 1, cut[i])
      BY <1>3
    <2> HIDE DEF cut
    <2> QED
      BY <2>1, <2>2, <2>3, <2>4, Zenon DEF NothingLost
  <1>7. CutAtNewlines'
    <2>1. NoNewline(partial) /\ \A i \in 1 .. Len(lines) : NoNewline(lines[i])
      BY DEF IInv, CutAtNewlines
    <2>2. NoNewline(<<>>) /\ \A i \in 1 .. Len(lines') : NoNewline(lines'[i])
      BY <1>3 DEF NoNewline
    <2> QED
      BY <1>1, <2>2, Zenon DEF CutAtNewlines
  <1>8. OneHolder' /\ EndIsFinal'
    <2>1. \A q \in Readers : reader[q] # "eof"
      BY <1>1, NothingAfterEnd DEF IInv, EndIsFinal
    <2>2. \A q \in Readers : reader'[q] # "eof"
      BY <1>1, <2>1 DEF IInv, TypeOK
    <2> QED
      BY <1>1, <2>2 DEF IInv, OneHolder, EndIsFinal, Pushing
  <1> QED
    BY <1>5, <1>6, <1>7, <1>8 DEF IInv

\* A reader that comes, waits, wakes up, or sees the end takes nothing.
LEMMA ReaderMovesKeeps ==
    ASSUME IInv, NEW r \in Readers,
           ReadLine(r) \/ SeeEnd(r) \/ Wait(r) \/ SpuriousWakeup(r)
    PROVE  IInv'
  <1>1. /\ UNCHANGED <<lines, partial, writerCount, writer, rest, hadNewline, text, taken, extra>>
        /\ Alive' = Alive /\ Pushing' = Pushing
    BY DEF ReadLine, SeeEnd, Wait, SpuriousWakeup, Alive, Pushing
  <1>2. reader' \in [Readers -> ReaderStates]
    BY DEF IInv, TypeOK, ReadLine, SeeEnd, Wait, SpuriousWakeup, ReaderStates
  <1>3. TypeOK'
    BY <1>1, <1>2 DEF IInv, TypeOK
  <1>4. EndIsFinal'
    <2>1. CASE SeeEnd(r)
      <3>1. Alive = {} /\ taken = text
        BY <2>1, CountsWriters, NothingLeft DEF IInv, SeeEnd
      <3> QED
        BY <1>1, <3>1 DEF EndIsFinal
    <2>2. CASE ReadLine(r) \/ Wait(r) \/ SpuriousWakeup(r)
      <3>1. \A q \in Readers : reader'[q] = "eof" => reader[q] = "eof"
        BY <2>2 DEF IInv, TypeOK, ReadLine, Wait, SpuriousWakeup
      <3> QED
        BY <1>1, <3>1 DEF IInv, EndIsFinal
    <2> QED
      BY <2>1, <2>2
  <1> QED
    BY <1>1, <1>3, <1>4, TextStays DEF IInv, OneHolder

\* Every step keeps IInv.
LEMMA NextIInv == IInv /\ [Next]_vars => IInv'
  <1> SUFFICES ASSUME IInv, [Next]_vars PROVE IInv'
    OBVIOUS
  <1>1. ASSUME NEW w \in Writers, WriteStr(w) PROVE IInv'
    BY <1>1, BeginKeeps, PipeAssumption DEF WriteStr
  <1>2. ASSUME NEW w \in Writers, WriteLine(w) PROVE IInv'
    BY <1>2, BeginKeeps, PipeAssumption DEF WriteLine
  <1>3. ASSUME NEW w \in Writers, EndLine(w) PROVE IInv'
    <2>1. <<NewLine>> \in Seq(Chars)
      BY PipeAssumption
    <2> QED
      BY <1>3, <2>1, BeginKeeps DEF EndLine
  <1>4. ASSUME NEW w \in Writers, PushChar(w) PROVE IInv'
    BY <1>4, PushCharKeeps
  <1>5. ASSUME NEW w \in Writers, EndStr(w) PROVE IInv'
    BY <1>5, EndStrKeeps
  <1>6. ASSUME NEW w \in Writers, Clone(w) PROVE IInv'
    BY <1>6, CloneKeeps
  <1>7. ASSUME NEW w \in Writers, Drop(w) PROVE IInv'
    BY <1>7, DropKeeps
  <1>8. ASSUME NEW w \in Writers, NotifyOne(w) \/ NotifyAll(w) PROVE IInv'
    BY <1>8, NotifyKeeps
  <1>9. ASSUME NEW r \in Readers, TakeLine(r) PROVE IInv'
    BY <1>9, TakeLineKeeps
  <1>10. ASSUME NEW r \in Readers, TakeRest(r) PROVE IInv'
    BY <1>10, TakeRestKeeps
  <1>11. ASSUME NEW r \in Readers, ReadLine(r) \/ SeeEnd(r) \/ Wait(r) \/ SpuriousWakeup(r)
         PROVE  IInv'
    BY <1>11, ReaderMovesKeeps
  <1>12. CASE UNCHANGED vars
    BY <1>12, TextStays DEF vars, IInv, TypeOK, OneHolder, EndIsFinal, Alive, Pushing
  <1> QED
    BY <1>1, <1>2, <1>3, <1>4, <1>5, <1>6, <1>7, <1>8, <1>9, <1>10, <1>11, <1>12
       DEF Next, Completes, Reads

\* The inductive invariant, for any number of threads and strings of any length.
LEMMA InvariantHolds == Spec => []IInv
  BY InitIInv, NextIInv, PTL DEF Spec

\* Whatever the threads do and in which order: every character is read once and in
\* order, and the end is seen only when all was read and no writer is left.
THEOREM PipeReadsInFull == Spec => []ReadInFull
  <1>1. IInv => ReadInFull
    BY DEF IInv, ReadInFull
  <1> QED
    BY <1>1, InvariantHolds, PTL

-----------------------------------------------------------------------------
(* Notifications *)

WInv == IInv /\ WakeupDue

\* The readers and writers that count are finitely many.
LEMMA Counts ==
    /\ IsFiniteSet(Notifying) /\ Cardinality(Notifying) \in Nat
    /\ IsFiniteSet(Trying) /\ Cardinality(Trying) \in Nat
  BY PipeAssumption, FS_Subset, FS_CardinalityType DEF Notifying, Trying

\* A writer that begins a string has nobody to wake yet.
LEMMA WriterBegins ==
    ASSUME WInv, NEW w \in Writers, NEW s \in Seq(Chars),
           NEW at \in {"push", "body"}, writer[w] \in {"open", "eol"}, Begin(w, s, at)
    PROVE  WakeupDue'
  <1> USE DEF WInv, IInv
  <1>1. /\ hadNewline' = FALSE /\ Pushing = {}
        /\ writer' = [writer EXCEPT ![w] = at]
        /\ UNCHANGED <<lines, writerCount, reader, extra>>
    BY DEF Begin, Locked
  <1>2. Notifying' = Notifying /\ Trying' = Trying /\ Waiting' = Waiting
    BY <1>1 DEF TypeOK, Notifying, Trying, Waiting, Pushing
  <1>3. \A v \in Writers : writer[v] = "notifyAll" => writer'[v] = "notifyAll"
    BY <1>1 DEF TypeOK
  <1> QED
    BY <1>1, <1>2, <1>3 DEF WakeupDue

\* The first newline of a string comes with a writer that is about to notify, and the
\* others are counted.
LEMMA CharPushed ==
    ASSUME WInv, NEW w \in Writers, PushChar(w)
    PROVE  WakeupDue'
  <1> USE DEF WInv, IInv
  <1>1. w \in Pushing /\ extra \in Nat /\ UNCHANGED <<writerCount, reader, writer>>
    BY DEF PushChar, TypeOK
  <1>2. Trying' = Trying /\ Waiting' = Waiting
    BY <1>1 DEF Trying, Waiting
  <1>3. CASE Head(rest) = NewLine
    <2>1. Len(lines') = Len(lines) + 1 /\ Len(lines) \in Nat
      <3>1. lines \in Seq(Seq(Chars)) /\ partial \in Seq(Chars) /\ lines' = Append(lines, partial)
        BY <1>3 DEF PushChar, TypeOK
      <3> QED
        BY <3>1, AppendProperties, LenProperties
    <2>2. w \in Notifying'
      BY <1>1, <1>3 DEF PushChar, Notifying, Pushing
    <2>3. CASE hadNewline
      <3>1. Notifying' = Notifying /\ extra' = extra + 1
        BY <1>1, <1>3, <2>3 DEF PushChar, Notifying
      <3> QED
        BY <1>1, <1>2, <2>1, <2>2, <3>1, Counts DEF WakeupDue
    <2>4. CASE ~hadNewline
      <3>1. Notifying' = Notifying \cup {w} /\ w \notin Notifying /\ extra' = extra
        BY <1>1, <1>3, <2>4 DEF PushChar, Notifying, Pushing, OneHolder
      <3>2. Cardinality(Notifying') = Cardinality(Notifying) + 1
        BY <3>1, Counts, FS_AddElement
      <3> QED
        BY <1>1, <1>2, <2>1, <2>2, <3>1, <3>2, Counts DEF WakeupDue
    <2> QED
      BY <2>3, <2>4
  <1>4. CASE Head(rest) # NewLine
    <2>1. UNCHANGED <<lines, hadNewline, extra>>
      BY <1>4 DEF PushChar
    <2>2. Notifying' = Notifying
      BY <1>1, <2>1 DEF Notifying
    <2> QED
      BY <1>1, <1>2, <2>1, <2>2 DEF WakeupDue
  <1> QED
    BY <1>3, <1>4

\* The loop ends, a writer is cloned or dropped, and readers stay where they are.
LEMMA WriterMoves ==
    ASSUME WInv, NEW w \in Writers, EndStr(w) \/ Clone(w) \/ Drop(w)
    PROVE  WakeupDue'
  <1> USE DEF WInv, IInv
  <1>1. UNCHANGED <<lines, reader, hadNewline, extra>>
    BY DEF EndStr, Clone, Drop
  <1>2. Trying' = Trying /\ Waiting' = Waiting
    BY DEF EndStr, Clone, Drop, TypeOK, Trying, Waiting
  <1>3. Notifying' = Notifying
    <2>1. CASE EndStr(w)
      <3>1. w \in Pushing /\ hadNewline \in BOOLEAN
        BY <2>1 DEF EndStr, TypeOK
      <3> QED
        BY <1>1, <2>1, <3>1 DEF EndStr, TypeOK, Notifying, Pushing
    <2>2. CASE Clone(w) \/ Drop(w)
      BY <1>1, <2>2 DEF Clone, Drop, TypeOK, Notifying
    <2> QED
      BY <2>1, <2>2
  <1>4. writerCount' = 0 => \/ \E v \in Writers : writer'[v] = "notifyAll"
                            \/ writerCount = 0 /\ \A v \in Writers :
                                   writer[v] = "notifyAll" => writer'[v] = "notifyAll"
    <2>1. CASE EndStr(w)
      BY <2>1 DEF EndStr, Pushing, TypeOK
    <2>2. CASE Clone(w)
      <3>1. writerCount \in Nat /\ writerCount' = writerCount + 1
        BY <2>2, CountsWriters DEF Clone
      <3> QED
        BY <3>1
    <2>3. CASE Drop(w)
      BY <2>3 DEF Drop, TypeOK
    <2> QED
      BY <2>1, <2>2, <2>3
  <1> QED
    BY <1>1, <1>2, <1>3, <1>4 DEF WakeupDue

\* A notification hands its line to a reader that comes for it.
LEMMA Notified ==
    ASSUME WInv, NEW w \in Writers, NotifyOne(w)
    PROVE  WakeupDue'
  <1> USE DEF WInv, IInv
  <1>1. /\ UNCHANGED <<lines, writerCount, hadNewline, extra>> /\ extra \in Nat
        /\ writer[w] \in {"notifyOne", "notifyBody"}
        /\ writer' = [writer EXCEPT ![w] = IF @ = "notifyOne" THEN "open" ELSE "eol"]
    BY DEF NotifyOne, TypeOK
  <1>2. /\ Notifying' = Notifying \ {w} /\ w \in Notifying
        /\ \A v \in Writers : writer[v] = "notifyAll" => writer'[v] = "notifyAll"
    BY <1>1 DEF TypeOK, Notifying
  <1>3. Cardinality(Notifying') = Cardinality(Notifying) - 1
    BY <1>2, Counts, FS_RemoveElement
  <1>4. CASE Waiting = {} /\ UNCHANGED reader
    <2>1. Waiting' = {}
      BY <1>4 DEF Waiting
    <2> QED
      BY <2>1 DEF WakeupDue
  <1>5. ASSUME NEW r \in Waiting, reader' = [reader EXCEPT ![r] = "trying"]
        PROVE  WakeupDue'
    <2>1. /\ Trying' = Trying \cup {r} /\ r \notin Trying
          /\ Waiting # {} /\ r \notin Waiting'
      BY <1>5 DEF TypeOK, Trying, Waiting
    <2>2. Cardinality(Trying') = Cardinality(Trying) + 1
      BY <2>1, Counts, FS_AddElement
    <2>3. Len(lines) <= Cardinality(Notifying) + Cardinality(Trying) + extra
      BY <2>1 DEF WakeupDue
    <2>4. Len(lines') <= Cardinality(Notifying') + Cardinality(Trying') + extra'
      BY <1>1, <1>3, <2>2, <2>3, Counts
    <2>5. Waiting' # Readers
      BY <2>1 DEF Waiting
    <2> QED
      BY <1>1, <1>2, <2>1, <2>4, <2>5 DEF WakeupDue
  <1> QED
    BY <1>4, <1>5 DEF NotifyOne

\* After the notification of a drop nobody sleeps.
LEMMA AllNotified ==
    ASSUME WInv, NEW w \in Writers, NotifyAll(w)
    PROVE  WakeupDue'
  <1>1. Waiting' = {}
    BY DEF WInv, IInv, TypeOK, NotifyAll, Waiting
  <1> QED
    BY <1>1 DEF WakeupDue

\* Readers come and wake up, take a line each, or sleep where there is none.
LEMMA ReaderMoves ==
    ASSUME WInv, NEW r \in Readers, ReadLine(r) \/ Reads(r) \/ SpuriousWakeup(r)
    PROVE  WakeupDue'
  <1> USE DEF WInv, IInv
  <1>1. /\ UNCHANGED <<writerCount, writer, hadNewline, extra>> /\ extra \in Nat
        /\ Notifying' = Notifying
    BY DEF ReadLine, Reads, TakeLine, TakeRest, SeeEnd, Wait, SpuriousWakeup, Notifying, TypeOK
  <1>2. lines \in Seq(Seq(Chars)) /\ Len(lines) \in Nat
    BY LenProperties DEF TypeOK
  <1>3. CASE ReadLine(r) \/ SpuriousWakeup(r)
    <2>1. /\ lines' = lines /\ Waiting' \subseteq Waiting /\ r \notin Waiting'
          /\ Trying' = Trying \cup {r} /\ r \notin Trying
      BY <1>3 DEF ReadLine, SpuriousWakeup, TypeOK, Trying, Waiting
    <2>2. Cardinality(Trying') = Cardinality(Trying) + 1 /\ Waiting' # Readers
      BY <2>1, Counts, FS_AddElement DEF Waiting
    <2> QED
      BY <1>1, <1>2, <2>1, <2>2, Counts DEF WakeupDue
  <1>4. CASE TakeLine(r)
    <2>1. /\ lines # <<>> /\ lines' = Tail(lines)
          /\ Waiting' = Waiting /\ Trying' = Trying \ {r} /\ r \in Trying /\ r \notin Waiting
      BY <1>4 DEF TakeLine, Enters, TypeOK, Trying, Waiting
    <2>2. Cardinality(Trying') = Cardinality(Trying) - 1 /\ Waiting' # Readers
      BY <2>1, Counts, FS_RemoveElement DEF Waiting
    <2>3. Len(lines') = Len(lines) - 1
      BY <1>2, <2>1, HeadTailProperties, LenProperties
    <2> QED
      BY <1>1, <1>2, <2>1, <2>2, <2>3, Counts DEF WakeupDue
  <1>5. CASE TakeRest(r) \/ SeeEnd(r) \/ Wait(r)
    <2>1. lines' = <<>> /\ (Waiting' \subseteq Waiting \/ writerCount # 0)
      BY <1>5, CountsWriters DEF TakeRest, SeeEnd, Wait, Waiting, TypeOK
    <2>2. Len(lines') <= Cardinality(Notifying') + Cardinality(Trying') + extra'
      <3>1. Len(lines') = 0
        BY <2>1
      <3>2. Cardinality(Notifying') \in Nat /\ Cardinality(Trying') \in Nat
        <4>1. Trying' \subseteq Readers /\ Notifying' \subseteq Writers
          BY DEF Trying, Notifying
        <4> QED
          BY <4>1, PipeAssumption, FS_Subset, FS_CardinalityType
      <3> QED
        BY <1>1, <3>1, <3>2
    <2> QED
      BY <1>1, <2>1, <2>2 DEF WakeupDue
  <1> QED
    BY <1>3, <1>4, <1>5 DEF Reads

\* No wakeup is missed, for any number of readers and writers and any strings: while
\* a reader sleeps, every line in the queue that is not a further one of its string has
\* somebody on the way; when all sleep beside a line a writer is about to wake one; and
\* after the last drop a writer is about to wake them all.
THEOREM WakeupsAreDue == Spec => []WakeupDue
  <1>1. Init => WInv
    <2> SUFFICES ASSUME Init PROVE WInv
      OBVIOUS
    <2>1. Waiting = {}
      BY DEF Init, Waiting
    <2> QED
      BY <2>1, InitIInv DEF WInv, WakeupDue
  <1>2. WInv /\ [Next]_vars => WInv'
    <2> SUFFICES ASSUME WInv, [Next]_vars PROVE WakeupDue'
      BY NextIInv DEF WInv
    <2>1. ASSUME NEW w \in Writers, WriteStr(w) \/ WriteLine(w) PROVE WakeupDue'
      BY <2>1, WriterBegins, PipeAssumption DEF WriteStr, WriteLine
    <2>2. ASSUME NEW w \in Writers, EndLine(w) PROVE WakeupDue'
      <3>1. <<NewLine>> \in Seq(Chars)
        BY PipeAssumption
      <3> QED
        BY <2>2, <3>1, WriterBegins DEF EndLine
    <2>3. ASSUME NEW w \in Writers, PushChar(w) PROVE WakeupDue'
      BY <2>3, CharPushed
    <2>4. ASSUME NEW w \in Writers, EndStr(w) \/ Clone(w) \/ Drop(w)
          PROVE  WakeupDue'
      BY <2>4, WriterMoves
    <2>5. ASSUME NEW w \in Writers, NotifyOne(w) PROVE WakeupDue'
      BY <2>5, Notified
    <2>6. ASSUME NEW w \in Writers, NotifyAll(w) PROVE WakeupDue'
      BY <2>6, AllNotified
    <2>7. ASSUME NEW r \in Readers, ReadLine(r) \/ Reads(r) \/ SpuriousWakeup(r)
          PROVE  WakeupDue'
      BY <2>7, ReaderMoves
    <2>8. CASE UNCHANGED vars
      BY <2>8 DEF vars, WInv, WakeupDue, Waiting, Notifying, Trying
    <2> QED
      BY <2>1, <2>2, <2>3, <2>4, <2>5, <2>6, <2>7, <2>8 DEF Next, Completes
  <1>3. WInv => WakeupDue
    BY DEF WInv
  <1> QED
    BY <1>1, <1>2, <1>3, PTL DEF Spec
=============================================================================
