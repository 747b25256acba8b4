---------------------------- MODULE ShellProofs ----------------------------
(***************************************************************************)
(* Nobody waits for himself, and a variable is what it was last told to    *)
(* be: NoReaderWaits and LookupIsLastWrite, whatever the lines are.        *)
(***************************************************************************)
EXTENDS Shell, SequenceTheorems, TLAPS

\* s is a sequence, of whatever it is.
IsSequence(s) == s \in Seq({s[i] : i \in DOMAIN s})

\* The fields of a frame that say who reads and who writes.
Framed(f) == {"stages", "piped", "stdin", "stdout", "stderr", "command"} \subseteq DOMAIN f

\* The output of the command a frame waits for, when another command is to read it, is
\* written by no frame below and not by this one once the command is over.
Awaited(i) ==
    /\ frames[i].command.stdout \in DOMAIN outs
    /\ Len(frames[i].stages) > 1 =>
          /\ frames[i].command.stdout \notin {frames[i].stdout, frames[i].stderr}
          /\ \A j \in 1 .. (i - 1) : frames[i].command.stdout \notin Writes(frames[j])

IInv ==
    /\ IsSequence(frames) /\ IsSequence(outs)
    /\ error => frames # <<>>
    /\ \A i \in DOMAIN frames :
          Framed(frames[i]) /\ Writes(frames[i]) \cup MayRead(frames[i]) \subseteq DOMAIN outs
    /\ \A i \in DOMAIN frames : i < Len(frames) => Awaited(i)
    /\ NoReaderWaits

\* A sequence has a length.
LEMMA SequenceLen ==
    ASSUME NEW s, IsSequence(s)
    PROVE  Len(s) \in Nat /\ DOMAIN s = 1 .. Len(s)
  BY DEF IsSequence

\* An element of Seq(S) is a sequence.
LEMMA SequenceOver ==
    ASSUME NEW S, NEW s \in Seq(S)
    PROVE  IsSequence(s)
  <1>1. Len(s) \in Nat /\ DOMAIN s = 1 .. Len(s) /\ s = [i \in 1 .. Len(s) |-> s[i]]
    OBVIOUS
  <1>2. s \in [1 .. Len(s) -> {s[i] : i \in DOMAIN s}]
    BY <1>1
  <1> QED
    BY <1>1, <1>2 DEF IsSequence

\* The same sequence of other things.
LEMMA SequenceLike ==
    ASSUME NEW s, IsSequence(s), NEW t, t = [i \in DOMAIN s |-> t[i]]
    PROVE  IsSequence(t) /\ Len(t) = Len(s) /\ DOMAIN t = DOMAIN s
  <1>1. Len(s) \in Nat /\ DOMAIN s = 1 .. Len(s)
    BY SequenceLen
  <1>2. t \in [1 .. Len(s) -> {t[i] : i \in DOMAIN t}]
    BY <1>1
  <1>3. t \in Seq({t[i] : i \in DOMAIN t})
    BY <1>1, <1>2
  <1> QED
    BY <1>1, <1>2, <1>3 DEF IsSequence

\* The first p elements of a sequence and another one.
LEMMA Pushed ==
    ASSUME NEW s, IsSequence(s), NEW p \in 0 .. Len(s), NEW f
    PROVE  LET t == Append(SubSeq(s, 1, p), f)
           IN  /\ IsSequence(t) /\ Len(t) = p + 1
               /\ \A i \in 1 .. p : t[i] = s[i]
               /\ t[p + 1] = f
  <1> DEFINE S == {s[i] : i \in DOMAIN s} \cup {f}
             h == SubSeq(s, 1, p)
  <1>1. Len(s) \in Nat /\ DOMAIN s = 1 .. Len(s)
    BY SequenceLen
  <1>2. \A i \in 1 .. p : s[i] \in S
    BY <1>1
  <1> HIDE DEF S
  <1>3. p \in Int /\ 1 \in Int
    BY <1>1
  <1>4. h \in Seq(S) /\ Len(h) = (IF 1 <= p THEN p - 1 + 1 ELSE 0) /\ \A i \in 1 .. p - 1 + 1 : h[i] = s[1 + i - 1]
    BY <1>2, <1>3, SubSeqProperties
  <1>5. Len(h) = p /\ \A i \in 1 .. p : h[i] = s[i]
    BY <1>1, <1>4
  <1>6. f \in S
    BY DEF S
  <1> HIDE DEF h
  <1>7. /\ Append(h, f) \in Seq(S) /\ Len(Append(h, f)) = Len(h) + 1
        /\ \A i \in 1 .. Len(h) : Append(h, f)[i] = h[i]
        /\ Append(h, f)[Len(h) + 1] = f
    BY <1>4, <1>6, AppendProperties
  <1>8. IsSequence(Append(h, f))
    BY <1>7, SequenceOver
  <1> QED
    BY <1>5, <1>7, <1>8 DEF h

\* The same and two others.
LEMMA PushedTwice ==
    ASSUME NEW s, IsSequence(s), NEW p \in 0 .. Len(s), NEW f, NEW g
    PROVE  LET t == SubSeq(s, 1, p) \o <<f, g>>
           IN  /\ IsSequence(t) /\ Len(t) = p + 2
               /\ \A i \in 1 .. p : t[i] = s[i]
               /\ t[p + 1] = f /\ t[p + 2] = g
  <1> DEFINE S == {s[i] : i \in DOMAIN s} \cup {f, g}
             h == SubSeq(s, 1, p)
             e == <<f, g>>
  <1>1. Len(s) \in Nat /\ DOMAIN s = 1 .. Len(s)
    BY SequenceLen
  <1>2. \A i \in 1 .. p : s[i] \in S
    BY <1>1
  <1>3. e \in Seq(S) /\ Len(e) = 2 /\ e[1] = f /\ e[2] = g
    OBVIOUS
  <1> HIDE DEF S
  <1>4. p \in Int /\ 1 \in Int
    BY <1>1
  <1>5. h \in Seq(S) /\ Len(h) = (IF 1 <= p THEN p - 1 + 1 ELSE 0) /\ \A i \in 1 .. p - 1 + 1 : h[i] = s[1 + i - 1]
    BY <1>2, <1>4, SubSeqProperties
  <1>6. Len(h) = p /\ \A i \in 1 .. p : h[i] = s[i]
    BY <1>1, <1>5
  <1> HIDE DEF h, e
  <1>7. /\ h \o e \in Seq(S) /\ Len(h \o e) = Len(h) + Len(e)
        /\ \A i \in 1 .. Len(h) + Len(e) : (h \o e)[i] = IF i <= Len(h) THEN h[i] ELSE e[i - Len(h)]
    BY <1>3, <1>5, ConcatProperties
  <1>8. IsSequence(h \o e)
    BY <1>7, SequenceOver
  <1>9. Len(h \o e) = p + 2
    BY <1>1, <1>3, <1>6, <1>7
  <1>10. \A i \in 1 .. p : (h \o e)[i] = s[i]
    BY <1>1, <1>3, <1>6, <1>7
  <1>11. (h \o e)[p + 1] = f
    <2>1. p + 1 \in 1 .. Len(h) + Len(e) /\ ~(p + 1 <= Len(h)) /\ p + 1 - Len(h) = 1
      BY <1>1, <1>3, <1>6
    <2> QED
      BY <1>3, <1>7, <2>1
  <1>12. (h \o e)[p + 2] = g
    <2>1. p + 2 \in 1 .. Len(h) + Len(e) /\ ~(p + 2 <= Len(h)) /\ p + 2 - Len(h) = 2
      BY <1>1, <1>3, <1>6
    <2> QED
      BY <1>3, <1>7, <2>1
  <1> QED
    BY <1>8, <1>9, <1>10, <1>11, <1>12 DEF h, e

\* What two frames read and write of each other.
Apart(f, g) == MayRead(f) \cap Writes(g) = {} /\ MayRead(g) \cap Writes(f) = {}

\* A frame whose inputs and outputs there are, that reads nothing it writes.
Fits(f, there) == Framed(f) /\ Writes(f) \cup MayRead(f) \subseteq there /\ MayRead(f) \cap Writes(f) = {}

\* The first p frames stay and another one f comes on top of them.
LEMMA Topped ==
    ASSUME IInv, NEW p \in 0 .. Len(frames) - 1, NEW f,
           frames' = Append(SubSeq(frames, 1, p), f),
           IsSequence(outs'), DOMAIN outs \subseteq DOMAIN outs', Fits(f, DOMAIN outs'),
           \A i \in 1 .. p : Apart(frames[i], f)
    PROVE  IInv'
  <1>1. IsSequence(frames) /\ Len(frames) \in Nat /\ DOMAIN frames = 1 .. Len(frames)
    BY SequenceLen DEF IInv
  <1>2. /\ IsSequence(frames') /\ Len(frames') = p + 1
        /\ \A i \in 1 .. p : frames'[i] = frames[i]
        /\ frames'[p + 1] = f
    <2>1. p \in 0 .. Len(frames)
      BY <1>1
    <2> QED
      BY <1>1, <2>1, Pushed
  <1>3. p \in Nat /\ DOMAIN frames' = 1 .. p + 1 /\ 1 .. p \subseteq DOMAIN frames
    BY <1>1, <1>2, SequenceLen
  <1>4. frames' # <<>>
    BY <1>2, <1>3
  <1>5. ASSUME NEW i \in DOMAIN frames'
        PROVE  Framed(frames'[i]) /\ Writes(frames'[i]) \cup MayRead(frames'[i]) \subseteq DOMAIN outs'
    <2>1. CASE i \in 1 .. p
      BY <1>2, <1>3, <2>1 DEF IInv
    <2>2. CASE i = p + 1
      BY <1>2, <2>2 DEF Fits
    <2> QED
      BY <1>3, <2>1, <2>2
  <1>6. ASSUME NEW i \in DOMAIN frames', i < Len(frames')
        PROVE  Awaited(i)'
    <2>1. i \in 1 .. p /\ i \in DOMAIN frames /\ i < Len(frames) /\ frames'[i] = frames[i]
      BY <1>1, <1>2, <1>3, <1>6
    <2>2. Awaited(i)
      BY <2>1 DEF IInv
    <2>3. \A j \in 1 .. (i - 1) : frames'[j] = frames[j]
      BY <1>2, <1>3, <2>1
    <2> QED
      BY <2>1, <2>2, <2>3 DEF Awaited
  <1>7. ASSUME NEW i \in DOMAIN frames', NEW j \in DOMAIN frames'
        PROVE  MayRead(frames'[i]) \cap Writes(frames'[j]) = {}
    <2>1. CASE i \in 1 .. p /\ j \in 1 .. p
      BY <1>2, <1>3, <2>1 DEF IInv, NoReaderWaits
    <2>2. CASE i \in 1 .. p /\ j = p + 1
      BY <1>2, <2>2 DEF Apart
    <2>3. CASE i = p + 1 /\ j \in 1 .. p
      BY <1>2, <2>3 DEF Apart
    <2>4. CASE i = p + 1 /\ j = p + 1
      BY <1>2, <2>4 DEF Fits
    <2>5. (i \in 1 .. p \/ i = p + 1) /\ (j \in 1 .. p \/ j = p + 1)
      BY <1>3
    <2> QED
      BY <2>1, <2>2, <2>3, <2>4, <2>5, Zenon
  <1>8. NoReaderWaits'
    BY <1>7 DEF NoReaderWaits, MayRead, Writes
  <1> QED
    BY <1>2, <1>4, <1>5, <1>6, <1>8 DEF IInv, Framed, Writes, MayRead

\* The innermost frame goes on without a new input or output.
LEMMA Renewed ==
    ASSUME IInv, frames # <<>>, NEW f, Becomes(f),
           Framed(f), Writes(f) \subseteq Writes(top), MayRead(f) \subseteq MayRead(top),
           IsSequence(outs'), DOMAIN outs \subseteq DOMAIN outs'
    PROVE  IInv'
  <1>1. IsSequence(frames) /\ Len(frames) \in Nat /\ DOMAIN frames = 1 .. Len(frames)
    BY SequenceLen DEF IInv
  <1>2. Len(frames) \in DOMAIN frames
    BY <1>1 DEF IsSequence
  <1>3. frames[Len(frames)] = top
    BY DEF top, Last
  <1>4. Fits(f, DOMAIN outs')
    <2>1. Writes(top) \cup MayRead(top) \subseteq DOMAIN outs /\ MayRead(top) \cap Writes(top) = {}
      BY <1>2, <1>3 DEF IInv, NoReaderWaits
    <2> QED
      BY <2>1 DEF Fits
  <1>5. ASSUME NEW i \in 1 .. Len(frames) - 1
        PROVE  Apart(frames[i], f)
    <2>1. i \in DOMAIN frames
      BY <1>1
    <2>2. MayRead(frames[i]) \cap Writes(top) = {} /\ MayRead(top) \cap Writes(frames[i]) = {}
      BY <1>2, <1>3, <2>1 DEF IInv, NoReaderWaits
    <2> QED
      BY <2>2 DEF Apart
  <1>6. frames' = Append(SubSeq(frames, 1, Len(frames) - 1), f)
    BY DEF Becomes, Below, Front
  <1>7. Len(frames) - 1 \in 0 .. Len(frames) - 1
    BY <1>1, <1>2
  <1> QED
    BY <1>4, <1>5, <1>6, <1>7, Topped

\* The frame after a command waits for nothing; it has the pipe the command wrote, if
\* there is another command to read it.
LEMMA AfterCommand ==
    ASSUME NEW f, Framed(f), NEW code, NEW pipe
    PROVE  LET g == NextStage(f, code, pipe)
           IN  /\ Framed(g)
               /\ Writes(g) = {f.stdout, f.stderr}
               /\ MayRead(g) \subseteq MayRead(f) \cup IF Len(f.stages) > 1 /\ pipe # None THEN {pipe} ELSE {}
  <1>1. CASE Len(f.stages) > 1
    <2> DEFINE g == [f EXCEPT !.stages = Tail(@), !.code = code, !.piped = pipe, !.phase = "stages", !.command = None]
    <2>1. NextStage(f, code, pipe) = g
      BY <1>1 DEF NextStage
    <2>2. DOMAIN g = DOMAIN f /\ g.stdin = f.stdin /\ g.stdout = f.stdout /\ g.stderr = f.stderr /\ g.command = None /\ g.piped = pipe
      BY DEF Framed
    <2> QED
      BY <1>1, <2>1, <2>2 DEF Framed, Writes, MayRead
  <1>2. CASE ~(Len(f.stages) > 1)
    <2> DEFINE g == [f EXCEPT !.stages = <<>>, !.code = code, !.phase = "chain", !.command = None,
                              !.chain = Tail(@), !.before = Head(f.chain).after]
    <2>1. NextStage(f, code, pipe) = g
      BY <1>2 DEF NextStage
    <2>2. DOMAIN g = DOMAIN f /\ g.stdin = f.stdin /\ g.stdout = f.stdout /\ g.stderr = f.stderr /\ g.command = None /\ g.piped = f.piped
      BY DEF Framed
    <2> QED
      BY <1>2, <2>1, <2>2 DEF Framed, Writes, MayRead
  <1> QED
    BY <1>1, <1>2

\* A frame goes on after a command that came to its end, or stays as it is after
\* one that failed: what the next command reads is a pipe nobody writes any more.
LEMMA Ended ==
    ASSUME IInv, NEW p \in 0 .. Len(frames) - 1, NEW f, NEW there, NEW s, NEW c,
           Ends(f, SubSeq(frames, 1, p), there, s, c),
           IsSequence(there), DOMAIN outs \subseteq DOMAIN there, Fits(f, DOMAIN there),
           \A i \in 1 .. p : Apart(frames[i], f),
           Len(f.stages) > 1 => /\ c.stdout \in DOMAIN there \ {f.stdout, f.stderr}
                                /\ \A i \in 1 .. p : c.stdout \notin Writes(frames[i])
    PROVE  IInv'
  <1> DEFINE g == NextStage(f, s.code, c.stdout)
  <1>1. IsSequence(outs') /\ DOMAIN outs' = DOMAIN there
    <2>1. outs' = [id \in DOMAIN there |-> Closed(s, c).outs[id]]
      BY DEF Ends
    <2>2. outs' = [id \in DOMAIN there |-> outs'[id]]
      BY <2>1
    <2> QED
      BY <2>2, SequenceLike
  <1>2. frames' = Append(SubSeq(frames, 1, p), f) \/ frames' = Append(SubSeq(frames, 1, p), g)
    BY DEF Ends
  <1>3. CASE frames' = Append(SubSeq(frames, 1, p), f)
    BY <1>1, <1>3, Topped
  <1>4. CASE frames' = Append(SubSeq(frames, 1, p), g)
    <2>1. /\ Framed(g) /\ Writes(g) = {f.stdout, f.stderr}
          /\ MayRead(g) \subseteq MayRead(f) \cup IF Len(f.stages) > 1 /\ c.stdout # None THEN {c.stdout} ELSE {}
      BY AfterCommand DEF Fits
    <2>2. Writes(g) \subseteq Writes(f)
      BY <2>1 DEF Writes
    <2> HIDE DEF g
    <2>3. Fits(g, DOMAIN outs')
      BY <1>1, <2>1, <2>2 DEF Fits
    <2>4. ASSUME NEW i \in 1 .. p
          PROVE  Apart(frames[i], g)
      BY <2>1, <2>2 DEF Apart
    <2> QED
      BY <1>1, <1>4, <2>3, <2>4, Topped
  <1> QED
    BY <1>2, <1>3, <1>4

\* Two sequences joined are a sequence.
LEMMA Joined ==
    ASSUME NEW s, IsSequence(s), NEW t, IsSequence(t)
    PROVE  IsSequence(s \o t) /\ Len(s \o t) = Len(s) + Len(t)
  <1> DEFINE S == {s[i] : i \in DOMAIN s} \cup {t[i] : i \in DOMAIN t}
  <1>1. Len(s) \in Nat /\ DOMAIN s = 1 .. Len(s) /\ Len(t) \in Nat /\ DOMAIN t = 1 .. Len(t)
    BY SequenceLen
  <1>2. s \in Seq(S)
    <2>1. s \in Seq({s[i] : i \in DOMAIN s})
      BY DEF IsSequence
    <2> QED
      BY <2>1
  <1>3. t \in Seq(S)
    <2>1. t \in Seq({t[i] : i \in DOMAIN t})
      BY DEF IsSequence
    <2> QED
      BY <2>1
  <1> HIDE DEF S
  <1>4. s \o t \in Seq(S) /\ Len(s \o t) = Len(s) + Len(t)
    BY <1>2, <1>3, ConcatProperties
  <1> QED
    BY <1>4, SequenceOver

\* The outputs after those there are: none, or one.
LEMMA OneOutput ==
    ASSUME NEW x
    PROVE  IsSequence(<<x>>) /\ Len(<<x>>) = 1 /\ IsSequence(<<>>) /\ Len(<<>>) = 0 /\ <<x>> # <<>>
  BY SequenceOver DEF IsSequence

\* A command reads what its shell would read next, and writes what its shell writes or
\* an output made for it; before another command it writes a pipe made for it.
LEMMA RedirectedSides ==
    ASSUME IsSequence(outs)
    PROVE  LET c == Redirected
           IN  /\ IsSequence(c.outs) /\ DOMAIN outs \subseteq DOMAIN c.outs
               /\ c.stdin \in MayRead(top)
               /\ c.stdout \in {top.stdout} \cup (DOMAIN c.outs \ DOMAIN outs)
               /\ c.stderr \in {top.stdout, top.stderr} \cup (DOMAIN c.outs \ DOMAIN outs)
               /\ ~IsLast => c.stdout \in DOMAIN c.outs \ DOMAIN outs
  <1> DEFINE p     == NextPipeline
             n     == Len(outs)
             to(r) == <<Output(r.mode, Resolve(top.cwd, r.word))>>
             pipe  == <<Output("pipe", <<>>)>>
             out   == IF ~IsLast THEN pipe ELSE IF p.out = None THEN <<>> ELSE to(p.out)
             merge == Alone /\ p.err # None /\ p.err.mode = "merge"
             err   == IF Alone /\ p.err # None /\ ~merge THEN to(p.err) ELSE <<>>
             both  == merge /\ out = <<>>
             mid   == IF both THEN pipe ELSE out
             std   == IF out = <<>> /\ ~both THEN top.stdout ELSE n + 1
             there == outs \o mid \o err
             c     == Redirected
  <1>1. /\ c.outs = there
        /\ c.stdin = IF top.piped = None THEN top.stdin ELSE top.piped
        /\ c.stdout = std
        /\ c.stderr = IF merge THEN std ELSE IF err = <<>> THEN top.stderr ELSE n + Len(out) + 1
    BY DEF Redirected
  <1>2. /\ IsSequence(out) /\ Len(out) \in {0, 1} /\ (out # <<>> => Len(out) = 1)
        /\ ~IsLast => out # <<>>
    BY OneOutput
  <1>3. IsSequence(err) /\ Len(err) \in {0, 1} /\ (err # <<>> => Len(err) = 1 /\ ~merge)
    BY OneOutput
  <1>4. /\ IsSequence(mid) /\ Len(mid) \in {0, 1} /\ (out # <<>> \/ both => Len(mid) = 1)
        /\ ~merge => mid = out
    BY <1>2, OneOutput
  <1>5. n \in Nat /\ DOMAIN outs = 1 .. n
    BY SequenceLen
  <1> HIDE DEF out, err, merge, mid, pipe
  <1>6. IsSequence(outs \o mid) /\ Len(outs \o mid) = n + Len(mid)
    BY <1>4, Joined
  <1>7. IsSequence(there) /\ Len(there) = n + Len(mid) + Len(err)
    BY <1>3, <1>6, Joined
  <1>8. DOMAIN there = 1 .. n + Len(mid) + Len(err)
    BY <1>7, SequenceLen
  <1> HIDE DEF there, n, c
  <1>9. IsSequence(c.outs) /\ DOMAIN outs \subseteq DOMAIN c.outs
    BY <1>1, <1>3, <1>4, <1>5, <1>7, <1>8
  <1>10. c.stdin \in MayRead(top)
    BY <1>1 DEF MayRead
  <1>11. std # top.stdout \/ out # <<>> \/ both => std \in DOMAIN there \ DOMAIN outs
    <2>1. CASE out = <<>> /\ ~both
      BY <2>1
    <2>2. CASE out # <<>> \/ both
      <3>1. std = n + 1
        BY <2>2
      <3>2. n + 1 \in DOMAIN there \ DOMAIN outs
        BY <1>3, <1>4, <1>5, <1>8, <2>2
      <3> QED
        BY <3>1, <3>2
    <2> QED
      BY <2>1, <2>2
  <1>12. err # <<>> => n + Len(out) + 1 \in DOMAIN there \ DOMAIN outs
    BY <1>2, <1>3, <1>4, <1>5, <1>8
  <1>13. c.stdout \in {top.stdout} \cup (DOMAIN c.outs \ DOMAIN outs)
    BY <1>1, <1>11
  <1>14. c.stderr \in {top.stdout, top.stderr} \cup (DOMAIN c.outs \ DOMAIN outs)
    BY <1>1, <1>11, <1>12
  <1>15. ~IsLast => c.stdout \in DOMAIN c.outs \ DOMAIN outs
    BY <1>1, <1>2, <1>11
  <1> QED
    BY <1>9, <1>10, <1>13, <1>14, <1>15 DEF c

\* The innermost frame, and those below it.
LEMMA TopFits ==
    ASSUME IInv, frames # <<>>
    PROVE  /\ Len(frames) \in Nat \ {0} /\ DOMAIN frames = 1 .. Len(frames)
           /\ top = frames[Len(frames)] /\ Below = SubSeq(frames, 1, Len(frames) - 1)
           /\ Fits(top, DOMAIN outs)
           /\ \A i \in 1 .. Len(frames) - 1 : Apart(frames[i], top)
  <1>1. IsSequence(frames) /\ Len(frames) \in Nat /\ DOMAIN frames = 1 .. Len(frames)
    BY SequenceLen DEF IInv
  <1>2. Len(frames) \in Nat \ {0} /\ Len(frames) \in DOMAIN frames
    BY <1>1 DEF IsSequence
  <1>3. top = frames[Len(frames)] /\ Below = SubSeq(frames, 1, Len(frames) - 1)
    BY DEF top, Last, Below, Front
  <1>4. Fits(top, DOMAIN outs)
    BY <1>2, <1>3 DEF IInv, NoReaderWaits, Fits
  <1>5. ASSUME NEW i \in 1 .. Len(frames) - 1
        PROVE  Apart(frames[i], top)
    <2>1. i \in DOMAIN frames
      BY <1>1
    <2> QED
      BY <1>2, <1>3, <2>1 DEF IInv, NoReaderWaits, Apart
  <1> QED
    BY <1>1, <1>2, <1>3, <1>4, <1>5

\* A step of the innermost frame by itself: it may forget what it waited for, or was piped.
LEMMA Quiet ==
    ASSUME IInv, frames # <<>>, NEW f, Becomes(f), UNCHANGED outs,
           DOMAIN f = DOMAIN top, f.stdin = top.stdin, f.stdout = top.stdout, f.stderr = top.stderr,
           f.piped \in {top.piped, None}, f.command \in {top.command, None}
    PROVE  IInv'
  <1>1. Framed(top)
    BY TopFits DEF Fits
  <1>2. Framed(f)
    BY <1>1 DEF Framed
  <1>3. Writes(f) \subseteq Writes(top) /\ MayRead(f) \subseteq MayRead(top)
    BY DEF Writes, MayRead
  <1>4. IsSequence(outs') /\ DOMAIN outs \subseteq DOMAIN outs'
    BY DEF IInv
  <1> QED
    BY <1>2, <1>3, <1>4, Renewed

\* The first of several commands is not the last.
LEMMA MoreThanOne ==
    ASSUME Len(top.stages) > 1
    PROVE  ~IsLast
  <1> SUFFICES ASSUME IsLast
               PROVE  FALSE
    OBVIOUS
  <1>1. Len(top.stages) = 1
    BY DEF IsLast
  <1>2. 1 > 1
    BY <1>1, Zenon
  <1> QED
    BY <1>2

\* The command of a line ends, or is not there: its frame goes on.
LEMMA CommandEnds ==
    ASSUME IInv, frames # <<>>, NEW s, Ends(top, Below, Redirected.outs, s, Redirected)
    PROVE  IInv'
  <1> DEFINE L == Len(frames)
             c == Redirected
  <1>1. /\ L \in Nat \ {0} /\ DOMAIN frames = 1 .. L /\ top = frames[L] /\ Below = SubSeq(frames, 1, L - 1)
        /\ Fits(top, DOMAIN outs) /\ \A i \in 1 .. L - 1 : Apart(frames[i], top)
    BY TopFits
  <1>2. /\ IsSequence(c.outs) /\ DOMAIN outs \subseteq DOMAIN c.outs
        /\ ~IsLast => c.stdout \in DOMAIN c.outs \ DOMAIN outs
    BY RedirectedSides DEF IInv
  <1> HIDE DEF c, L
  <1>3. L - 1 \in 0 .. L - 1
    BY <1>1
  <1>4. Fits(top, DOMAIN c.outs)
    BY <1>1, <1>2 DEF Fits
  <1>5. ASSUME Len(top.stages) > 1
        PROVE  /\ c.stdout \in DOMAIN c.outs \ {top.stdout, top.stderr}
               /\ \A i \in 1 .. L - 1 : c.stdout \notin Writes(frames[i])
    <2>1. ~IsLast
      BY <1>5, MoreThanOne
    <2>2. c.stdout \in DOMAIN c.outs /\ c.stdout \notin DOMAIN outs
      BY <1>2, <2>1
    <2>3. c.stdout \notin {top.stdout, top.stderr}
      BY <1>1, <2>2 DEF Fits, Writes
    <2>4. ASSUME NEW i \in 1 .. L - 1
          PROVE  c.stdout \notin Writes(frames[i])
      <3>1. i \in DOMAIN frames
        BY <1>1
      <3>2. Writes(frames[i]) \subseteq DOMAIN outs
        BY <3>1 DEF IInv
      <3> QED
        BY <2>2, <3>2
    <2> QED
      BY <2>2, <2>3, <2>4
  <1>6. Ends(top, SubSeq(frames, 1, L - 1), c.outs, s, c)
    BY <1>1 DEF c
  <1> QED
    BY <1>1, <1>2, <1>3, <1>4, <1>5, <1>6, Ended DEF L

\* A shell begins as the command of the innermost frame.
LEMMA ShellBegins ==
    ASSUME IInv, frames # <<>>, NEW kind, NEW lines, NEW shvars, outs' = Redirected.outs,
           frames' = Below \o <<[top EXCEPT !.phase = "waiting", !.command = Redirected],
                                Shell(kind, lines, shvars, top.env, top.cwd, Redirected)>>
    PROVE  IInv'
  <1> DEFINE L == Len(frames)
             c == Redirected
             f == [top EXCEPT !.phase = "waiting", !.command = c]
             g == Shell(kind, lines, shvars, top.env, top.cwd, c)
  <1>1. /\ L \in Nat \ {0} /\ DOMAIN frames = 1 .. L /\ top = frames[L] /\ Below = SubSeq(frames, 1, L - 1)
        /\ Fits(top, DOMAIN outs) /\ \A i \in 1 .. L - 1 : Apart(frames[i], top)
    BY TopFits
  <1>2. /\ IsSequence(c.outs) /\ DOMAIN outs \subseteq DOMAIN c.outs
        /\ c.stdin \in MayRead(top)
        /\ c.stdout \in {top.stdout} \cup (DOMAIN c.outs \ DOMAIN outs)
        /\ c.stderr \in {top.stdout, top.stderr} \cup (DOMAIN c.outs \ DOMAIN outs)
        /\ ~IsLast => c.stdout \in DOMAIN c.outs \ DOMAIN outs
    BY RedirectedSides DEF IInv
  <1>3. outs' = c.outs /\ frames' = SubSeq(frames, 1, L - 1) \o <<f, g>>
    BY <1>1
  <1>4. Framed(top)
    BY <1>1 DEF Fits
  <1>5. /\ Framed(f) /\ f.stages = top.stages /\ f.command = c
        /\ f.stdin = top.stdin /\ f.piped = top.piped /\ f.stdout = top.stdout /\ f.stderr = top.stderr
    BY <1>4 DEF Framed
  <1>6. /\ Framed(g) /\ g.command = None /\ g.piped = None
        /\ g.stdin = c.stdin /\ g.stdout = c.stdout /\ g.stderr = c.stderr
    BY DEF Shell, Framed
  <1> HIDE DEF c, f, g, L
  <1> DEFINE W == Writes(top) \cup (DOMAIN outs' \ DOMAIN outs)
  <1>7. Writes(f) \subseteq W /\ Writes(g) \subseteq W
    BY <1>2, <1>3, <1>5, <1>6 DEF Writes
  <1>8. MayRead(f) = MayRead(top) /\ MayRead(g) \subseteq MayRead(top)
    BY <1>2, <1>5, <1>6 DEF MayRead
  <1>9. W \subseteq DOMAIN outs' /\ MayRead(top) \subseteq DOMAIN outs' /\ MayRead(top) \cap W = {}
    BY <1>1, <1>2, <1>3 DEF Fits
  <1>10. /\ IsSequence(frames') /\ Len(frames') = L - 1 + 2
         /\ \A i \in 1 .. L - 1 : frames'[i] = frames[i]
         /\ frames'[L - 1 + 1] = f /\ frames'[L - 1 + 2] = g
    <2>1. L - 1 \in 0 .. Len(frames)
      BY <1>1 DEF L
    <2>2. IsSequence(frames)
      BY DEF IInv
    <2> DEFINE t == SubSeq(frames, 1, L - 1) \o <<f, g>>
    <2>3. /\ IsSequence(t) /\ Len(t) = L - 1 + 2
          /\ \A i \in 1 .. L - 1 : t[i] = frames[i]
          /\ t[L - 1 + 1] = f /\ t[L - 1 + 2] = g
      BY <2>1, <2>2, PushedTwice
    <2>4. frames' = t
      BY <1>3
    <2> HIDE DEF t
    <2> QED
      BY <2>3, <2>4
  <1>11. /\ DOMAIN frames' = 1 .. L + 1 /\ Len(frames') = L + 1
         /\ frames'[L] = f /\ frames'[L + 1] = g
    <2>1. L - 1 + 1 = L /\ L - 1 + 2 = L + 1
      BY <1>1
    <2> QED
      BY <1>10, <2>1, SequenceLen
  <1>12. ASSUME NEW i \in 1 .. L + 1
         PROVE  i \in 1 .. L - 1 \/ i = L \/ i = L + 1
    BY <1>1
  <1>13. ASSUME NEW i \in 1 .. L - 1
         PROVE  /\ i \in DOMAIN frames /\ i < L /\ frames'[i] = frames[i]
                /\ Framed(frames[i]) /\ Writes(frames[i]) \cup MayRead(frames[i]) \subseteq DOMAIN outs
                /\ MayRead(frames[i]) \cap W = {} /\ MayRead(top) \cap Writes(frames[i]) = {}
    <2>1. i \in DOMAIN frames /\ i < L
      BY <1>1
    <2>2. Framed(frames[i]) /\ Writes(frames[i]) \cup MayRead(frames[i]) \subseteq DOMAIN outs
      BY <2>1 DEF IInv
    <2>3. MayRead(frames[i]) \cap Writes(top) = {} /\ MayRead(top) \cap Writes(frames[i]) = {}
      BY <1>1 DEF Apart
    <2> QED
      BY <1>10, <2>1, <2>2, <2>3
  <1>14. ASSUME NEW i \in 1 .. L + 1
         PROVE  Framed(frames'[i]) /\ Writes(frames'[i]) \cup MayRead(frames'[i]) \subseteq DOMAIN outs'
    <2>1. CASE i \in 1 .. L - 1
      BY <1>2, <1>3, <1>13, <2>1
    <2>2. CASE i = L
      BY <1>5, <1>7, <1>8, <1>9, <1>11, <2>2
    <2>3. CASE i = L + 1
      BY <1>6, <1>7, <1>8, <1>9, <1>11, <2>3
    <2> QED
      BY <1>12, <2>1, <2>2, <2>3
  <1>15. ASSUME NEW i \in 1 .. L + 1, i < L + 1
         PROVE  Awaited(i)'
    <2>1. CASE i \in 1 .. L - 1
      <3>1. Awaited(i)
        BY <1>13, <2>1 DEF IInv, L
      <3>2. \A j \in 1 .. (i - 1) : frames'[j] = frames[j]
        BY <1>1, <1>10, <2>1
      <3> QED
        BY <1>2, <1>3, <1>13, <2>1, <3>1, <3>2 DEF Awaited
    <2>2. CASE i = L
      <3>1. c.stdout \in DOMAIN outs'
        BY <1>1, <1>2, <1>3 DEF Fits, Writes
      <3>2. ASSUME Len(top.stages) > 1
            PROVE  /\ c.stdout \notin {f.stdout, f.stderr}
                   /\ \A j \in 1 .. (L - 1) : c.stdout \notin Writes(frames'[j])
        <4>1. ~IsLast
          BY <3>2, MoreThanOne
        <4>2. c.stdout \notin DOMAIN outs
          BY <1>2, <4>1
        <4>3. c.stdout \notin {f.stdout, f.stderr}
          BY <1>1, <1>5, <4>2 DEF Fits, Writes
        <4>4. ASSUME NEW j \in 1 .. (L - 1)
              PROVE  c.stdout \notin Writes(frames'[j])
          BY <1>13, <4>2
        <4> QED
          BY <4>3, <4>4
      <3> QED
        BY <1>5, <1>11, <2>2, <3>1, <3>2 DEF Awaited
    <2> QED
      BY <1>12, <1>15, <2>1, <2>2
  <1>16. ASSUME NEW i \in 1 .. L + 1, NEW j \in 1 .. L + 1
         PROVE  MayRead(frames'[i]) \cap Writes(frames'[j]) = {}
    <2>1. CASE i \in 1 .. L - 1 /\ j \in 1 .. L - 1
      BY <1>13, <2>1 DEF IInv, NoReaderWaits
    <2>2. CASE i \in 1 .. L - 1 /\ j \in {L, L + 1}
      BY <1>7, <1>11, <1>13, <2>2
    <2>3. CASE i \in {L, L + 1} /\ j \in 1 .. L - 1
      BY <1>8, <1>11, <1>13, <2>3
    <2>4. CASE i \in {L, L + 1} /\ j \in {L, L + 1}
      BY <1>7, <1>8, <1>9, <1>11, <2>4
    <2>5. (i \in 1 .. L - 1 \/ i \in {L, L + 1}) /\ (j \in 1 .. L - 1 \/ j \in {L, L + 1})
      BY <1>12
    <2> QED
      BY <2>1, <2>2, <2>3, <2>4, <2>5, Zenon
  <1>17. frames' # <<>>
    BY <1>1, <1>11
  <1>18. IsSequence(outs')
    BY <1>2, <1>3
  <1>19. NoReaderWaits'
    BY <1>11, <1>16 DEF NoReaderWaits, MayRead, Writes
  <1> QED
    BY <1>10, <1>11, <1>14, <1>15, <1>17, <1>18, <1>19 DEF IInv, Framed, Writes, MayRead

\* A phase is that of a shell there is.
LEMMA HasFrames ==
    ASSUME NEW phase, At(phase)
    PROVE  frames # <<>>
  BY DEF At

\* What the lines of a shell, and its chains, do to it alone.
LEMMA LinesKeep ==
    ASSUME IInv, SkipLine \/ AssignLine \/ AssignOne \/ AssignEnds \/ BeginLine \/ EndLine \/ SkipPipeline \/ BeginPipeline
    PROVE  IInv'
  <1>1. CASE SkipLine
    <2>1. frames # <<>>
      BY <1>1, HasFrames DEF SkipLine, HasLine
    <2> DEFINE f == [top EXCEPT !.lines = Tail(@)]
    <2>2. Becomes(f) /\ UNCHANGED outs
      BY <1>1 DEF SkipLine
    <2>3. /\ DOMAIN f = DOMAIN top /\ f.stdin = top.stdin /\ f.stdout = top.stdout /\ f.stderr = top.stderr
          /\ f.piped = top.piped /\ f.command = top.command
      BY <2>1, TopFits DEF Fits, Framed
    <2> HIDE DEF f
    <2> QED
      BY <2>1, <2>2, <2>3, Quiet
  <1>2. CASE AssignLine
    <2>1. frames # <<>>
      BY <1>2, HasFrames DEF AssignLine, OnlyAssignments, HasLine
    <2> DEFINE f == [top EXCEPT !.phase = "assign", !.left = Assigned(<<>>, Raw)]
    <2>2. Becomes(f) /\ UNCHANGED outs
      BY <1>2 DEF AssignLine
    <2>3. /\ DOMAIN f = DOMAIN top /\ f.stdin = top.stdin /\ f.stdout = top.stdout /\ f.stderr = top.stderr
          /\ f.piped = top.piped /\ f.command = top.command
      BY <2>1, TopFits DEF Fits, Framed
    <2> HIDE DEF f
    <2> QED
      BY <2>1, <2>2, <2>3, Quiet
  <1>7. CASE AssignOne
    <2>1. frames # <<>>
      BY <1>7, HasFrames DEF AssignOne
    <2>2. PICK n, v : /\ Becomes([top EXCEPT !.shvars = With(@, n, v), !.latest = With(@, n, v), !.left = Without(@, n)])
                      /\ UNCHANGED outs
      BY <1>7 DEF AssignOne
    <2> DEFINE f == [top EXCEPT !.shvars = With(@, n, v), !.latest = With(@, n, v), !.left = Without(@, n)]
    <2>3. /\ DOMAIN f = DOMAIN top /\ f.stdin = top.stdin /\ f.stdout = top.stdout /\ f.stderr = top.stderr
          /\ f.piped = top.piped /\ f.command = top.command
      BY <2>1, TopFits DEF Fits, Framed
    <2>4. Becomes(f)
      BY <2>2
    <2> HIDE DEF f
    <2> QED
      BY <2>1, <2>2, <2>3, <2>4, Quiet
  <1>8. CASE AssignEnds
    <2>1. frames # <<>>
      BY <1>8, HasFrames DEF AssignEnds
    <2> DEFINE f == [top EXCEPT !.phase = "lines", !.lines = Tail(@), !.exit = 0]
    <2>2. Becomes(f) /\ UNCHANGED outs
      BY <1>8 DEF AssignEnds
    <2>3. /\ DOMAIN f = DOMAIN top /\ f.stdin = top.stdin /\ f.stdout = top.stdout /\ f.stderr = top.stderr
          /\ f.piped = top.piped /\ f.command = top.command
      BY <2>1, TopFits DEF Fits, Framed
    <2> HIDE DEF f
    <2> QED
      BY <2>1, <2>2, <2>3, Quiet
  <1>3. CASE BeginLine
    <2>1. frames # <<>>
      BY <1>3, HasFrames DEF BeginLine, HasLine
    <2> DEFINE f == [top EXCEPT !.phase = "chain", !.chain = parse_command_chain(Expanded), !.before = None, !.code = 0]
    <2>2. Fails \/ (Becomes(f) /\ UNCHANGED outs)
      BY <1>3 DEF BeginLine
    <2>3. CASE Fails
      <3>1. frames' = frames /\ outs' = outs
        BY <2>3 DEF Fails
      <3> QED
        BY <2>1, <3>1 DEF IInv, Framed, Writes, MayRead, Awaited, NoReaderWaits
    <2>4. CASE Becomes(f) /\ UNCHANGED outs
      <3>1. /\ DOMAIN f = DOMAIN top /\ f.stdin = top.stdin /\ f.stdout = top.stdout /\ f.stderr = top.stderr
            /\ f.piped = top.piped /\ f.command = top.command
        BY <2>1, TopFits DEF Fits, Framed
      <3> HIDE DEF f
      <3> QED
        BY <2>1, <2>4, <3>1, Quiet
    <2> QED
      BY <2>2, <2>3, <2>4
  <1>4. CASE EndLine
    <2>1. frames # <<>>
      BY <1>4, HasFrames DEF EndLine
    <2> DEFINE code == <<ToString(top.code)>>
               f == [top EXCEPT !.phase = "lines", !.lines = Tail(@), !.exit = top.code,
                                !.shvars = With(@, "?", code), !.latest = With(@, "?", code)]
    <2>2. Becomes(f) /\ UNCHANGED outs
      BY <1>4 DEF EndLine
    <2>3. /\ DOMAIN f = DOMAIN top /\ f.stdin = top.stdin /\ f.stdout = top.stdout /\ f.stderr = top.stderr
          /\ f.piped = top.piped /\ f.command = top.command
      BY <2>1, TopFits DEF Fits, Framed
    <2> HIDE DEF f
    <2> QED
      BY <2>1, <2>2, <2>3, Quiet
  <1>5. CASE SkipPipeline
    <2>1. frames # <<>>
      BY <1>5, HasFrames DEF SkipPipeline
    <2> DEFINE f == [top EXCEPT !.chain = Tail(@), !.before = NextPipeline.after]
    <2>2. Becomes(f) /\ UNCHANGED outs
      BY <1>5 DEF SkipPipeline
    <2>3. /\ DOMAIN f = DOMAIN top /\ f.stdin = top.stdin /\ f.stdout = top.stdout /\ f.stderr = top.stderr
          /\ f.piped = top.piped /\ f.command = top.command
      BY <2>1, TopFits DEF Fits, Framed
    <2> HIDE DEF f
    <2> QED
      BY <2>1, <2>2, <2>3, Quiet
  <1>6. CASE BeginPipeline
    <2>1. frames # <<>>
      BY <1>6, HasFrames DEF BeginPipeline
    <2> DEFINE idle  == [top EXCEPT !.chain = Tail(@), !.before = NextPipeline.after, !.code = 0]
               start == [top EXCEPT !.phase = "stages", !.stages = NextPipeline.commands, !.piped = None, !.code = 0]
               f     == IF IsIdle(NextPipeline) THEN idle ELSE start
    <2>2. Becomes(f) /\ UNCHANGED outs
      BY <1>6 DEF BeginPipeline
    <2>3. /\ DOMAIN idle = DOMAIN top /\ idle.stdin = top.stdin /\ idle.stdout = top.stdout /\ idle.stderr = top.stderr
          /\ idle.piped = top.piped /\ idle.command = top.command
      BY <2>1, TopFits DEF Fits, Framed
    <2>4. /\ DOMAIN start = DOMAIN top /\ start.stdin = top.stdin /\ start.stdout = top.stdout /\ start.stderr = top.stderr
          /\ start.piped = None /\ start.command = top.command
      BY <2>1, TopFits DEF Fits, Framed
    <2> HIDE DEF idle, start
    <2>5. /\ DOMAIN f = DOMAIN top /\ f.stdin = top.stdin /\ f.stdout = top.stdout /\ f.stderr = top.stderr
          /\ f.piped \in {top.piped, None} /\ f.command = top.command
      BY <2>3, <2>4
    <2> HIDE DEF f
    <2> QED
      BY <2>1, <2>2, <2>5, Quiet
  <1> QED
    BY <1>1, <1>2, <1>3, <1>4, <1>5, <1>6, <1>7, <1>8

\* A line written leaves the outputs that there are.
LEMMA WrittenLine ==
    ASSUME NEW s, {"outs", "files", "code", "failed"} \subseteq DOMAIN s, IsSequence(s.outs), NEW id, NEW line
    PROVE  IsSequence(write_line(s, id, line).outs) /\ DOMAIN write_line(s, id, line).outs = DOMAIN s.outs
  <1> DEFINE o    == s.outs[id]
             more == [s EXCEPT !.outs[id].text = Append(@, line)]
             file == [s EXCEPT !.files = (o.path :> Append(TextAt(@, o.path), line)) @@ @]
             bad  == [s EXCEPT !.failed = TRUE]
  <1>1. write_line(s, id, line) \in {more, file, bad}
    BY DEF write_line
  <1>2. IsSequence(more.outs) /\ DOMAIN more.outs = DOMAIN s.outs
    <2>1. more.outs = [s.outs EXCEPT ![id].text = Append(@, line)]
      OBVIOUS
    <2>2. more.outs = [i \in DOMAIN s.outs |-> more.outs[i]]
      BY <2>1
    <2> QED
      BY <2>2, SequenceLike
  <1>3. file.outs = s.outs
    OBVIOUS
  <1>4. bad.outs = s.outs
    OBVIOUS
  <1> HIDE DEF more, file, bad
  <1> QED
    BY <1>1, <1>2, <1>3, <1>4

\* A frame like the innermost one but for what it has in hand.
Resembles(f) ==
    /\ Framed(f) /\ Writes(f) = Writes(top) /\ MayRead(f) = MayRead(top)
    /\ {f.stdout, f.stderr} \subseteq Writes(top)

\* An argument of set, unset or export, and cd, leave the inputs and outputs as they are.
LEMMA ToldResembles ==
    ASSUME NEW g, Resembles(g), NEW words, NEW w, NEW x
    PROVE  /\ Resembles(Told(g, words)) /\ Resembles(cd(g)) /\ Resembles([g EXCEPT !.left = x])
           /\ Resembles([g EXCEPT !.phase = "tell", !.code = 0, !.left = x])
           /\ Resembles(set(g, w)) /\ Resembles(unset(g, w)) /\ Resembles(export(g, w))
  <1>1. ASSUME NEW f, DOMAIN f = DOMAIN g, f.stdin = g.stdin, f.stdout = g.stdout, f.stderr = g.stderr,
               f.piped = g.piped, f.command = g.command
        PROVE  Resembles(f)
    BY <1>1 DEF Resembles, Framed, Writes, MayRead
  <1>2. ASSUME NEW v
        PROVE  Resembles(Told(g, v))
    <2> DEFINE f == Told(g, v)
    <2>1. /\ DOMAIN f = DOMAIN g /\ f.stdin = g.stdin /\ f.stdout = g.stdout /\ f.stderr = g.stderr
          /\ f.piped = g.piped /\ f.command = g.command
      BY DEF Told, Resembles, Framed
    <2> HIDE DEF f
    <2> QED
      BY <1>1, <2>1 DEF f
  <1>3. Resembles(cd(g))
    <2> DEFINE f == cd(g)
    <2>1. PICK path : f = [g EXCEPT !.cwd = path, !.code = 0] \/ f = [g EXCEPT !.code = 1]
      BY DEF cd
    <2> HIDE DEF f
    <2>2. /\ DOMAIN f = DOMAIN g /\ f.stdin = g.stdin /\ f.stdout = g.stdout /\ f.stderr = g.stderr
          /\ f.piped = g.piped /\ f.command = g.command
      BY <2>1 DEF Resembles, Framed
    <2> QED
      BY <1>1, <2>2 DEF f
  <1>4. Resembles([g EXCEPT !.left = x])
    <2> DEFINE f == [g EXCEPT !.left = x]
    <2>1. /\ DOMAIN f = DOMAIN g /\ f.stdin = g.stdin /\ f.stdout = g.stdout /\ f.stderr = g.stderr
          /\ f.piped = g.piped /\ f.command = g.command
      BY DEF Resembles, Framed
    <2> HIDE DEF f
    <2> QED
      BY <1>1, <2>1 DEF f
  <1>5. Resembles([g EXCEPT !.phase = "tell", !.code = 0, !.left = x])
    <2> DEFINE f == [g EXCEPT !.phase = "tell", !.code = 0, !.left = x]
    <2>1. /\ DOMAIN f = DOMAIN g /\ f.stdin = g.stdin /\ f.stdout = g.stdout /\ f.stderr = g.stderr
          /\ f.piped = g.piped /\ f.command = g.command
      BY DEF Resembles, Framed
    <2> HIDE DEF f
    <2> QED
      BY <1>1, <2>1 DEF f
  <1>6. Resembles(set(g, w))
    <2>1. CASE IsAssignment(w)
      BY <1>2, <2>1 DEF set
    <2>2. CASE ~IsAssignment(w)
      <3> DEFINE f == [g EXCEPT !.code = 1]
      <3>1. /\ DOMAIN f = DOMAIN g /\ f.stdin = g.stdin /\ f.stdout = g.stdout /\ f.stderr = g.stderr
            /\ f.piped = g.piped /\ f.command = g.command
        BY DEF Resembles, Framed
      <3>2. set(g, w) = f
        BY <2>2 DEF set
      <3> HIDE DEF f
      <3> QED
        BY <1>1, <3>1, <3>2
    <2> QED
      BY <2>1, <2>2
  <1>7. Resembles(unset(g, w))
    <2> DEFINE f == unset(g, w)
    <2>1. /\ DOMAIN f = DOMAIN g /\ f.stdin = g.stdin /\ f.stdout = g.stdout /\ f.stderr = g.stderr
          /\ f.piped = g.piped /\ f.command = g.command
      BY DEF unset, Resembles, Framed
    <2> HIDE DEF f
    <2> QED
      BY <1>1, <2>1 DEF f
  <1>8. Resembles(export(g, w))
    <2> DEFINE f == export(g, w)
    <2>1. PICK a, b, c : f = [g EXCEPT !.shvars = a, !.env = b, !.latest = c] \/ f = [g EXCEPT !.shvars = a, !.env = b] \/ f = g
      <3> DEFINE a1 == Without(g.shvars, NameOf(w))
                 b1 == Assigned(g.env, <<w>>)
                 c1 == Assigned(g.latest, <<w>>)
                 a2 == Without(g.shvars, w[1])
                 b2 == With(g.env, w[1], g.shvars[w[1]])
      <3>1. f = [g EXCEPT !.shvars = a1, !.env = b1, !.latest = c1] \/ f = [g EXCEPT !.shvars = a2, !.env = b2] \/ f = g
        BY DEF export
      <3> HIDE DEF a1, b1, c1, a2, b2, f
      <3> QED
        BY <3>1
    <2> HIDE DEF f
    <2>2. /\ DOMAIN f = DOMAIN g /\ f.stdin = g.stdin /\ f.stdout = g.stdout /\ f.stderr = g.stderr
          /\ f.piped = g.piped /\ f.command = g.command
      BY <2>1 DEF Resembles, Framed
    <2> QED
      BY <1>1, <2>2 DEF f
  <1> QED
    BY <1>2, <1>3, <1>4, <1>5, <1>6, <1>7, <1>8

\* A command that changes the shell is over.
LEMMA ChangeIsOver ==
    ASSUME IInv, frames # <<>>, NEW f, Resembles(f), Changes(f)
    PROVE  IInv'
  <1> DEFINE s == IF f.code = 0 THEN Progress ELSE write_line(Progress, f.stderr, Complaint(Argv).line)
             h == NextStage(f, f.code, None)
  <1>1. Becomes(IF s.failed THEN f ELSE h) /\ outs' = s.outs
    BY DEF Changes
  <1>2. Framed(f) /\ Writes(f) = Writes(top) /\ MayRead(f) = MayRead(top) /\ {f.stdout, f.stderr} \subseteq Writes(top)
    BY DEF Resembles
  <1>3. IsSequence(s.outs) /\ DOMAIN s.outs = DOMAIN outs
    <2>1. {"outs", "files", "code", "failed"} \subseteq DOMAIN Progress /\ Progress.outs = outs
      BY DEF Progress
    <2>2. IsSequence(Progress.outs)
      BY <2>1 DEF IInv
    <2> QED
      BY <2>1, <2>2, WrittenLine
  <1> HIDE DEF s
  <1>4. Framed(h) /\ Writes(h) \subseteq Writes(top) /\ MayRead(h) \subseteq MayRead(top)
    BY <1>2, AfterCommand
  <1>5. IsSequence(outs') /\ DOMAIN outs \subseteq DOMAIN outs'
    BY <1>1, <1>3
  <1> HIDE DEF h
  <1>6. CASE s.failed
    BY <1>1, <1>2, <1>5, <1>6, Renewed
  <1>7. CASE ~s.failed
    BY <1>1, <1>4, <1>5, <1>7, Renewed
  <1> QED
    BY <1>6, <1>7

\* The commands that change the shell, and assignments instead of a command.
LEMMA WordsKeep ==
    ASSUME IInv, EmptyStage \/ AssignWords \/ ChangeDir \/ TellShell \/ TellOne \/ TellEnds
    PROVE  IInv'
  <1>1. CASE EmptyStage
    <2>1. frames # <<>>
      BY <1>1, HasFrames DEF EmptyStage
    <2> DEFINE f == NextStage(top, top.code, None)
    <2>2. Becomes(f) /\ UNCHANGED outs
      BY <1>1 DEF EmptyStage
    <2>3. Framed(f) /\ Writes(f) \subseteq Writes(top) /\ MayRead(f) \subseteq MayRead(top)
      <3>1. Framed(top) /\ {top.stdout, top.stderr} \subseteq Writes(top)
        BY <2>1, TopFits DEF Fits, Writes
      <3> QED
        BY <3>1, AfterCommand
    <2>4. IsSequence(outs') /\ DOMAIN outs \subseteq DOMAIN outs'
      BY <2>2 DEF IInv
    <2> HIDE DEF f
    <2> QED
      BY <2>1, <2>2, <2>3, <2>4, Renewed
  <1>2. CASE AssignWords
    <2>1. frames # <<>>
      BY <1>2, HasFrames DEF AssignWords
    <2> DEFINE g == Told(top, Settings)
               f == NextStage(g, 0, None)
    <2>2. Becomes(f) /\ UNCHANGED outs
      BY <1>2 DEF AssignWords
    <2>3. Framed(g) /\ Writes(g) = Writes(top) /\ MayRead(g) = MayRead(top) /\ {g.stdout, g.stderr} \subseteq Writes(top)
      BY <2>1, TopFits DEF Fits, Framed, Told, Writes, MayRead
    <2> HIDE DEF g
    <2>4. Framed(f) /\ Writes(f) \subseteq Writes(top) /\ MayRead(f) \subseteq MayRead(top)
      BY <2>3, AfterCommand
    <2>5. IsSequence(outs') /\ DOMAIN outs \subseteq DOMAIN outs'
      BY <2>2 DEF IInv
    <2> HIDE DEF f
    <2> QED
      BY <2>1, <2>2, <2>4, <2>5, Renewed
  <1>3. ASSUME frames # <<>>
        PROVE  Resembles(top)
    BY <1>3, TopFits DEF Fits, Resembles, Writes
  <1>4. ASSUME frames # <<>>, NEW f, Becomes(f), UNCHANGED outs, Resembles(f)
        PROVE  IInv'
    <2>1. IsSequence(outs') /\ DOMAIN outs \subseteq DOMAIN outs'
      BY <1>4 DEF IInv
    <2> QED
      BY <1>4, <2>1, Renewed DEF Resembles
  <1>5. CASE ChangeDir
    <2>1. frames # <<>>
      BY <1>5, HasFrames DEF ChangeDir, IsSpecial, IsStage
    <2>2. Resembles(cd(Told(top, Settings)))
      <3>1. Resembles(Told(top, Settings))
        BY <1>3, <2>1, ToldResembles
      <3> QED
        BY <3>1, ToldResembles
    <2>3. Changes(cd(Told(top, Settings)))
      BY <1>5 DEF ChangeDir
    <2> QED
      BY <2>1, <2>2, <2>3, ChangeIsOver
  <1>6. CASE TellShell
    <2>1. frames # <<>>
      BY <1>6, HasFrames DEF TellShell, IsSpecial, IsStage
    <2> DEFINE g == Told(top, Settings)
               f == [g EXCEPT !.phase = "tell", !.code = 0, !.left = Tail(Argv)]
    <2>2. Resembles(f)
      <3>1. Resembles(g)
        BY <1>3, <2>1, ToldResembles
      <3> HIDE DEF g
      <3> QED
        BY <3>1, ToldResembles
    <2>3. Becomes(f) /\ UNCHANGED outs
      BY <1>6 DEF TellShell
    <2> HIDE DEF f
    <2> QED
      BY <1>4, <2>1, <2>2, <2>3
  <1>7. CASE TellOne
    <2>1. frames # <<>>
      BY <1>7, HasFrames DEF TellOne
    <2> DEFINE g == Tell(top, Head(top.left))
               f == [g EXCEPT !.left = Tail(@)]
    <2>2. Resembles(g)
      <3>1. PICK w : g \in {set(top, w), unset(top, w), export(top, w)}
        BY DEF Tell
      <3>2. Resembles(set(top, w)) /\ Resembles(unset(top, w)) /\ Resembles(export(top, w))
        BY <1>3, <2>1, ToldResembles
      <3> HIDE DEF g
      <3> QED
        BY <3>1, <3>2
    <2>3. Becomes(f) /\ UNCHANGED outs
      BY <1>7 DEF TellOne
    <2> HIDE DEF g
    <2>4. Resembles(f)
      BY <2>2, ToldResembles
    <2> HIDE DEF f
    <2> QED
      BY <1>4, <2>1, <2>3, <2>4
  <1>8. CASE TellEnds
    <2>1. frames # <<>>
      BY <1>8, HasFrames DEF TellEnds
    <2>2. Changes(top)
      BY <1>8 DEF TellEnds
    <2> QED
      BY <1>3, <2>1, <2>2, ChangeIsOver
  <1> QED
    BY <1>1, <1>2, <1>5, <1>6, <1>7, <1>8

\* Commands that are one step, those there are not, and shells that begin.
LEMMA CommandsKeep ==
    ASSUME IInv, Unknown \/ Simple \/ SubShell
    PROVE  IInv'
  <1> DEFINE c == Redirected
  <1>1. frames # <<>>
    BY HasFrames DEF Unknown, Simple, SubShell, IsStage
  <1>2. CASE Unknown
    <2>1. Ends(top, Below, c.outs, [Progress EXCEPT !.outs = c.outs, !.failed = TRUE], c)
      BY <1>2 DEF Unknown
    <2> QED
      BY <1>1, <2>1, CommandEnds
  <1>3. CASE Simple
    <2>1. PICK s : Ends(top, Below, c.outs, s, c)
      BY <1>3 DEF Simple
    <2> QED
      BY <1>1, <2>1, CommandEnds
  <1>4. CASE SubShell
    <2> DEFINE begins(kind, lines) ==
                   /\ frames' = Below \o <<[top EXCEPT !.phase = "waiting", !.command = c],
                                           Shell(kind, lines, Assigned(top.shvars, Settings), top.env, top.cwd, c)>>
                   /\ outs' = c.outs
               refused(code) ==
                   Ends(top, Below, c.outs, [write_line([Progress EXCEPT !.outs = c.outs], c.stderr, Complaint(Argv).line)
                                                EXCEPT !.code = code], c)
    <2>1. \/ refused(2) \/ refused(127)
          \/ begins("line", <<Argv[3]>>) \/ begins("script", files[FromRoot(Argv[2])])
      BY <1>4 DEF SubShell
    <2>2. ASSUME NEW code, refused(code)
          PROVE  IInv'
      BY <1>1, <2>2, CommandEnds
    <2>3. ASSUME NEW kind, NEW lines, begins(kind, lines)
          PROVE  IInv'
      BY <1>1, <2>3, ShellBegins
    <2> HIDE DEF refused, begins
    <2> QED
      BY <2>1, <2>2, <2>3
  <1> QED
    BY <1>2, <1>3, <1>4

\* The shell that waits for the innermost one, and those below it.
LEMMA Parent ==
    ASSUME IInv, Len(frames) > 1
    PROVE  Last(Below) = frames[Len(frames) - 1] /\ Front(Below) = SubSeq(frames, 1, Len(frames) - 2)
  <1> DEFINE L == Len(frames)
             parent == frames[L - 1]
             p == L - 2
  <1>1. L \in Nat /\ L > 1 /\ DOMAIN frames = 1 .. L
    BY SequenceLen DEF IInv
  <1>2. frames # <<>>
    BY <1>1
  <1>3. p \in 0 .. L - 1 /\ L - 1 \in DOMAIN frames /\ L - 1 < L /\ 1 .. p \subseteq DOMAIN frames /\ p = L - 1 - 1
    BY <1>1
  <1>4. Len(Below) = L - 1 /\ Last(Below) = parent /\ Front(Below) = SubSeq(frames, 1, p)
    <2> DEFINE S == {frames[i] : i \in DOMAIN frames}
    <2>1. Below = SubSeq(frames, 1, L - 1)
      BY <1>2, TopFits
    <2>2. \A i \in 1 .. L - 1 : frames[i] \in S
      BY <1>1
    <2> HIDE DEF S
    <2>3. L - 1 \in Int /\ 1 \in Int /\ p \in Int
      BY <1>1
    <2>4. /\ Len(Below) = (IF 1 <= L - 1 THEN L - 1 - 1 + 1 ELSE 0)
          /\ \A i \in 1 .. L - 1 - 1 + 1 : Below[i] = frames[1 + i - 1]
      BY <2>1, <2>2, <2>3, SubSeqProperties
    <2>5. Len(Below) = L - 1 /\ \A i \in 1 .. L - 1 : Below[i] = frames[i]
      <3> DEFINE b == Below
      <3>1. Len(b) = (IF 1 <= L - 1 THEN L - 1 - 1 + 1 ELSE 0) /\ \A i \in 1 .. L - 1 - 1 + 1 : b[i] = frames[1 + i - 1]
        BY <2>4
      <3> HIDE DEF b, L
      <3>2. Len(b) = L - 1
        BY <1>1, <3>1
      <3>3. ASSUME NEW i \in 1 .. L - 1
            PROVE  b[i] = frames[i]
        <4>1. i \in 1 .. L - 1 - 1 + 1 /\ 1 + i - 1 = i
          BY <1>1
        <4> QED
          BY <3>1, <4>1
      <3> QED
        BY <3>2, <3>3 DEF b
    <2>6. Last(Below) = parent
      BY <1>1, <2>5 DEF Last
    <2>7. Front(Below) = SubSeq(Below, 1, p)
      BY <1>1, <2>5 DEF Front
    <2>8. \A i \in 1 .. p : Below[i] \in S /\ frames[i] \in S
      BY <1>1, <2>2, <2>5
    <2>9. /\ SubSeq(Below, 1, p) \in Seq(S) /\ Len(SubSeq(Below, 1, p)) = (IF 1 <= p THEN p - 1 + 1 ELSE 0)
          /\ \A i \in 1 .. p - 1 + 1 : SubSeq(Below, 1, p)[i] = Below[1 + i - 1]
      BY <2>3, <2>8, SubSeqProperties
    <2>10. /\ SubSeq(frames, 1, p) \in Seq(S) /\ Len(SubSeq(frames, 1, p)) = (IF 1 <= p THEN p - 1 + 1 ELSE 0)
           /\ \A i \in 1 .. p - 1 + 1 : SubSeq(frames, 1, p)[i] = frames[1 + i - 1]
      BY <2>3, <2>8, SubSeqProperties
    <2>11. Len(SubSeq(Below, 1, p)) = p /\ \A i \in 1 .. p : SubSeq(Below, 1, p)[i] = Below[i]
      BY <1>1, <2>9
    <2>12. Len(SubSeq(frames, 1, p)) = p /\ \A i \in 1 .. p : SubSeq(frames, 1, p)[i] = frames[i]
      BY <1>1, <2>10
    <2>13. \A i \in 1 .. p : SubSeq(Below, 1, p)[i] = SubSeq(frames, 1, p)[i]
      BY <1>1, <2>5, <2>11, <2>12
    <2>14. SubSeq(Below, 1, p) = SubSeq(frames, 1, p)
      BY <2>9, <2>10, <2>11, <2>12, <2>13, SeqEqual
    <2> QED
      BY <2>5, <2>6, <2>7, <2>14
  <1> QED
    BY <1>4

\* The shell above a waiting one is gone, and the waiting one goes on.
LEMMA ParentGoesOn ==
    ASSUME IInv, Len(frames) > 1, NEW s, Ends(Last(Below), Front(Below), outs, s, Last(Below).command)
    PROVE  IInv'
  <1> DEFINE L == Len(frames)
             parent == frames[L - 1]
             p == L - 2
  <1>1. L \in Nat /\ L > 1 /\ DOMAIN frames = 1 .. L
    BY SequenceLen DEF IInv
  <1>2. frames # <<>>
    BY <1>1
  <1>3. p \in 0 .. L - 1 /\ L - 1 \in DOMAIN frames /\ L - 1 < L /\ 1 .. p \subseteq DOMAIN frames /\ p = L - 1 - 1
    BY <1>1
  <1>4. Last(Below) = parent /\ Front(Below) = SubSeq(frames, 1, p)
    BY Parent
  <1>5. Ends(parent, SubSeq(frames, 1, p), outs, s, parent.command)
    BY <1>4
  <1>6. IsSequence(outs) /\ Awaited(L - 1)
    BY <1>3 DEF IInv
  <1>7. Fits(parent, DOMAIN outs)
    BY <1>3 DEF IInv, NoReaderWaits, Fits
  <1>8. ASSUME NEW i \in 1 .. p
        PROVE  Apart(frames[i], parent)
    <2>1. i \in DOMAIN frames
      BY <1>3
    <2> QED
      BY <1>3, <2>1 DEF IInv, NoReaderWaits, Apart
  <1>9. Len(parent.stages) > 1 => /\ parent.command.stdout \in DOMAIN outs \ {parent.stdout, parent.stderr}
                                  /\ \A i \in 1 .. p : parent.command.stdout \notin Writes(frames[i])
    BY <1>3, <1>6 DEF Awaited
  <1> HIDE DEF parent, p, L
  <1>10. p \in 0 .. Len(frames) - 1
    BY <1>3 DEF L
  <1> QED
    BY <1>5, <1>6, <1>7, <1>8, <1>9, <1>10, Ended

\* Shells that end, each in its way.
LEMMA EndsKeep ==
    ASSUME IInv, Return \/ Unwind \/ Leave
    PROVE  IInv'
  <1>1. CASE Return
    <2>1. Len(frames) > 1
      BY <1>1 DEF Return
    <2>2. Ends(Last(Below), Front(Below), outs, [Progress EXCEPT !.code = top.exit], Last(Below).command)
      BY <1>1 DEF Return
    <2> QED
      BY <2>1, <2>2, ParentGoesOn
  <1>2. CASE Unwind
    <2>1. CASE Len(frames) > 1
      <3>1. Ends(Last(Below), Front(Below), outs, [Progress EXCEPT !.failed = TRUE], Last(Below).command)
        BY <1>2, <2>1 DEF Unwind
      <3> QED
        BY <2>1, <3>1, ParentGoesOn
    <2>2. CASE ~(Len(frames) > 1)
      <3> DEFINE f == [top EXCEPT !.phase = "lines", !.lines = Tail(@), !.chain = <<>>, !.stages = <<>>, !.command = None]
      <3>1. Becomes(f) /\ outs' = [outs EXCEPT ![Errors].text = Append(@, <<"error">>)]
        BY <1>2, <2>2 DEF Unwind
      <3>2. frames # <<>>
        BY <1>2 DEF Unwind, IInv
      <3>3. Framed(f) /\ Writes(f) \subseteq Writes(top) /\ MayRead(f) \subseteq MayRead(top)
        BY <3>2, TopFits DEF Fits, Framed, Writes, MayRead
      <3>4. IsSequence(outs') /\ DOMAIN outs' = DOMAIN outs
        <4>1. outs' = [i \in DOMAIN outs |-> outs'[i]]
          BY <3>1
        <4>2. IsSequence(outs)
          BY DEF IInv
        <4> QED
          BY <4>1, <4>2, SequenceLike
      <3> HIDE DEF f
      <3> QED
        BY <3>1, <3>2, <3>3, <3>4, Renewed
    <2> QED
      BY <2>1, <2>2
  <1>3. CASE Leave
    <2>1. frames' = <<>> /\ outs' = outs /\ error' = error /\ ~error
      BY <1>3 DEF Leave, At
    <2>2. IsSequence(<<>>) /\ Len(<<>>) = 0
      BY OneOutput
    <2>3. DOMAIN <<>> = {}
      BY <2>2, SequenceLen
    <2>4. DOMAIN frames' = {} /\ IsSequence(frames')
      BY <2>1, <2>2, <2>3
    <2> QED
      BY <2>1, <2>4 DEF IInv, NoReaderWaits
  <1> QED
    BY <1>1, <1>2, <1>3

\* Every step keeps IInv.
LEMMA StepsKeep ==
    ASSUME IInv, [Next]_vars
    PROVE  IInv'
  <1>1. CASE UNCHANGED vars
    BY <1>1 DEF vars, IInv, Framed, Writes, MayRead, Awaited, NoReaderWaits
  <1>2. CASE Next
    BY <1>2, LinesKeep, WordsKeep, CommandsKeep, EndsKeep DEF Next
  <1> QED
    BY <1>1, <1>2

\* A shell that starts satisfies IInv.
LEMMA InitFits ==
    ASSUME Init
    PROVE  IInv
  <1> DEFINE c == [stdin |-> Keyboard, stdout |-> Terminal, stderr |-> Errors]
  <1>1. PICK lines \in Scripts : frames = <<Shell("tty", lines, <<>>, Exports, <<>>, c)>>
    BY DEF Init
  <1> DEFINE f == Shell("tty", lines, <<>>, Exports, <<>>, c)
  <1>2. Framed(f) /\ f.stdin = 3 /\ f.stdout = 1 /\ f.stderr = 2 /\ f.piped = None /\ f.command = None
    BY DEF Shell, Framed, Keyboard, Terminal, Errors
  <1> HIDE DEF f, c
  <1>3. IsSequence(frames) /\ Len(frames) = 1 /\ DOMAIN frames = {1} /\ frames[1] = f
    BY <1>1, OneOutput DEF f
  <1>4. IsSequence(outs) /\ DOMAIN outs = 1 .. 3
    <2> DEFINE a == Output("term", <<>>)
               b == [Output("pipe", <<>>) EXCEPT !.text = Typed]
    <2>1. outs = <<a, a, b>>
      BY DEF Init
    <2> HIDE DEF a, b
    <2>2. outs \in Seq({a, b}) /\ Len(outs) = 3
      BY <2>1
    <2> QED
      BY <2>2, SequenceOver
  <1>5. Writes(f) = {1, 2} /\ MayRead(f) = {3}
    BY <1>2 DEF Writes, MayRead
  <1>6. ~error
    BY DEF Init
  <1>7. NoReaderWaits
    BY <1>3, <1>5 DEF NoReaderWaits
  <1> QED
    BY <1>2, <1>3, <1>4, <1>5, <1>6, <1>7 DEF IInv

\* Nobody waits for himself: whatever is typed, and whatever the scripts are, nobody that
\* is to read a pipe, now or when a shell inside it returns, finds a writer of it alive.
\* A shell that waits keeps the pipe its command writes; it becomes an input when the
\* command is over, and none below writes it, since it was made for the command.
THEOREM NobodyWaits == Spec => []NoReaderWaits
  <1>1. Init => IInv
    BY InitFits
  <1>2. IInv /\ [Next]_vars => IInv'
    BY StepsKeep
  <1>3. IInv => NoReaderWaits
    BY DEF IInv
  <1> QED
    BY <1>1, <1>2, <1>3, PTL DEF Spec

\* latest is what the two maps have for every variable that one of them has.
Remembers(shvars, env, latest) ==
    /\ DOMAIN latest = DOMAIN shvars \cup DOMAIN env
    /\ \A n \in DOMAIN latest : latest[n] = Lookup(shvars, env, n)

Knows(f) == {"shvars", "env", "latest"} \subseteq DOMAIN f /\ Remembers(f.shvars, f.env, f.latest)

AllKnow == \A i \in DOMAIN frames : Knows(frames[i])

\* Told the same, the map and what is remembered of it stay together.
LEMMA MoreKnown ==
    ASSUME NEW shvars, NEW env, NEW latest, Remembers(shvars, env, latest), NEW n, NEW v, NEW words
    PROVE  /\ Remembers(With(shvars, n, v), env, With(latest, n, v))
           /\ Remembers(Assigned(shvars, words), env, Assigned(latest, words))
           /\ Remembers(Without(shvars, n), Without(env, n), Without(latest, n))
  <1>1. Remembers(With(shvars, n, v), env, With(latest, n, v))
    <2> DEFINE S == With(shvars, n, v)
               T == With(latest, n, v)
    <2>1. DOMAIN S = DOMAIN shvars \cup {n} /\ S[n] = v /\ \A k \in DOMAIN shvars \ {n} : S[k] = shvars[k]
      BY DEF With
    <2>2. DOMAIN T = DOMAIN latest \cup {n} /\ T[n] = v /\ \A k \in DOMAIN latest \ {n} : T[k] = latest[k]
      BY DEF With
    <2> HIDE DEF S, T
    <2>3. DOMAIN T = DOMAIN S \cup DOMAIN env
      BY <2>1, <2>2 DEF Remembers
    <2>4. ASSUME NEW k \in DOMAIN T
          PROVE  T[k] = Lookup(S, env, k)
      BY <2>1, <2>2 DEF Remembers, Lookup
    <2> QED
      BY <2>3, <2>4 DEF Remembers, S, T
  <1>2. Remembers(Assigned(shvars, words), env, Assigned(latest, words))
    <2> DEFINE names == {NameOf(words[i]) : i \in DOMAIN words}
               S == Assigned(shvars, words)
               T == Assigned(latest, words)
    <2>1. /\ DOMAIN S = DOMAIN shvars \cup names /\ DOMAIN T = DOMAIN latest \cup names
          /\ \A m \in names : S[m] = T[m]
          /\ \A m \in DOMAIN shvars \ names : S[m] = shvars[m]
          /\ \A m \in DOMAIN latest \ names : T[m] = latest[m]
      <3> DEFINE all == names
      <3>1. all = {NameOf(words[i]) : i \in DOMAIN words}
        OBVIOUS
      <3> HIDE DEF all
      <3>2. /\ DOMAIN S = DOMAIN shvars \cup all
            /\ \A m \in all : S[m] = T[m]
            /\ \A m \in DOMAIN shvars \ all : S[m] = shvars[m]
        BY <3>1 DEF Assigned
      <3>3. DOMAIN T = DOMAIN latest \cup all /\ \A m \in DOMAIN latest \ all : T[m] = latest[m]
        BY <3>1 DEF Assigned
      <3> QED
        BY <3>2, <3>3 DEF all
    <2> HIDE DEF names, S, T
    <2>2. DOMAIN T = DOMAIN S \cup DOMAIN env
      BY <2>1 DEF Remembers
    <2>3. ASSUME NEW k \in DOMAIN T
          PROVE  T[k] = Lookup(S, env, k)
      BY <2>1 DEF Remembers, Lookup
    <2> QED
      BY <2>2, <2>3 DEF Remembers, S, T
  <1>3. Remembers(Without(shvars, n), Without(env, n), Without(latest, n))
    BY DEF Remembers, Lookup, Without
  <1> QED
    BY <1>1, <1>2, <1>3

\* What export does to the maps.
LEMMA ExportedKnown ==
    ASSUME NEW shvars, NEW env, NEW latest, Remembers(shvars, env, latest), NEW n, NEW w
    PROVE  /\ Remembers(Without(shvars, NameOf(w)), Assigned(env, <<w>>), Assigned(latest, <<w>>))
           /\ n \in DOMAIN shvars => Remembers(Without(shvars, n), With(env, n, shvars[n]), latest)
  <1>1. Remembers(Without(shvars, NameOf(w)), Assigned(env, <<w>>), Assigned(latest, <<w>>))
    <2> DEFINE words == <<w>>
               names == {NameOf(words[i]) : i \in DOMAIN words}
               S == Assigned(env, words)
               T == Assigned(latest, words)
    <2>1. /\ DOMAIN S = DOMAIN env \cup names /\ DOMAIN T = DOMAIN latest \cup names
          /\ \A m \in names : S[m] = T[m]
          /\ \A m \in DOMAIN env \ names : S[m] = env[m]
          /\ \A m \in DOMAIN latest \ names : T[m] = latest[m]
      <3> DEFINE all == names
      <3>1. all = {NameOf(words[i]) : i \in DOMAIN words}
        OBVIOUS
      <3> HIDE DEF all
      <3>2. /\ DOMAIN S = DOMAIN env \cup all
            /\ \A m \in all : S[m] = T[m]
            /\ \A m \in DOMAIN env \ all : S[m] = env[m]
        BY <3>1 DEF Assigned
      <3>3. DOMAIN T = DOMAIN latest \cup all /\ \A m \in DOMAIN latest \ all : T[m] = latest[m]
        BY <3>1 DEF Assigned
      <3> QED
        BY <3>2, <3>3 DEF all
    <2>2. names = {NameOf(w)}
      <3>1. DOMAIN words = {1} /\ words[1] = w
        OBVIOUS
      <3> HIDE DEF words
      <3> QED
        BY <3>1
    <2> HIDE DEF names, S, T
    <2>3. Remembers(Without(shvars, NameOf(w)), S, T)
      BY <2>1, <2>2 DEF Remembers, Lookup, Without
    <2> QED
      BY <2>3 DEF S, T
  <1>2. n \in DOMAIN shvars => Remembers(Without(shvars, n), With(env, n, shvars[n]), latest)
    <2> SUFFICES ASSUME n \in DOMAIN shvars
                 PROVE  Remembers(Without(shvars, n), With(env, n, shvars[n]), latest)
      OBVIOUS
    <2> DEFINE S == Without(shvars, n)
               E == With(env, n, shvars[n])
    <2>1. DOMAIN E = DOMAIN env \cup {n} /\ E[n] = shvars[n] /\ \A k \in DOMAIN env \ {n} : E[k] = env[k]
      BY DEF With
    <2>2. DOMAIN S = DOMAIN shvars \ {n} /\ \A k \in DOMAIN shvars \ {n} : S[k] = shvars[k]
      BY DEF Without
    <2> HIDE DEF S, E
    <2>3. DOMAIN latest = DOMAIN S \cup DOMAIN E
      BY <2>1, <2>2 DEF Remembers
    <2>4. ASSUME NEW k \in DOMAIN latest
          PROVE  latest[k] = Lookup(S, E, k)
      BY <2>1, <2>2 DEF Remembers, Lookup
    <2> QED
      BY <2>3, <2>4 DEF Remembers, S, E
  <1> QED
    BY <1>1, <1>2

\* A frame with the same maps.
LEMMA KnowsAsMuch ==
    ASSUME NEW f, NEW g, Knows(f), DOMAIN g = DOMAIN f, g.shvars = f.shvars, g.env = f.env, g.latest = f.latest
    PROVE  Knows(g)
  BY DEF Knows

\* The innermost frame is another, or the shell that waits for it goes on.
LEMMA KnownOnTop ==
    ASSUME IInv, AllKnow, NEW p \in 0 .. Len(frames), NEW f, Knows(f), frames' = Append(SubSeq(frames, 1, p), f)
    PROVE  AllKnow'
  <1>1. IsSequence(frames) /\ Len(frames) \in Nat /\ DOMAIN frames = 1 .. Len(frames)
    BY SequenceLen DEF IInv
  <1>2. IsSequence(frames') /\ Len(frames') = p + 1 /\ (\A i \in 1 .. p : frames'[i] = frames[i]) /\ frames'[p + 1] = f
    BY <1>1, Pushed
  <1>3. DOMAIN frames' = 1 .. p + 1
    BY <1>2, SequenceLen
  <1>4. ASSUME NEW i \in DOMAIN frames'
        PROVE  Knows(frames'[i])
    <2>1. CASE i \in 1 .. p
      BY <1>1, <1>2, <2>1 DEF AllKnow
    <2>2. CASE i = p + 1
      BY <1>2, <2>2
    <2> QED
      BY <1>1, <1>3, <2>1, <2>2
  <1> QED
    BY <1>4 DEF AllKnow, Knows

\* The top frame agrees with what was told, and a frame that agrees may take its place.
LEMMA TopKnows ==
    ASSUME IInv, AllKnow, frames # <<>>
    PROVE  /\ Knows(top)
           /\ \A f : Knows(f) /\ Becomes(f) => AllKnow'
  <1>1. /\ Len(frames) \in Nat \ {0} /\ DOMAIN frames = 1 .. Len(frames)
        /\ top = frames[Len(frames)] /\ Below = SubSeq(frames, 1, Len(frames) - 1)
    BY TopFits
  <1>2. Knows(top)
    BY <1>1 DEF AllKnow
  <1>3. ASSUME NEW f, Knows(f), Becomes(f)
        PROVE  AllKnow'
    <2>1. Len(frames) - 1 \in 0 .. Len(frames)
      BY <1>1
    <2> QED
      BY <1>1, <1>3, <2>1, KnownOnTop DEF Becomes
  <1> QED
    BY <1>2, <1>3

\* Passing to the next command leaves the variables.
LEMMA NextStageKnows ==
    ASSUME NEW f, Knows(f), NEW code, NEW pipe
    PROVE  Knows(NextStage(f, code, pipe))
  <1> DEFINE on   == [f EXCEPT !.stages = Tail(@), !.code = code, !.piped = pipe, !.phase = "stages", !.command = None]
             over == [f EXCEPT !.stages = <<>>, !.code = code, !.phase = "chain", !.command = None,
                               !.chain = Tail(@), !.before = Head(f.chain).after]
  <1>1. NextStage(f, code, pipe) = on \/ NextStage(f, code, pipe) = over
    BY DEF NextStage
  <1>2. DOMAIN on = DOMAIN f /\ on.shvars = f.shvars /\ on.env = f.env /\ on.latest = f.latest
    BY DEF Knows
  <1>3. DOMAIN over = DOMAIN f /\ over.shvars = f.shvars /\ over.env = f.env /\ over.latest = f.latest
    BY DEF Knows
  <1> HIDE DEF on, over
  <1> QED
    BY <1>1, <1>2, <1>3, KnowsAsMuch

\* A command of the innermost frame ends, in one way or another.
LEMMA EndedKnows ==
    ASSUME IInv, AllKnow, NEW p \in 0 .. Len(frames), NEW f, Knows(f), NEW there, NEW s, NEW c,
           Ends(f, SubSeq(frames, 1, p), there, s, c)
    PROVE  AllKnow'
  <1> DEFINE g == NextStage(f, s.code, c.stdout)
  <1>1. frames' = Append(SubSeq(frames, 1, p), f) \/ frames' = Append(SubSeq(frames, 1, p), g)
    BY DEF Ends
  <1>2. Knows(g)
    BY NextStageKnows
  <1> HIDE DEF g
  <1> QED
    BY <1>1, <1>2, KnownOnTop

\* The steps of a line and its assignments leave variables and history in agreement.
LEMMA LinesKnow ==
    ASSUME IInv, AllKnow, SkipLine \/ AssignLine \/ AssignOne \/ AssignEnds \/ BeginLine \/ EndLine
    PROVE  AllKnow'
  <1>1. frames # <<>>
    BY HasFrames DEF SkipLine, AssignLine, AssignOne, AssignEnds, BeginLine, EndLine, OnlyAssignments, HasLine
  <1>2. Knows(top)
    BY <1>1, TopKnows
  <1>3. ASSUME NEW f, Knows(f), Becomes(f)
        PROVE  AllKnow'
    BY <1>1, <1>3, TopKnows
  <1>4. CASE SkipLine
    <2> DEFINE f == [top EXCEPT !.lines = Tail(@)]
    <2>1. Becomes(f)
      BY <1>4 DEF SkipLine
    <2>2. Knows(f)
      BY <1>2 DEF Knows
    <2> HIDE DEF f
    <2> QED
      BY <1>3, <2>1, <2>2
  <1>5. CASE AssignLine
    <2> DEFINE f == [top EXCEPT !.phase = "assign", !.left = Assigned(<<>>, Raw)]
    <2>1. Becomes(f)
      BY <1>5 DEF AssignLine
    <2>2. Knows(f)
      BY <1>2 DEF Knows
    <2> HIDE DEF f
    <2> QED
      BY <1>3, <2>1, <2>2
  <1>6. CASE AssignOne
    <2>1. PICK n, v : Becomes([top EXCEPT !.shvars = With(@, n, v), !.latest = With(@, n, v), !.left = Without(@, n)])
      BY <1>6 DEF AssignOne
    <2> DEFINE f == [top EXCEPT !.shvars = With(@, n, v), !.latest = With(@, n, v), !.left = Without(@, n)]
    <2>2. Remembers(With(top.shvars, n, v), top.env, With(top.latest, n, v))
      BY <1>2, MoreKnown DEF Knows
    <2>3. Knows(f)
      BY <1>2, <2>2 DEF Knows
    <2>4. Becomes(f)
      BY <2>1
    <2> HIDE DEF f
    <2> QED
      BY <1>3, <2>3, <2>4
  <1>7. CASE AssignEnds
    <2> DEFINE f == [top EXCEPT !.phase = "lines", !.lines = Tail(@), !.exit = 0]
    <2>1. Becomes(f)
      BY <1>7 DEF AssignEnds
    <2>2. Knows(f)
      BY <1>2 DEF Knows
    <2> HIDE DEF f
    <2> QED
      BY <1>3, <2>1, <2>2
  <1>8. CASE BeginLine
    <2> DEFINE f == [top EXCEPT !.phase = "chain", !.chain = parse_command_chain(Expanded), !.before = None, !.code = 0]
    <2>1. Fails \/ Becomes(f)
      BY <1>8 DEF BeginLine
    <2>2. Fails => frames' = frames
      BY DEF Fails
    <2>3. Knows(f)
      BY <1>2 DEF Knows
    <2> HIDE DEF f
    <2> QED
      BY <1>3, <2>1, <2>2, <2>3 DEF AllKnow, Knows
  <1>9. CASE EndLine
    <2> DEFINE code == <<ToString(top.code)>>
               f == [top EXCEPT !.phase = "lines", !.lines = Tail(@), !.exit = top.code,
                                !.shvars = With(@, "?", code), !.latest = With(@, "?", code)]
    <2>1. Becomes(f)
      BY <1>9 DEF EndLine
    <2> HIDE DEF code
    <2>2. Remembers(With(top.shvars, "?", code), top.env, With(top.latest, "?", code))
      BY <1>2, MoreKnown DEF Knows
    <2>3. Knows(f)
      BY <1>2, <2>2 DEF Knows
    <2> HIDE DEF f
    <2> QED
      BY <1>3, <2>1, <2>3
  <1> QED
    BY <1>4, <1>5, <1>6, <1>7, <1>8, <1>9

\* cd, set, unset and export.
LEMMA ToldKnows ==
    ASSUME NEW f, Knows(f), NEW words, NEW w
    PROVE  /\ Knows(Told(f, words)) /\ Knows(cd(f))
           /\ Knows(set(f, w)) /\ Knows(unset(f, w)) /\ Knows(export(f, w))
  <1>1. ASSUME NEW v
        PROVE  Knows(Told(f, v))
    <2>1. Remembers(Assigned(f.shvars, v), f.env, Assigned(f.latest, v))
      BY MoreKnown DEF Knows
    <2> QED
      BY <2>1 DEF Told, Knows
  <1>2. Knows(cd(f))
    <2>1. PICK path : cd(f) = [f EXCEPT !.cwd = path, !.code = 0] \/ cd(f) = [f EXCEPT !.code = 1]
      BY DEF cd
    <2> QED
      BY <2>1 DEF Knows
  <1>3. Knows(set(f, w))
    BY <1>1 DEF set, Knows
  <1>4. Knows(unset(f, w))
    <2>1. Remembers(Without(f.shvars, w[1]), Without(f.env, w[1]), Without(f.latest, w[1]))
      BY MoreKnown DEF Knows
    <2> QED
      BY <2>1 DEF unset, Knows
  <1>5. Knows(export(f, w))
    <2>1. CASE IsAssignment(w)
      <3>1. Remembers(Without(f.shvars, NameOf(w)), Assigned(f.env, <<w>>), Assigned(f.latest, <<w>>))
        BY ExportedKnown DEF Knows
      <3> DEFINE g == [f EXCEPT !.shvars = Without(@, NameOf(w)), !.env = Assigned(@, <<w>>), !.latest = Assigned(@, <<w>>)]
      <3>2. export(f, w) = g
        BY <2>1 DEF export
      <3>3. /\ DOMAIN g = DOMAIN f /\ g.shvars = Without(f.shvars, NameOf(w))
            /\ g.env = Assigned(f.env, <<w>>) /\ g.latest = Assigned(f.latest, <<w>>)
        BY DEF Knows
      <3> HIDE DEF g
      <3>4. Knows(g)
        BY <3>1, <3>3 DEF Knows
      <3> QED
        BY <3>2, <3>4
    <2>2. CASE ~IsAssignment(w) /\ w[1] \in DOMAIN f.shvars
      <3>1. Remembers(Without(f.shvars, w[1]), With(f.env, w[1], f.shvars[w[1]]), f.latest)
        BY <2>2, ExportedKnown DEF Knows
      <3> QED
        BY <2>2, <3>1 DEF export, Knows
    <2>3. CASE ~IsAssignment(w) /\ w[1] \notin DOMAIN f.shvars
      BY <2>3 DEF export
    <2> QED
      BY <2>1, <2>2, <2>3
  <1> QED
    BY <1>1, <1>2, <1>3, <1>4, <1>5

\* So does a step that changes a variable and notes it.
LEMMA ChangesKnow ==
    ASSUME IInv, AllKnow, frames # <<>>, NEW f, Knows(f), Changes(f)
    PROVE  AllKnow'
  <1>1. Becomes(f) \/ Becomes(NextStage(f, f.code, None))
    BY DEF Changes
  <1>2. Knows(NextStage(f, f.code, None))
    BY NextStageKnows
  <1> QED
    BY <1>1, <1>2, TopKnows

\* So do the steps of a pipeline, set, unset, export and cd among them.
LEMMA StagesKnow ==
    ASSUME IInv, AllKnow,
           \/ SkipPipeline \/ BeginPipeline \/ EmptyStage \/ AssignWords
           \/ ChangeDir \/ TellShell \/ TellOne \/ TellEnds
    PROVE  AllKnow'
  <1>1. frames # <<>>
    BY HasFrames DEF SkipPipeline, BeginPipeline, EmptyStage, AssignWords, ChangeDir, TellShell, TellOne, TellEnds, IsSpecial, IsStage
  <1>2. Knows(top)
    BY <1>1, TopKnows
  <1>3. ASSUME NEW f, Knows(f), Becomes(f)
        PROVE  AllKnow'
    BY <1>1, <1>3, TopKnows
  <1>4. CASE SkipPipeline
    <2> DEFINE f == [top EXCEPT !.chain = Tail(@), !.before = NextPipeline.after]
    <2>1. Becomes(f)
      BY <1>4 DEF SkipPipeline
    <2>2. Knows(f)
      BY <1>2 DEF Knows
    <2> HIDE DEF f
    <2> QED
      BY <1>3, <2>1, <2>2
  <1>5. CASE BeginPipeline
    <2> DEFINE idle  == [top EXCEPT !.chain = Tail(@), !.before = NextPipeline.after, !.code = 0]
               start == [top EXCEPT !.phase = "stages", !.stages = NextPipeline.commands, !.piped = None, !.code = 0]
    <2>1. Becomes(idle) \/ Becomes(start)
      BY <1>5 DEF BeginPipeline
    <2>2. Knows(idle) /\ Knows(start)
      BY <1>2 DEF Knows
    <2> HIDE DEF idle, start
    <2> QED
      BY <1>3, <2>1, <2>2
  <1>6. CASE EmptyStage
    <2>1. Becomes(NextStage(top, top.code, None))
      BY <1>6 DEF EmptyStage
    <2> QED
      BY <1>2, <1>3, <2>1, NextStageKnows
  <1>7. CASE AssignWords
    <2>1. Becomes(NextStage(Told(top, Settings), 0, None))
      BY <1>7 DEF AssignWords
    <2>2. Knows(Told(top, Settings))
      BY <1>2, ToldKnows
    <2> QED
      BY <1>3, <2>1, <2>2, NextStageKnows
  <1>8. CASE ChangeDir
    <2>1. Changes(cd(Told(top, Settings)))
      BY <1>8 DEF ChangeDir
    <2>2. Knows(Told(top, Settings))
      BY <1>2, ToldKnows
    <2>3. Knows(cd(Told(top, Settings)))
      BY <2>2, ToldKnows
    <2> QED
      BY <1>1, <2>1, <2>3, ChangesKnow
  <1>9. CASE TellShell
    <2> DEFINE g == Told(top, Settings)
               f == [g EXCEPT !.phase = "tell", !.code = 0, !.left = Tail(Argv)]
    <2>1. Becomes(f)
      BY <1>9 DEF TellShell
    <2>2. Knows(g)
      BY <1>2, ToldKnows
    <2> HIDE DEF g
    <2>3. Knows(f)
      BY <2>2 DEF Knows
    <2> HIDE DEF f
    <2> QED
      BY <1>3, <2>1, <2>3
  <1>10. CASE TellOne
    <2> DEFINE w == Head(top.left)
               g == Tell(top, w)
               f == [g EXCEPT !.left = Tail(@)]
    <2>1. Becomes(f)
      BY <1>10 DEF TellOne
    <2>2. g \in {set(top, w), unset(top, w), export(top, w)}
      BY DEF Tell
    <2> HIDE DEF g, w
    <2>3. Knows(g)
      BY <1>2, <2>2, ToldKnows
    <2>4. Knows(f)
      BY <2>3 DEF Knows
    <2> HIDE DEF f
    <2> QED
      BY <1>3, <2>1, <2>4
  <1>11. CASE TellEnds
    <2>1. Changes(top)
      BY <1>11 DEF TellEnds
    <2> QED
      BY <1>1, <1>2, <2>1, ChangesKnow
  <1> QED
    BY <1>4, <1>5, <1>6, <1>7, <1>8, <1>9, <1>10, <1>11

\* A shell that begins knows what the maps it gets have.
LEMMA NewShellKnows ==
    ASSUME NEW kind, NEW lines, NEW shvars, NEW env, NEW cwd, NEW c
    PROVE  Knows(Shell(kind, lines, shvars, env, cwd, c))
  <1> DEFINE f == Shell(kind, lines, shvars, env, cwd, c)
  <1>1. /\ {"shvars", "env", "latest"} \subseteq DOMAIN f /\ f.shvars = shvars /\ f.env = env
        /\ f.latest = [n \in DOMAIN shvars \cup DOMAIN env |-> Lookup(shvars, env, n)]
    BY DEF Shell
  <1> HIDE DEF f
  <1>2. Knows(f)
    BY <1>1 DEF Knows, Remembers
  <1> QED
    BY <1>2 DEF f

\* So do commands, and a shell inside that gets both maps.
LEMMA CommandsKnow ==
    ASSUME IInv, AllKnow, Unknown \/ Simple \/ SubShell
    PROVE  AllKnow'
  <1> DEFINE c == Redirected
             L == Len(frames)
  <1>1. frames # <<>>
    BY HasFrames DEF Unknown, Simple, SubShell, IsStage
  <1>2. /\ L \in Nat \ {0} /\ DOMAIN frames = 1 .. L /\ Below = SubSeq(frames, 1, L - 1) /\ L - 1 \in 0 .. L
    BY <1>1, TopFits
  <1>3. Knows(top)
    BY <1>1, TopKnows
  <1>4. ASSUME NEW s, Ends(top, Below, c.outs, s, c)
        PROVE  AllKnow'
    BY <1>2, <1>3, <1>4, EndedKnows
  <1>5. CASE Unknown
    <2>1. Ends(top, Below, c.outs, [Progress EXCEPT !.outs = c.outs, !.failed = TRUE], c)
      BY <1>5 DEF Unknown
    <2> QED
      BY <1>4, <2>1
  <1>6. CASE Simple
    <2>1. PICK s : Ends(top, Below, c.outs, s, c)
      BY <1>6 DEF Simple
    <2> QED
      BY <1>4, <2>1
  <1>7. CASE SubShell
    <2> DEFINE f == [top EXCEPT !.phase = "waiting", !.command = c]
               child(kind, lines) == Shell(kind, lines, Assigned(top.shvars, Settings), top.env, top.cwd, c)
               begins(kind, lines) == frames' = Below \o <<f, child(kind, lines)>>
               refused(code) ==
                   Ends(top, Below, c.outs, [write_line([Progress EXCEPT !.outs = c.outs], c.stderr, Complaint(Argv).line)
                                                EXCEPT !.code = code], c)
    <2>1. \/ refused(2) \/ refused(127)
          \/ begins("line", <<Argv[3]>>) \/ begins("script", files[FromRoot(Argv[2])])
      BY <1>7 DEF SubShell
    <2>2. ASSUME NEW code, refused(code)
          PROVE  AllKnow'
      BY <1>4, <2>2
    <2>3. ASSUME NEW kind, NEW lines, begins(kind, lines)
          PROVE  AllKnow'
      <3> DEFINE g == child(kind, lines)
      <3>1. Knows(g)
        BY NewShellKnows
      <3>2. Knows(f)
        BY <1>3 DEF Knows
      <3>3. frames' = SubSeq(frames, 1, L - 1) \o <<f, g>>
        BY <1>2, <2>3
      <3>4. IsSequence(frames) /\ L - 1 \in 0 .. Len(frames)
        BY <1>2 DEF IInv
      <3> HIDE DEF f, g, child, L
      <3>5. /\ IsSequence(frames') /\ Len(frames') = L - 1 + 2
            /\ \A i \in 1 .. L - 1 : frames'[i] = frames[i]
            /\ frames'[L - 1 + 1] = f /\ frames'[L - 1 + 2] = g
        <4> DEFINE t == SubSeq(frames, 1, L - 1) \o <<f, g>>
        <4>1. /\ IsSequence(t) /\ Len(t) = L - 1 + 2
              /\ \A i \in 1 .. L - 1 : t[i] = frames[i]
              /\ t[L - 1 + 1] = f /\ t[L - 1 + 2] = g
          BY <3>4, PushedTwice
        <4>2. frames' = t
          BY <3>3
        <4> HIDE DEF t
        <4> QED
          BY <4>1, <4>2
      <3>6. DOMAIN frames' = 1 .. L + 1 /\ frames'[L] = f /\ frames'[L + 1] = g
        <4>1. L - 1 + 1 = L /\ L - 1 + 2 = L + 1
          BY <1>2
        <4> QED
          BY <3>5, <4>1, SequenceLen
      <3>7. ASSUME NEW i \in 1 .. L + 1
            PROVE  Knows(frames'[i])
        <4>1. CASE i \in 1 .. L - 1
          <5>1. i \in DOMAIN frames
            BY <1>2, <4>1
          <5> QED
            BY <3>5, <4>1, <5>1 DEF AllKnow
        <4>2. CASE i = L
          BY <3>2, <3>6, <4>2
        <4>3. CASE i = L + 1
          BY <3>1, <3>6, <4>3
        <4>4. i \in 1 .. L - 1 \/ i = L \/ i = L + 1
          BY <1>2
        <4> QED
          BY <4>1, <4>2, <4>3, <4>4
      <3> QED
        BY <3>6, <3>7 DEF AllKnow, Knows
    <2> HIDE DEF refused, begins
    <2> QED
      BY <2>1, <2>2, <2>3
  <1> QED
    BY <1>5, <1>6, <1>7

\* So do the ways back from a shell inside.
LEMMA EndsKnow ==
    ASSUME IInv, AllKnow, Return \/ Unwind \/ Leave
    PROVE  AllKnow'
  <1> DEFINE L == Len(frames)
  <1>1. L \in Nat /\ DOMAIN frames = 1 .. L
    BY SequenceLen DEF IInv
  <1>2. ASSUME L > 1, NEW s, Ends(Last(Below), Front(Below), outs, s, Last(Below).command)
        PROVE  AllKnow'
    <2>1. Last(Below) = frames[L - 1] /\ Front(Below) = SubSeq(frames, 1, L - 2)
      BY <1>2, Parent
    <2>2. L - 1 \in DOMAIN frames /\ L - 2 \in 0 .. L
      BY <1>1, <1>2
    <2>3. Knows(frames[L - 1])
      BY <2>2 DEF AllKnow
    <2> QED
      BY <1>2, <2>1, <2>2, <2>3, EndedKnows
  <1>3. CASE Return
    <2>1. L > 1 /\ Ends(Last(Below), Front(Below), outs, [Progress EXCEPT !.code = top.exit], Last(Below).command)
      BY <1>3 DEF Return
    <2> QED
      BY <1>2, <2>1
  <1>4. CASE Unwind
    <2>1. CASE L > 1
      <3>1. Ends(Last(Below), Front(Below), outs, [Progress EXCEPT !.failed = TRUE], Last(Below).command)
        BY <1>4, <2>1 DEF Unwind
      <3> QED
        BY <1>2, <2>1, <3>1
    <2>2. CASE ~(L > 1)
      <3> DEFINE f == [top EXCEPT !.phase = "lines", !.lines = Tail(@), !.chain = <<>>, !.stages = <<>>, !.command = None]
      <3>1. Becomes(f)
        BY <1>4, <2>2 DEF Unwind
      <3>2. frames # <<>>
        BY <1>4 DEF Unwind, IInv
      <3>3. Knows(f)
        BY <3>2, TopKnows DEF Knows
      <3> HIDE DEF f
      <3> QED
        BY <3>1, <3>2, <3>3, TopKnows
    <2> QED
      BY <2>1, <2>2
  <1>5. CASE Leave
    <2>1. frames' = <<>>
      BY <1>5 DEF Leave
    <2>2. DOMAIN frames' = {}
      BY <2>1, OneOutput, SequenceLen
    <2> QED
      BY <2>2 DEF AllKnow
  <1> QED
    BY <1>3, <1>4, <1>5

\* In every shell a variable is what it was last told to be, whichever of the two maps it
\* was told to: set, unset, export, assignments alone or before a command, and $? keep
\* what the maps have together and what was said last the same, argument by argument,
\* and a shell inside begins with both maps of the one around it.
THEOREM VariablesAreAsTold == Spec => []LookupIsLastWrite
  <1>1. Init => IInv /\ AllKnow
    <2> SUFFICES ASSUME Init
                 PROVE  IInv /\ AllKnow
      OBVIOUS
    <2>1. IInv
      BY InitFits
    <2>2. PICK lines, c : frames = <<Shell("tty", lines, <<>>, Exports, <<>>, c)>>
      BY DEF Init
    <2> DEFINE f == Shell("tty", lines, <<>>, Exports, <<>>, c)
    <2>3. Knows(f)
      BY NewShellKnows
    <2> HIDE DEF f
    <2>4. DOMAIN frames = {1} /\ frames[1] = f
      BY <2>2, OneOutput DEF f
    <2> QED
      BY <2>1, <2>3, <2>4 DEF AllKnow
  <1>2. IInv /\ AllKnow /\ [Next]_vars => (IInv /\ AllKnow)'
    <2> SUFFICES ASSUME IInv, AllKnow, [Next]_vars
                 PROVE  (IInv /\ AllKnow)'
      OBVIOUS
    <2>1. IInv'
      BY StepsKeep
    <2>2. CASE UNCHANGED vars
      BY <2>1, <2>2 DEF vars, AllKnow, Knows
    <2>3. CASE Next
      BY <2>1, <2>3, LinesKnow, StagesKnow, CommandsKnow, EndsKnow DEF Next
    <2> QED
      BY <2>2, <2>3
  <1>3. AllKnow => LookupIsLastWrite
    <2> SUFFICES ASSUME AllKnow, NEW i \in DOMAIN frames, NEW n \in Names \cup {"?"}
                 PROVE  Lookup(frames[i].shvars, frames[i].env, n) = Lookup(frames[i].latest, <<>>, n)
      BY DEF LookupIsLastWrite
    <2>1. Remembers(frames[i].shvars, frames[i].env, frames[i].latest)
      BY DEF AllKnow, Knows
    <2>2. DOMAIN <<>> = {}
      BY OneOutput, SequenceLen
    <2> QED
      BY <2>1, <2>2 DEF Remembers, Lookup
  <1> QED
    BY <1>1, <1>2, <1>3, PTL DEF Spec
=============================================================================
