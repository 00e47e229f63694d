----------------------------- MODULE Ndjson_proofs -----------------------------
(***************************************************************************)
(* Proofs about Ndjson, for any lines, chunks and size of the buffer.      *)
(***************************************************************************)
EXTENDS Ndjson, SequenceTheorems, WellFoundedInduction, TLAPS

-----------------------------------------------------------------------------
(* Places in a text *)

LEMMA Minimum ==
    ASSUME NEW T \in SUBSET Nat, T # {}
    PROVE  \E x \in T : \A y \in T : x <= y
  <1> DEFINE R == OpToRel(<, Nat)
  <1>1. PICK x \in T : \A y \in T : ~(<<y, x>> \in R)
    BY NatLessThanWellFounded, WFMin, Zenon
  <1>2. \A y \in T : ~(y < x)
    BY <1>1, Zenon DEF OpToRel
  <1> QED BY <1>2

\* What a text consists of, and what a line of it does.
InLine == Bytes \cup {"r1", "r2", "r3"}
Chars == InLine \cup {Newline}

\* Before() is what its comment says.
LEMMA BeforeIs ==
    ASSUME NEW text \in Seq(Chars), NEW i \in 1..(Len(text) + 1)
    PROVE  /\ Before(text, i) \in 0..(i - 1)
           /\ Before(text, i) > 0 => text[Before(text, i)] = Newline
           /\ \A k \in 1..Len(text) : Before(text, i) < k /\ k < i => text[k] # Newline
  <1> DEFINE P(j) == /\ j > 0 => text[j] = Newline
                     /\ \A k \in (j + 1)..(i - 1) : text[k] # Newline
             T == {d \in 0..(i - 1) : i - 1 - d > 0 => text[i - 1 - d] = Newline}
  <1>0. Len(text) \in Nat
    OBVIOUS
  <1>1. T \subseteq Nat /\ i - 1 \in T
    BY <1>0
  <1>2. PICK d \in T : \A y \in T : d <= y
    BY <1>1, Minimum
  <1>3. i - 1 - d \in 0..(i - 1)
    BY <1>0, <1>2
  <1>4. ASSUME NEW k \in (i - d)..(i - 1) PROVE text[k] # Newline
    <2>1. i - 1 - k \in 0..(i - 1) /\ i - 1 - (i - 1 - k) = k /\ ~(d <= i - 1 - k)
      BY <1>0, <1>2, <1>4
    <2> QED BY <1>2, <2>1
  <1>5. P(i - 1 - d)
    BY <1>0, <1>2, <1>3, <1>4
  <1>6. Before(text, i) \in 0..(i - 1) /\ P(Before(text, i))
    <2> HIDE DEF P
    <2>1. \E j \in 0..(i - 1) : P(j)
      BY <1>3, <1>5
    <2>2. Before(text, i) = CHOOSE j \in 0..(i - 1) : P(j)
      BY DEF Before, P
    <2> QED BY <2>1, <2>2
  <1> QED BY <1>0, <1>6
\* What follows the last newline of a text.
LEMMA RemainderIs ==
    ASSUME NEW text \in Seq(Chars)
    PROVE  /\ Ended(text) \in 0..Len(text)
           /\ Ended(text) > 0 => text[Ended(text)] = Newline
           /\ Remainder(text) \in Seq(InLine)
           /\ Len(Remainder(text)) = Len(text) - Ended(text)
           /\ \A k \in 1..(Len(text) - Ended(text)) : Remainder(text)[k] = text[Ended(text) + k]
           /\ \A k \in Newlines(text) : k <= Ended(text)
  <1> DEFINE E == Ended(text)
             L == Len(text)
  <1>1. L \in Nat /\ DOMAIN text = 1..L /\ \A i \in 1..L : text[i] \in Chars
    OBVIOUS
  <1>2. /\ E \in 0..L /\ (E > 0 => text[E] = Newline)
        /\ \A k \in 1..L : E < k => text[k] # Newline
    <2>1. L + 1 \in 1..(L + 1)
      BY <1>1
    <2>2. Ended(text) = Before(text, L + 1)
      BY DEF Ended
    <2> QED BY <1>1, <2>1, <2>2, BeforeIs
  <1> HIDE DEF E, L
  <1>3. \A i \in (E + 1)..L : text[i] \in InLine
    BY <1>1, <1>2 DEF Chars
  <1>4. E + 1 \in Int /\ L \in Int
    BY <1>1, <1>2
  <1>5. /\ SubSeq(text, E + 1, L) \in Seq(InLine)
        /\ Len(SubSeq(text, E + 1, L)) = IF E + 1 <= L THEN L - (E + 1) + 1 ELSE 0
        /\ \A i \in 1..(L - (E + 1) + 1) : SubSeq(text, E + 1, L)[i] = text[E + 1 + i - 1]
    BY <1>3, <1>4, SubSeqProperties
  <1>6. Remainder(text) = SubSeq(text, E + 1, L)
    BY DEF Remainder, E, L
  <1>7. Len(Remainder(text)) = L - E
    BY <1>1, <1>2, <1>5, <1>6
  <1>8. \A k \in 1..(L - E) : Remainder(text)[k] = text[E + k]
    <2> SUFFICES ASSUME NEW k \in 1..(L - E) PROVE Remainder(text)[k] = text[E + k]
      OBVIOUS
    <2>1. k \in 1..(L - (E + 1) + 1) /\ E + 1 + k - 1 = E + k
      BY <1>1, <1>2
    <2> QED BY <1>5, <1>6, <2>1
  <1>9. \A k \in Newlines(text) : k <= E
    BY <1>1, <1>2 DEF Newlines
  <1> QED BY <1>2, <1>5, <1>6, <1>7, <1>8, <1>9 DEF E, L

\* The line that the newline at place i ends.
LEMMA LineBefore ==
    ASSUME NEW text \in Seq(Chars), NEW i \in Newlines(text)
    PROVE  LET j == Before(text, i)
               line == SubSeq(text, j + 1, i - 1)
           IN  /\ line \in Seq(InLine) /\ Len(line) = i - 1 - j
               /\ \A k \in 1..(i - 1 - j) : line[k] = text[j + k]
  <1> DEFINE j == Before(text, i)
             L == Len(text)
  <1>1. L \in Nat /\ DOMAIN text = 1..L /\ (\A k \in 1..L : text[k] \in Chars) /\ i \in 1..L
    BY DEF Newlines
  <1>2. j \in 0..(i - 1) /\ \A k \in 1..L : j < k /\ k < i => text[k] # Newline
    BY <1>1, BeforeIs
  <1> HIDE DEF j, L
  <1>3. \A k \in (j + 1)..(i - 1) : text[k] \in InLine
    BY <1>1, <1>2 DEF Chars
  <1>4. j + 1 \in Int /\ i - 1 \in Int
    BY <1>1, <1>2
  <1>5. /\ SubSeq(text, j + 1, i - 1) \in Seq(InLine)
        /\ Len(SubSeq(text, j + 1, i - 1)) = IF j + 1 <= i - 1 THEN i - 1 - (j + 1) + 1 ELSE 0
        /\ \A k \in 1..(i - 1 - (j + 1) + 1) : SubSeq(text, j + 1, i - 1)[k] = text[j + 1 + k - 1]
    BY <1>3, <1>4, SubSeqProperties
  <1>6. Len(SubSeq(text, j + 1, i - 1)) = i - 1 - j
    BY <1>1, <1>2, <1>5
  <1>7. ASSUME NEW k \in 1..(i - 1 - j) PROVE SubSeq(text, j + 1, i - 1)[k] = text[j + k]
    <2>1. k \in 1..(i - 1 - (j + 1) + 1) /\ j + 1 + k - 1 = j + k
      BY <1>1, <1>2
    <2> QED BY <1>5, <2>1
  <1> QED BY <1>5, <1>6, <1>7 DEF j

-----------------------------------------------------------------------------
(* Decoding *)

\* A chunk of whole characters is decoded as it is.
LEMMA DecodeWhole ==
    ASSUME NEW bytes \in Seq(Chars), bytes # <<>>, bytes[1] # "e2", bytes[Len(bytes)] # "e1"
    PROVE  Decode(bytes) = bytes
  <1>1. Head(bytes) = bytes[1]
    OBVIOUS
  <1> QED BY <1>1 DEF Decode

\* Decoding leaves newlines alone and makes no other character than the known ones.
LEMMA DecodeTyped ==
    ASSUME NEW bytes \in Seq(Chars), bytes # <<>>
    PROVE  Decode(bytes) \in Seq(Chars)
  <1> DEFINE text == IF Head(bytes) = "e2" THEN Replacement \o Tail(bytes) ELSE bytes
  <1>1. Replacement \in Seq(Chars) /\ Len(Replacement) = 3
    BY DEF Replacement, Chars, InLine
  <1>2. Tail(bytes) \in Seq(Chars)
    BY HeadTailProperties
  <1>3. text \in Seq(Chars)
    BY <1>1, <1>2, ConcatProperties
  <1>4. SubSeq(text, 1, Len(text) - 1) \in Seq(Chars)
    <2> HIDE DEF text
    <2>1. Len(text) \in Nat /\ \A i \in 1..Len(text) : text[i] \in Chars
      BY <1>3
    <2>2. \A i \in 1..(Len(text) - 1) : text[i] \in Chars
      BY <2>1
    <2> QED BY <2>1, <2>2, SubSeqProperties
  <1>5. SubSeq(text, 1, Len(text) - 1) \o Replacement \in Seq(Chars)
    BY <1>1, <1>4, ConcatProperties
  <1>6. Decode(bytes) = IF text[Len(text)] = "e1" THEN SubSeq(text, 1, Len(text) - 1) \o Replacement
                                                  ELSE text
    BY DEF Decode
  <1> QED BY <1>3, <1>5, <1>6

-----------------------------------------------------------------------------
(* Types *)

LEMMA LineTyped ==
    ASSUME NEW line \in Lines
    PROVE  /\ line \in Seq(Bytes) /\ IsUtf8(line) /\ Len(line) \in Nat
           /\ \A i \in 1..Len(line) : line[i] \in Bytes
  BY NdjsonAssumption DEF Bytes

\* What is on the wire after another line, byte for byte.
LEMMA WireGrows ==
    ASSUME NEW S, Bytes \cup {Newline} \subseteq S, NEW s \in Seq(S), NEW line \in Lines
    PROVE  LET t == s \o line \o <<Newline>>
           IN  /\ t \in Seq(S) /\ Len(t) = Len(s) + Len(line) + 1
               /\ \A i \in 1..Len(s) : t[i] = s[i]
               /\ \A i \in 1..Len(line) : t[Len(s) + i] = line[i]
               /\ t[Len(t)] = Newline
  <1> DEFINE u == s \o line
             end == <<Newline>>
             t == u \o end
  <1>1. line \in Seq(S) /\ end \in Seq(S) /\ Len(end) = 1 /\ end[1] = Newline
    BY LineTyped, SeqMonotonic
  <1> HIDE DEF end
  <1>2. /\ u \in Seq(S) /\ Len(u) = Len(s) + Len(line)
        /\ \A i \in 1..(Len(s) + Len(line)) : u[i] = IF i <= Len(s) THEN s[i] ELSE line[i - Len(s)]
    BY <1>1, ConcatProperties
  <1>3. /\ t \in Seq(S) /\ Len(t) = Len(u) + 1
        /\ \A i \in 1..(Len(u) + 1) : t[i] = IF i <= Len(u) THEN u[i] ELSE end[i - Len(u)]
    <2>1. u \in Seq(S) /\ end \in Seq(S) /\ Len(end) = 1
      BY <1>1, <1>2
    <2> HIDE DEF u
    <2>2. /\ t \in Seq(S) /\ Len(t) = Len(u) + Len(end)
          /\ \A i \in 1..(Len(u) + Len(end)) : t[i] = IF i <= Len(u) THEN u[i] ELSE end[i - Len(u)]
      BY <2>1, ConcatProperties
    <2> QED BY <2>1, <2>2
  <1>4. Len(s) \in Nat /\ Len(line) \in Nat
    BY <1>1
  <1> HIDE DEF u, t
  <1>5. \A i \in 1..Len(s) : t[i] = s[i]
    BY <1>2, <1>3, <1>4
  <1>6. ASSUME NEW i \in 1..Len(line) PROVE t[Len(s) + i] = line[i]
    <2>1. Len(s) + i \in 1..Len(u) /\ ~(Len(s) + i <= Len(s)) /\ Len(s) + i - Len(s) = i
      BY <1>2, <1>4
    <2> QED BY <1>2, <1>3, <1>4, <2>1
  <1>7. t[Len(t)] = Newline
    <2>1. Len(u) \in Nat /\ Len(t) \in 1..(Len(u) + 1) /\ Len(t) - Len(u) = 1 /\ ~(Len(t) <= Len(u))
      BY <1>2, <1>3, <1>4
    <2> QED BY <1>1, <1>3, <2>1
  <1> QED BY <1>2, <1>3, <1>4, <1>5, <1>6, <1>7 DEF t, u, end

\* A chunk and what it leaves on the wire.
LEMMA ChunkIs ==
    ASSUME NEW S, NEW s \in Seq(S), NEW n \in 1..Len(s)
    PROVE  /\ SubSeq(s, 1, n) \in Seq(S) /\ Len(SubSeq(s, 1, n)) = n
           /\ \A i \in 1..n : SubSeq(s, 1, n)[i] = s[i]
           /\ SubSeq(s, n + 1, Len(s)) \in Seq(S) /\ Len(SubSeq(s, n + 1, Len(s))) = Len(s) - n
           /\ \A i \in 1..(Len(s) - n) : SubSeq(s, n + 1, Len(s))[i] = s[n + i]
  <1>1. Len(s) \in Nat /\ \A i \in 1..Len(s) : s[i] \in S
    OBVIOUS
  <1>2. \A i \in 1..n : s[i] \in S
    BY <1>1
  <1>3. \A i \in (n + 1)..Len(s) : s[i] \in S
    BY <1>1
  <1>4. /\ SubSeq(s, 1, n) \in Seq(S)
        /\ Len(SubSeq(s, 1, n)) = IF 1 <= n THEN n - 1 + 1 ELSE 0
        /\ \A i \in 1..(n - 1 + 1) : SubSeq(s, 1, n)[i] = s[1 + i - 1]
    BY <1>1, <1>2, SubSeqProperties
  <1>5. n + 1 \in Int /\ Len(s) \in Int
    BY <1>1
  <1>6. /\ SubSeq(s, n + 1, Len(s)) \in Seq(S)
        /\ Len(SubSeq(s, n + 1, Len(s))) = IF n + 1 <= Len(s) THEN Len(s) - (n + 1) + 1 ELSE 0
        /\ \A i \in 1..(Len(s) - (n + 1) + 1) : SubSeq(s, n + 1, Len(s))[i] = s[n + 1 + i - 1]
    BY <1>3, <1>5, SubSeqProperties
  <1>7. ASSUME NEW i \in 1..n PROVE SubSeq(s, 1, n)[i] = s[i]
    <2>1. i \in 1..(n - 1 + 1) /\ 1 + i - 1 = i
      BY <1>1
    <2> QED BY <1>4, <2>1
  <1>8. ASSUME NEW i \in 1..(Len(s) - n) PROVE SubSeq(s, n + 1, Len(s))[i] = s[n + i]
    <2>1. i \in 1..(Len(s) - (n + 1) + 1) /\ n + 1 + i - 1 = n + i
      BY <1>1
    <2> QED BY <1>6, <2>1
  <1>9. Len(SubSeq(s, 1, n)) = n /\ Len(SubSeq(s, n + 1, Len(s))) = Len(s) - n
    BY <1>1, <1>4, <1>6
  <1> QED BY <1>4, <1>6, <1>7, <1>8, <1>9

LEMMA TypeInit == Init => TypeOK
  <1> SUFFICES ASSUME Init PROVE TypeOK
    OBVIOUS
  <1>1. wire \in Seq(Bytes \cup {Newline}) /\ buffer \in Seq(Bytes \cup {"r1", "r2", "r3"})
    BY EmptySeq DEF Init
  <1> QED BY <1>1 DEF Init, TypeOK

LEMMA TypeStep == TypeOK /\ [Next]_vars => TypeOK'
  <1> SUFFICES ASSUME TypeOK, [Next]_vars PROVE TypeOK'
    OBVIOUS
  <1>1. ASSUME NEW line \in Lines, WriteNdjson(line) PROVE TypeOK'
    <2>1. Len(line) \in Nat /\ wire' \in Seq(Bytes \cup {Newline})
      BY <1>1, LineTyped, WireGrows DEF WriteNdjson, TypeOK
    <2>2. written' \in Nat \ {0}
      BY <1>1, <2>1 DEF WriteNdjson, TypeOK
    <2>3. [at |-> written', line |-> line] \in Located(Lines)
      BY <2>2 DEF Located
    <2> QED BY <1>1, <2>1, <2>2, <2>3 DEF WriteNdjson, TypeOK
  <1>2. ASSUME NEW n \in 1..MaxChunk, Feed(n) PROVE TypeOK'
    <2> DEFINE chunk == SubSeq(wire, 1, n)
               text == buffer \o Decode(chunk)
    <2>1. n \in 1..Len(wire)
      BY <1>2, NdjsonAssumption DEF Feed, TypeOK
    <2>2. /\ chunk \in Seq(Bytes \cup {Newline}) /\ Len(chunk) = n
          /\ wire' \in Seq(Bytes \cup {Newline})
      BY <1>2, <2>1, ChunkIs DEF Feed, TypeOK
    <2>3. text \in Seq(Chars)
      <3>1. chunk \in Seq(Chars) /\ chunk # <<>>
        BY <2>1, <2>2, SeqMonotonic DEF Chars, InLine
      <3>2. buffer \in Seq(Chars)
        BY SeqMonotonic DEF TypeOK, Chars, InLine
      <3> QED BY <3>1, <3>2, DecodeTyped, ConcatProperties
    <2>4. sent' \subseteq Located(Lines) /\ written' \in Nat /\ cut' \in BOOLEAN
      BY <1>2 DEF Feed, TypeOK
    <2>5. CASE Destroy
      BY <2>2, <2>4, <2>5, EmptySeq DEF Destroy, Reset, TypeOK
    <2>6. CASE Accept(chunk)
      <3> HIDE DEF chunk
      <3>1. /\ buffer' = Remainder(text) /\ Emit(text) /\ destroyed' = destroyed
        BY <2>6 DEF Accept
      <3> HIDE DEF text
      <3>2. buffer' \in Seq(InLine) /\ Ended(text) \in Nat
        BY <2>3, <3>1, RemainderIs
      <3>3. split' \in Nat
        BY <3>1, <3>2 DEF Emit, TypeOK
      <3>4. ASSUME NEW m \in Complete(text) PROVE m \in Located(Seq(InLine))
        <4>1. PICK i \in Newlines(text) :
                 m = [at |-> split + i, line |-> SubSeq(text, Before(text, i) + 1, i - 1)]
          BY DEF Complete
        <4>2. i \in Nat \ {0}
          BY <2>3 DEF Newlines
        <4>3. SubSeq(text, Before(text, i) + 1, i - 1) \in Seq(InLine)
          BY <2>3, LineBefore
        <4>4. split + i \in Nat \ {0}
          BY <4>2 DEF TypeOK
        <4> QED BY <4>1, <4>3, <4>4 DEF Located
      <3>5. emitted' \subseteq Located(Seq(InLine))
        BY <3>1, <3>4 DEF Emit, TypeOK, InLine
      <3> QED BY <2>2, <2>4, <3>1, <3>2, <3>3, <3>5 DEF TypeOK, InLine
    <2> QED BY <1>2, <2>5, <2>6 DEF Feed
  <1>3. CASE UNCHANGED vars
    BY <1>3 DEF vars, TypeOK
  <1> QED BY <1>1, <1>2, <1>3 DEF Next

\* The buffer of ndjson-framer.ts never holds a newline, no message does, and what is on the
\* wire are bytes that the peer wrote.
THEOREM TypeCorrect == Spec => []TypeOK
  BY TypeInit, TypeStep, PTL DEF Spec

-----------------------------------------------------------------------------
(* The lines that were sent *)

\* Where a line begins: the place after which its first byte is.
First(m) == m.at - Len(m.line) - 1

\* The lines lie one behind the other, from 0 to what is written.
SentInv ==
    /\ \A m \in sent : First(m) >= 0 /\ m.at <= written
    /\ \A m \in sent : First(m) = 0 \/ \E o \in sent : o.at = First(m)
    /\ written = 0 \/ \E o \in sent : o.at = written
    /\ \A m, o \in sent : m.at < o.at => m.at <= First(o)
    /\ \A m, o \in sent : m.at = o.at => m = o

\* Whole lines are on the wire, and whole characters, unless one is cut.
WireInv ==
    /\ \A i \in 1..(Len(wire) - 1) : wire[i + 1] = "e2" => wire[i] = "e1"
    /\ wire # <<>> => wire[Len(wire)] = Newline
    /\ ~cut /\ wire # <<>> => wire[1] # "e2"

\* The text that is not yet split.
Ahead == buffer \o wire

\* A line lies in it byte for byte.
LiesAhead(m) ==
    /\ First(m) >= split
    /\ Ahead[m.at - split] = Newline
    /\ \A k \in 1..Len(m.line) : Ahead[First(m) - split + k] = m.line[k]

\* What is ahead are the lines that are not yet split off, and nothing else.
StreamInv ==
    ~cut /\ ~destroyed =>
        /\ written = split + Len(Ahead)
        /\ \A i \in Newlines(Ahead) : \E m \in sent : m.at = split + i
        /\ \A m \in sent : m.at > split => LiesAhead(m)

\* The lines that are split off are those whose messages were emitted.
EmitInv ==
    ~cut => split <= written /\ emitted = {m \in Messages : m.at <= split}

LEMMA SentTyped ==
    ASSUME TypeOK, NEW m \in sent
    PROVE  /\ m.at \in Nat \ {0} /\ m.line \in Lines /\ Len(m.line) \in Nat /\ First(m) \in Int
           /\ m = [at |-> m.at, line |-> m.line]
  <1>1. m \in Located(Lines)
    BY DEF TypeOK
  <1>2. m.at \in Nat \ {0} /\ m.line \in Lines /\ m = [at |-> m.at, line |-> m.line]
    BY <1>1 DEF Located
  <1>3. Len(m.line) \in Nat
    BY <1>2, LineTyped
  <1> QED BY <1>2, <1>3 DEF First

LEMMA WriteIs ==
    ASSUME TypeOK, NEW line \in Lines, WriteNdjson(line)
    PROVE  /\ Len(line) \in Nat /\ written' = written + Len(line) + 1 /\ written \in Nat
           /\ sent' = sent \cup {[at |-> written', line |-> line]}
           /\ First([at |-> written', line |-> line]) = written
  <1>1. Len(line) \in Nat /\ written \in Nat
    BY LineTyped DEF TypeOK
  <1> QED BY <1>1 DEF WriteNdjson, First

LEMMA SentStep == TypeOK /\ SentInv /\ [Next]_vars => SentInv'
  <1> SUFFICES ASSUME TypeOK, SentInv, [Next]_vars PROVE SentInv'
    OBVIOUS
  <1>1. ASSUME NEW line \in Lines, WriteNdjson(line) PROVE SentInv'
    <2> DEFINE new == [at |-> written', line |-> line]
    <2>1. /\ Len(line) \in Nat /\ written' = written + Len(line) + 1 /\ written \in Nat
          /\ sent' = sent \cup {new} /\ First(new) = written /\ new.at = written'
      BY <1>1, WriteIs
    <2> HIDE DEF new
    <2>2. \A m \in sent : m.at \in Nat /\ First(m) \in Int /\ m.at <= written
      BY SentTyped DEF SentInv
    <2>3. \A m \in sent' : First(m) >= 0 /\ m.at <= written'
      BY <2>1, <2>2 DEF SentInv
    <2>4. \A m \in sent' : First(m) = 0 \/ \E o \in sent' : o.at = First(m)
      BY <2>1 DEF SentInv
    <2>5. \E o \in sent' : o.at = written'
      BY <2>1
    <2>6. \A m, o \in sent' : m.at < o.at => m.at <= First(o)
      BY <2>1, <2>2 DEF SentInv
    <2>7. \A m, o \in sent' : m.at = o.at => m = o
      BY <2>1, <2>2 DEF SentInv
    <2> QED BY <2>3, <2>4, <2>5, <2>6, <2>7 DEF SentInv, First
  <1>2. ASSUME NEW n, Feed(n) PROVE SentInv'
    BY <1>2 DEF Feed, SentInv, First
  <1>3. CASE UNCHANGED vars
    BY <1>3 DEF vars, SentInv, First
  <1> QED BY <1>1, <1>2, <1>3 DEF Next

LEMMA WireStep == TypeOK /\ WireInv /\ [Next]_vars => WireInv'
  <1> SUFFICES ASSUME TypeOK, WireInv, [Next]_vars PROVE WireInv'
    OBVIOUS
  <1> DEFINE S == Bytes \cup {Newline}
  <1>0. wire \in Seq(S) /\ Len(wire) \in Nat /\ (wire = <<>> <=> Len(wire) = 0)
    BY DEF TypeOK
  <1>1. ASSUME NEW line \in Lines, WriteNdjson(line) PROVE WireInv'
    <2>1. /\ wire' \in Seq(S) /\ Len(wire') = Len(wire) + Len(line) + 1
          /\ \A i \in 1..Len(wire) : wire'[i] = wire[i]
          /\ \A i \in 1..Len(line) : wire'[Len(wire) + i] = line[i]
          /\ wire'[Len(wire')] = Newline
      BY <1>0, <1>1, WireGrows DEF WriteNdjson
    <2>2. /\ Len(line) \in Nat /\ DOMAIN line = 1..Len(line)
          /\ \A i \in 1..Len(line) : line[i] = "e2" => i > 1 /\ line[i - 1] = "e1"
      <3>1. line \in Seq(Bytes) /\ IsUtf8(line)
        BY LineTyped
      <3>2. Len(line) \in Nat /\ DOMAIN line = 1..Len(line)
        BY <3>1
      <3> QED BY <3>1, <3>2 DEF IsUtf8
    <2>3. ASSUME NEW i \in 1..Len(wire'), wire'[i] = "e2" PROVE i < Len(wire')
      <3>1. i # Len(wire')
        BY <2>1, <2>3 DEF Newline
      <3> QED BY <1>0, <2>1, <2>2, <3>1
    <2>4. ASSUME NEW i \in 1..(Len(wire') - 1), wire'[i + 1] = "e2" PROVE wire'[i] = "e1"
      <3>1. i + 1 < Len(wire')
        BY <1>0, <2>1, <2>2, <2>3, <2>4
      <3>2. CASE i + 1 <= Len(wire)
        <4>1. i + 1 \in 1..Len(wire) /\ i \in 1..Len(wire) /\ i \in 1..(Len(wire) - 1)
          BY <1>0, <3>2
        <4> QED BY <2>1, <2>4, <4>1 DEF WireInv
      <3>3. CASE i + 1 > Len(wire)
        <4> DEFINE k == i + 1 - Len(wire)
        <4>1. k \in 1..Len(line) /\ Len(wire) + k = i + 1
          BY <1>0, <2>1, <2>2, <3>1, <3>3
        <4>2. line[k] = "e2"
          BY <2>1, <2>4, <4>1
        <4>3. k > 1 /\ line[k - 1] = "e1"
          BY <2>2, <4>1, <4>2
        <4>4. k - 1 \in 1..Len(line) /\ Len(wire) + (k - 1) = i
          BY <1>0, <4>1, <4>3
        <4> QED BY <2>1, <4>3, <4>4
      <3> QED BY <1>0, <3>2, <3>3
    <2>5. ASSUME ~cut PROVE wire'[1] # "e2"
      <3>1. CASE wire # <<>>
        <4>1. 1 \in 1..Len(wire)
          BY <1>0, <3>1
        <4> QED BY <2>1, <2>5, <3>1, <4>1 DEF WireInv
      <3>2. CASE wire = <<>> /\ Len(line) > 0
        <4>1. 1 \in 1..Len(line) /\ Len(wire) + 1 = 1
          BY <1>0, <2>2, <3>2
        <4> QED BY <2>1, <2>2, <4>1
      <3>3. CASE wire = <<>> /\ Len(line) = 0
        BY <1>0, <2>1, <3>3 DEF Newline
      <3> QED BY <2>2, <3>1, <3>2, <3>3
    <2>6. cut' = cut
      BY <1>1 DEF WriteNdjson
    <2> QED BY <2>1, <2>4, <2>5, <2>6 DEF WireInv
  <1>2. ASSUME NEW n \in 1..MaxChunk, Feed(n) PROVE WireInv'
    <2>1. n \in 1..Len(wire)
      BY <1>0, <1>2, NdjsonAssumption DEF Feed
    <2>2. /\ wire' \in Seq(S) /\ Len(wire') = Len(wire) - n
          /\ \A i \in 1..(Len(wire) - n) : wire'[i] = wire[n + i]
          /\ SubSeq(wire, 1, n)[n] = wire[n]
      BY <1>0, <1>2, <2>1, ChunkIs DEF Feed
    <2>3. ASSUME NEW i \in 1..(Len(wire') - 1), wire'[i + 1] = "e2" PROVE wire'[i] = "e1"
      <3>1. /\ i \in 1..(Len(wire) - n) /\ i + 1 \in 1..(Len(wire) - n)
            /\ n + i \in 1..(Len(wire) - 1) /\ n + (i + 1) = (n + i) + 1
        BY <1>0, <2>1, <2>2
      <3> QED BY <2>2, <2>3, <3>1 DEF WireInv
    <2>4. ASSUME wire' # <<>> PROVE wire'[Len(wire')] = Newline
      <3>1. Len(wire') \in 1..(Len(wire) - n) /\ n + Len(wire') = Len(wire) /\ wire # <<>>
        BY <1>0, <2>1, <2>2, <2>4
      <3> QED BY <2>2, <3>1 DEF WireInv
    <2>5. ASSUME ~cut', wire' # <<>> PROVE wire'[1] # "e2"
      <3>1. wire[n] # "e1"
        BY <1>2, <2>2, <2>5 DEF Feed
      <3>2. 1 \in 1..(Len(wire) - n) /\ n \in 1..(Len(wire) - 1)
        BY <1>0, <2>1, <2>2, <2>5
      <3> QED BY <2>2, <3>1, <3>2 DEF WireInv
    <2> QED BY <2>3, <2>4, <2>5 DEF WireInv
  <1>3. CASE UNCHANGED vars
    BY <1>3 DEF vars, WireInv
  <1> QED BY <1>1, <1>2, <1>3 DEF Next

-----------------------------------------------------------------------------
(* What is ahead *)

LEMMA AheadIs ==
    ASSUME TypeOK
    PROVE  /\ Ahead \in Seq(Chars) /\ Len(Ahead) = Len(buffer) + Len(wire)
           /\ buffer \in Seq(Chars) /\ wire \in Seq(Chars)
           /\ \A i \in 1..Len(buffer) : Ahead[i] = buffer[i] /\ buffer[i] # Newline
           /\ \A i \in 1..Len(wire) : Ahead[Len(buffer) + i] = wire[i]
  <1>1. buffer \in Seq(InLine) /\ wire \in Seq(Bytes \cup {Newline})
    BY DEF TypeOK, InLine
  <1>2. buffer \in Seq(Chars) /\ wire \in Seq(Chars)
    BY <1>1, SeqMonotonic DEF Chars, InLine
  <1>3. /\ Ahead \in Seq(Chars) /\ Len(Ahead) = Len(buffer) + Len(wire)
        /\ \A i \in 1..(Len(buffer) + Len(wire)) :
              Ahead[i] = IF i <= Len(buffer) THEN buffer[i] ELSE wire[i - Len(buffer)]
    BY <1>2, ConcatProperties DEF Ahead
  <1>4. Len(buffer) \in Nat /\ Len(wire) \in Nat
    BY <1>2
  <1>5. ASSUME NEW i \in 1..Len(buffer) PROVE Ahead[i] = buffer[i] /\ buffer[i] # Newline
    <2>1. buffer[i] \in InLine
      BY <1>1
    <2> QED BY <1>3, <1>4, <2>1 DEF InLine, Bytes, Newline
  <1>6. ASSUME NEW i \in 1..Len(wire) PROVE Ahead[Len(buffer) + i] = wire[i]
    <2>1. /\ Len(buffer) + i \in 1..(Len(buffer) + Len(wire)) /\ ~(Len(buffer) + i <= Len(buffer))
          /\ Len(buffer) + i - Len(buffer) = i
      BY <1>4
    <2> QED BY <1>3, <2>1
  <1> QED BY <1>2, <1>3, <1>5, <1>6

\* A line that is ahead lies between two newlines, or begins what is ahead.
LEMMA LineAhead ==
    ASSUME TypeOK, SentInv, StreamInv, ~cut, ~destroyed, NEW m \in sent, m.at > split
    PROVE  /\ First(m) - split \in Nat /\ m.at - split \in 1..Len(Ahead)
           /\ m.at - split = First(m) - split + Len(m.line) + 1
           /\ Ahead[m.at - split] = Newline
           /\ First(m) > split => /\ First(m) - split \in 1..Len(Ahead)
                                  /\ Ahead[First(m) - split] = Newline
           /\ \A k \in 1..Len(m.line) :
                 /\ Ahead[First(m) - split + k] = m.line[k] /\ m.line[k] # Newline
  <1>1. /\ m.at \in Nat \ {0} /\ m.line \in Lines /\ Len(m.line) \in Nat /\ First(m) \in Int
        /\ split \in Nat
    BY SentTyped DEF TypeOK
  <1>2. LiesAhead(m) /\ written = split + Len(Ahead) /\ m.at <= written /\ Len(Ahead) \in Nat
    BY AheadIs DEF StreamInv, SentInv
  <1>3. First(m) - split \in Nat /\ m.at - split = First(m) - split + Len(m.line) + 1
    <2>1. First(m) >= split /\ First(m) = m.at - Len(m.line) - 1
      BY <1>2 DEF LiesAhead, First
    <2> QED BY <1>1, <2>1
  <1>4. ASSUME First(m) > split
        PROVE  First(m) - split \in 1..Len(Ahead) /\ Ahead[First(m) - split] = Newline
    <2>1. PICK o \in sent : o.at = First(m)
      BY <1>1, <1>4 DEF SentInv, TypeOK
    <2>2. o.at <= written /\ LiesAhead(o)
      BY <1>4, <2>1 DEF StreamInv, SentInv
    <2> QED BY <1>1, <1>2, <1>4, <2>1, <2>2 DEF LiesAhead
  <1>5. ASSUME NEW k \in 1..Len(m.line) PROVE m.line[k] # Newline
    BY <1>1, LineTyped DEF Bytes, Newline
  <1> QED BY <1>1, <1>2, <1>3, <1>4, <1>5 DEF LiesAhead

\* split('\n') finds the line that was sent.
LEMMA LineFound ==
    ASSUME TypeOK, SentInv, StreamInv, ~cut, ~destroyed,
           NEW text \in Seq(Chars), Len(text) <= Len(Ahead),
           \A i \in 1..Len(text) : text[i] = Ahead[i],
           NEW i \in Newlines(text), NEW m \in sent, m.at = split + i
    PROVE  SubSeq(text, Before(text, i) + 1, i - 1) = m.line
  <1> DEFINE j == Before(text, i)
             s == First(m) - split
             line == SubSeq(text, j + 1, i - 1)
  <1>1. Len(text) \in Nat /\ i \in 1..Len(text) /\ split \in Nat
    BY DEF Newlines, TypeOK
  <1>2. /\ j \in 0..(i - 1) /\ (j > 0 => text[j] = Newline)
        /\ \A k \in 1..Len(text) : j < k /\ k < i => text[k] # Newline
    BY <1>1, BeforeIs
  <1>3. /\ line \in Seq(InLine) /\ Len(line) = i - 1 - j
        /\ \A k \in 1..(i - 1 - j) : line[k] = text[j + k]
    BY LineBefore
  <1>4. /\ s \in Nat /\ i = s + Len(m.line) + 1
        /\ (s > 0 => s \in 1..Len(Ahead) /\ Ahead[s] = Newline)
        /\ \A k \in 1..Len(m.line) : Ahead[s + k] = m.line[k] /\ m.line[k] # Newline
        /\ Len(m.line) \in Nat /\ m.line \in Lines
    <2>1. m.at > split /\ m.at - split = i /\ First(m) \in Int
      BY <1>1, SentTyped
    <2> QED BY <1>1, <2>1, LineAhead, SentTyped
  <1> HIDE DEF j, s, line
  <1>5. j = s
    <2>1. CASE j < s
      <3>1. s \in 1..Len(text) /\ s < i
        BY <1>1, <1>2, <1>4, <2>1
      <3> QED BY <1>2, <1>4, <2>1, <3>1
    <2>2. CASE j > s
      <3>1. j - s \in 1..Len(m.line) /\ s + (j - s) = j /\ j \in 1..Len(text) /\ j > 0
        BY <1>1, <1>2, <1>4, <2>2
      <3> QED BY <1>2, <1>4, <3>1
    <2> QED BY <1>1, <1>2, <1>4, <2>1, <2>2
  <1>6. Len(line) = Len(m.line)
    BY <1>1, <1>3, <1>4, <1>5
  <1>7. ASSUME NEW k \in 1..Len(line) PROVE line[k] = m.line[k]
    <2>1. k \in 1..(i - 1 - j) /\ k \in 1..Len(m.line) /\ s + k \in 1..Len(text)
      BY <1>1, <1>3, <1>4, <1>5, <1>6, <1>7
    <2> QED BY <1>3, <1>4, <1>5, <2>1
  <1>8. m.line \in Seq(InLine)
    BY <1>4, LineTyped, SeqMonotonic DEF InLine
  <1>9. line = m.line
    BY <1>3, <1>6, <1>7, <1>8, SeqEqual
  <1> QED BY <1>9 DEF line, j

\* What feed() splits off is what was sent.
LEMMA LinesSplitOff ==
    ASSUME TypeOK, SentInv, StreamInv, ~cut, ~destroyed,
           NEW text \in Seq(Chars), Len(text) <= Len(Ahead),
           \A i \in 1..Len(text) : text[i] = Ahead[i]
    PROVE  Complete(text) = {m \in sent : m.at > split /\ m.at <= split + Ended(text)}
  <1>0. Len(text) \in Nat /\ DOMAIN text = 1..Len(text) /\ split \in Nat /\ Len(Ahead) \in Nat
    BY AheadIs DEF TypeOK
  <1>1. /\ Ended(text) \in 0..Len(text)
        /\ \A k \in Newlines(text) : k <= Ended(text)
    BY RemainderIs
  <1>2. ASSUME NEW c \in Complete(text)
        PROVE  c \in sent /\ c.at > split /\ c.at <= split + Ended(text)
    <2>1. PICK i \in Newlines(text) :
             c = [at |-> split + i, line |-> SubSeq(text, Before(text, i) + 1, i - 1)]
      BY DEF Complete
    <2>2. i \in 1..Len(text) /\ text[i] = Newline /\ i <= Ended(text)
      BY <1>0, <1>1 DEF Newlines
    <2>3. i \in Newlines(Ahead)
      <3>1. i \in 1..Len(Ahead) /\ Ahead[i] = Newline
        BY <1>0, <2>2
      <3> QED BY <3>1, AheadIs DEF Newlines
    <2>4. PICK m \in sent : m.at = split + i
      BY <2>3 DEF StreamInv
    <2>5. SubSeq(text, Before(text, i) + 1, i - 1) = m.line
      BY <2>4, LineFound
    <2>6. c = m
      BY <2>1, <2>4, <2>5, SentTyped
    <2> QED BY <1>0, <1>1, <2>2, <2>4, <2>6
  <1>3. ASSUME NEW m \in sent, m.at > split, m.at <= split + Ended(text) PROVE m \in Complete(text)
    <2> DEFINE i == m.at - split
    <2>1. i \in 1..Len(text) /\ m.at = split + i /\ Ahead[i] = Newline
      <3>1. m.at \in Nat /\ i \in 1..Len(Ahead) /\ Ahead[i] = Newline
        BY <1>3, LineAhead, SentTyped
      <3> QED BY <1>0, <1>1, <1>3, <3>1
    <2> HIDE DEF i
    <2>2. i \in Newlines(text)
      BY <1>0, <2>1 DEF Newlines
    <2>3. m = [at |-> split + i, line |-> SubSeq(text, Before(text, i) + 1, i - 1)]
      BY <2>1, <2>2, LineFound, SentTyped
    <2> QED BY <2>2, <2>3 DEF Complete
  <1> QED BY <1>2, <1>3

\* A 'data' event that ends between two characters, below the limit: the text it makes is the
\* beginning of what is ahead, and what follows its last newline stays ahead.
LEMMA Accepted ==
    ASSUME TypeOK, WireInv, NEW n \in 1..MaxChunk, Feed(n), ~cut',
           Accept(SubSeq(wire, 1, n)),
           NEW text, text = buffer \o SubSeq(wire, 1, n)
    PROVE  /\ text \in Seq(Chars) /\ Len(text) <= Len(Ahead)
           /\ \A i \in 1..Len(text) : text[i] = Ahead[i]
           /\ emitted' = emitted \cup {m \in Complete(text) : IsMessage(m)}
           /\ split' = split + Ended(text)
           /\ Ended(text) \in 0..Len(text)
           /\ Ended(text) > 0 => Ahead[Ended(text)] = Newline
           /\ Ahead' \in Seq(Chars) /\ Len(Ahead') = Len(Ahead) - Ended(text)
           /\ \A i \in 1..Len(Ahead') : Ahead'[i] = Ahead[Ended(text) + i]
  <1> DEFINE chunk == SubSeq(wire, 1, n)
             E == Ended(text)
             rest == SubSeq(wire, n + 1, Len(wire))
  <1>1. /\ wire \in Seq(Chars) /\ buffer \in Seq(Chars) /\ Len(wire) \in Nat /\ Len(buffer) \in Nat
        /\ Ahead \in Seq(Chars) /\ Len(Ahead) = Len(buffer) + Len(wire)
        /\ \A i \in 1..Len(buffer) : Ahead[i] = buffer[i]
        /\ \A i \in 1..Len(wire) : Ahead[Len(buffer) + i] = wire[i]
    BY AheadIs
  <1>2. n \in 1..Len(wire) /\ n \in Nat
    BY <1>1, NdjsonAssumption DEF Feed
  <1>3. /\ chunk \in Seq(Chars) /\ Len(chunk) = n
        /\ \A i \in 1..n : chunk[i] = wire[i]
        /\ rest \in Seq(Chars) /\ Len(rest) = Len(wire) - n
        /\ \A i \in 1..(Len(wire) - n) : rest[i] = wire[n + i]
    BY <1>1, <1>2, ChunkIs
  <1>4. Decode(chunk) = chunk
    <2>1. 1 \in 1..n /\ n \in 1..n /\ n # 0 /\ Len(wire) # 0
      BY <1>1, <1>2
    <2>a. chunk # <<>> /\ wire # <<>>
      <3> HIDE DEF chunk
      <3> QED BY <1>3, <2>1
    <2>2. ~cut /\ chunk[n] # "e1"
      BY DEF Feed
    <2>3. chunk[1] # "e2"
      BY <1>3, <2>1, <2>a, <2>2 DEF WireInv
    <2> QED BY <1>3, <2>1, <2>a, <2>2, <2>3, DecodeWhole
  <1>5. /\ buffer' = Remainder(text) /\ wire' = rest
        /\ emitted' = emitted \cup {m \in Complete(text) : IsMessage(m)}
        /\ split' = split + E
    BY <1>4 DEF Accept, Emit, Feed
  <1> HIDE DEF chunk, rest
  <1>6. /\ text \in Seq(Chars) /\ Len(text) = Len(buffer) + n
        /\ \A i \in 1..(Len(buffer) + n) :
              text[i] = IF i <= Len(buffer) THEN buffer[i] ELSE chunk[i - Len(buffer)]
    <2>1. text = buffer \o chunk
      BY DEF chunk
    <2> QED BY <1>1, <1>3, <2>1, ConcatProperties
  <1>7. ASSUME NEW i \in 1..Len(text) PROVE text[i] = Ahead[i]
    <2>1. CASE i <= Len(buffer)
      BY <1>1, <1>6, <2>1
    <2>2. CASE i > Len(buffer)
      <3>1. i - Len(buffer) \in 1..n /\ i - Len(buffer) \in 1..Len(wire)
            /\ Len(buffer) + (i - Len(buffer)) = i /\ ~(i <= Len(buffer))
        BY <1>1, <1>2, <1>6, <2>2
      <3> QED BY <1>1, <1>3, <1>6, <3>1
    <2> QED BY <1>1, <1>6, <2>1, <2>2
  <1>8. Len(text) <= Len(Ahead) /\ Len(text) \in Nat
    BY <1>1, <1>2, <1>6
  <1>9. /\ E \in 0..Len(text) /\ (E > 0 => text[E] = Newline)
        /\ Remainder(text) \in Seq(InLine) /\ Len(Remainder(text)) = Len(text) - E
        /\ \A k \in 1..(Len(text) - E) : Remainder(text)[k] = text[E + k]
    BY <1>6, RemainderIs
  <1> HIDE DEF E
  <1>10. E > 0 => Ahead[E] = Newline
    BY <1>7, <1>8, <1>9
  <1>11. /\ Ahead' \in Seq(Chars)
         /\ Len(Ahead') = Len(text) - E + (Len(wire) - n)
         /\ \A i \in 1..(Len(text) - E + (Len(wire) - n)) :
               Ahead'[i] = IF i <= Len(text) - E THEN Remainder(text)[i]
                                                 ELSE rest[i - (Len(text) - E)]
    <2>1. Remainder(text) \in Seq(Chars)
      BY <1>9, SeqMonotonic DEF Chars
    <2>2. Ahead' = Remainder(text) \o rest
      BY <1>5 DEF Ahead
    <2>3. /\ Ahead' \in Seq(Chars) /\ Len(Ahead') = Len(Remainder(text)) + Len(rest)
          /\ \A i \in 1..(Len(Remainder(text)) + Len(rest)) :
                Ahead'[i] = IF i <= Len(Remainder(text)) THEN Remainder(text)[i]
                                                         ELSE rest[i - Len(Remainder(text))]
      <3> DEFINE kept == Remainder(text)
      <3>1. kept \in Seq(Chars) /\ rest \in Seq(Chars) /\ Ahead' = kept \o rest
        BY <1>3, <2>1, <2>2
      <3> HIDE DEF kept
      <3>2. /\ Ahead' \in Seq(Chars) /\ Len(Ahead') = Len(kept) + Len(rest)
            /\ \A i \in 1..(Len(kept) + Len(rest)) :
                  Ahead'[i] = IF i <= Len(kept) THEN kept[i] ELSE rest[i - Len(kept)]
        BY <3>1, ConcatProperties
      <3> QED BY <3>2 DEF kept
    <2> QED BY <1>3, <1>9, <2>3
  <1>12. Len(Ahead') = Len(Ahead) - E
    BY <1>1, <1>2, <1>6, <1>8, <1>9, <1>11
  <1>13. ASSUME NEW i \in 1..Len(Ahead') PROVE Ahead'[i] = Ahead[E + i]
    <2>1. CASE i <= Len(text) - E
      <3>1. i \in 1..(Len(text) - E) /\ E + i \in 1..Len(text)
        BY <1>8, <1>9, <2>1
      <3> QED BY <1>2, <1>1, <1>7, <1>8, <1>9, <1>11, <1>13, <2>1, <3>1
    <2>2. CASE i > Len(text) - E
      <3> DEFINE k == i - (Len(text) - E)
      <3>0. /\ Len(text) \in Nat /\ E \in Nat /\ E <= Len(text) /\ Len(text) = Len(buffer) + n
            /\ Len(wire) - n \in Nat /\ i \in Nat /\ i <= Len(text) - E + (Len(wire) - n)
        BY <1>1, <1>2, <1>6, <1>8, <1>9, <1>11, <1>13
      <3>1. /\ k \in 1..(Len(wire) - n) /\ n + k \in 1..Len(wire)
            /\ Len(buffer) + (n + k) = E + i /\ ~(i <= Len(text) - E)
            /\ i \in 1..(Len(text) - E + (Len(wire) - n))
        BY <1>1, <1>2, <3>0, <2>2
      <3>2. Ahead'[i] = rest[k]
        BY <1>11, <3>1
      <3> QED BY <1>1, <1>3, <3>1, <3>2
    <2> QED BY <1>1, <1>6, <1>8, <1>9, <1>12, <2>1, <2>2
  <1> QED BY <1>5, <1>6, <1>7, <1>8, <1>9, <1>10, <1>11, <1>12, <1>13 DEF E

LEMMA StreamStep ==
    TypeOK /\ SentInv /\ WireInv /\ StreamInv /\ [Next]_vars => StreamInv'
  <1> SUFFICES ASSUME TypeOK, SentInv, WireInv, StreamInv, [Next]_vars, ~cut', ~destroyed'
               PROVE  StreamInv'
    BY DEF StreamInv
  <1>0. split \in Nat /\ Len(Ahead) \in Nat
    BY AheadIs DEF TypeOK
  <1>1. ASSUME NEW line \in Lines, WriteNdjson(line) PROVE StreamInv'
    <2> DEFINE new == [at |-> written', line |-> line]
    <2>1. /\ Len(line) \in Nat /\ written' = written + Len(line) + 1 /\ written \in Nat
          /\ sent' = sent \cup {new} /\ First(new) = written
          /\ new.at = written' /\ new.line = line
          /\ split' = split /\ ~cut /\ ~destroyed
      BY <1>1, WriteIs DEF WriteNdjson
    <2>2. /\ Len(Ahead') = Len(Ahead) + Len(line) + 1
          /\ \A i \in 1..Len(Ahead) : Ahead'[i] = Ahead[i]
          /\ \A i \in 1..Len(line) : Ahead'[Len(Ahead) + i] = line[i]
          /\ Ahead'[Len(Ahead')] = Newline /\ DOMAIN Ahead' = 1..Len(Ahead')
      <3>1. Ahead' = Ahead \o line \o <<Newline>>
        <4>1. /\ buffer \in Seq(Chars) /\ wire \in Seq(Chars) /\ line \in Seq(Chars)
              /\ wire \o line \in Seq(Chars) /\ <<Newline>> \in Seq(Chars)
          BY AheadIs, LineTyped, SeqMonotonic, ConcatProperties DEF Chars, InLine
        <4>2. Ahead' = buffer \o ((wire \o line) \o <<Newline>>)
          BY <1>1 DEF WriteNdjson, Ahead
        <4>3. buffer \o ((wire \o line) \o <<Newline>>) = (buffer \o (wire \o line)) \o <<Newline>>
          BY <4>1, ConcatAssociative
        <4>4. buffer \o (wire \o line) = (buffer \o wire) \o line
          BY <4>1, ConcatAssociative
        <4> QED BY <4>2, <4>3, <4>4 DEF Ahead
      <3>2. Bytes \cup {Newline} \subseteq Chars /\ Ahead \in Seq(Chars)
        BY AheadIs DEF Chars, InLine
      <3> HIDE DEF new
      <3>3. Ahead' \in Seq(Chars)
        BY <3>1, <3>2, WireGrows
      <3> QED BY <3>1, <3>2, <3>3, WireGrows
    <2>3. /\ written = split + Len(Ahead)
          /\ \A i \in Newlines(Ahead) : \E m \in sent : m.at = split + i
          /\ \A m \in sent : m.at > split => LiesAhead(m)
      BY <2>1 DEF StreamInv
    <2> HIDE DEF new
    <2>4. written' = split' + Len(Ahead')
      BY <1>0, <2>1, <2>2, <2>3
    <2>5. ASSUME NEW i \in Newlines(Ahead') PROVE \E m \in sent' : m.at = split' + i
      <3>1. i \in 1..Len(Ahead') /\ Ahead'[i] = Newline
        BY <2>2, <2>5 DEF Newlines
      <3>2. CASE i <= Len(Ahead)
        <4>1. i \in Newlines(Ahead)
          <5>1. i \in 1..Len(Ahead) /\ Ahead[i] = Newline
            BY <1>0, <2>2, <3>1, <3>2
          <5> QED BY <5>1, AheadIs DEF Newlines
        <4> QED BY <2>1, <2>3, <4>1
      <3>3. CASE Len(Ahead) < i /\ i < Len(Ahead')
        <4> DEFINE k == i - Len(Ahead)
        <4>1. k \in 1..Len(line) /\ Len(Ahead) + k = i
          BY <1>0, <2>1, <2>2, <3>1, <3>3
        <4>2. line[k] = Newline
          BY <2>2, <3>1, <4>1
        <4> QED BY <4>1, <4>2, LineTyped DEF Bytes, Newline
      <3>4. CASE i = Len(Ahead')
        BY <2>1, <2>4, <3>4
      <3> QED BY <1>0, <2>1, <2>2, <3>1, <3>2, <3>3, <3>4
    <2>6. ASSUME NEW m \in sent', m.at > split' PROVE LiesAhead(m)'
      <3>1. CASE m \in sent
        <4>1. /\ First(m) - split \in Nat /\ m.at - split \in 1..Len(Ahead)
              /\ m.at - split = First(m) - split + Len(m.line) + 1
              /\ Len(m.line) \in Nat /\ First(m) \in Int
          BY <2>1, <2>6, <3>1, LineAhead, SentTyped
        <4>2. ASSUME NEW k \in 1..Len(m.line) PROVE First(m) - split + k \in 1..Len(Ahead)
          BY <1>0, <4>1
        <4>3. LiesAhead(m)
          BY <2>1, <2>3, <2>6, <3>1
        <4> QED BY <2>1, <2>2, <4>1, <4>2, <4>3 DEF LiesAhead, First
      <3>2. CASE m = new
        <4>1. First(m) - split = Len(Ahead) /\ m.at - split = Len(Ahead') /\ First(m) >= split
          BY <1>0, <2>1, <2>2, <2>3, <3>2
        <4> QED BY <2>1, <2>2, <3>2, <4>1 DEF LiesAhead, First
      <3> QED BY <2>1, <3>1, <3>2
    <2> QED BY <2>4, <2>5, <2>6 DEF StreamInv
  <1>2. ASSUME NEW n \in 1..MaxChunk, Feed(n) PROVE StreamInv'
    <2> DEFINE text == buffer \o SubSeq(wire, 1, n)
               E == Ended(text)
    <2>1. ~cut /\ ~destroyed /\ sent' = sent /\ written' = written /\ Accept(SubSeq(wire, 1, n))
      BY <1>2 DEF Feed, Destroy
    <2>2. /\ text \in Seq(Chars) /\ Len(text) <= Len(Ahead) /\ Ahead' \in Seq(Chars)
          /\ split' = split + E /\ E \in 0..Len(text)
          /\ (E > 0 => Ahead[E] = Newline)
          /\ Len(Ahead') = Len(Ahead) - E
          /\ \A i \in 1..Len(Ahead') : Ahead'[i] = Ahead[E + i]
      BY <1>2, <2>1, Accepted
    <2> HIDE DEF text, E
    <2>3. /\ E \in Nat /\ E <= Len(Ahead) /\ split' = split + E
          /\ Len(Ahead') = Len(Ahead) - E
      <3>1. Len(text) \in Nat
        BY <2>2
      <3> QED BY <1>0, <2>2, <3>1
    <2>4. /\ written = split + Len(Ahead)
          /\ \A i \in Newlines(Ahead) : \E m \in sent : m.at = split + i
          /\ \A m \in sent : m.at > split => LiesAhead(m)
      BY <2>1 DEF StreamInv
    <2>5. written' = split' + Len(Ahead')
      BY <1>0, <2>1, <2>2, <2>3, <2>4
    <2>6. ASSUME NEW i \in Newlines(Ahead') PROVE \E m \in sent' : m.at = split' + i
      <3>1. DOMAIN Ahead' = 1..Len(Ahead')
        BY <2>2
      <3>2. i \in 1..Len(Ahead') /\ Ahead'[i] = Newline
        BY <2>6, <3>1 DEF Newlines
      <3>3. E + i \in 1..Len(Ahead) /\ Ahead[E + i] = Newline
        BY <1>0, <2>2, <2>3, <3>2
      <3>4. E + i \in Newlines(Ahead)
        BY <3>3, AheadIs DEF Newlines
      <3> QED BY <1>0, <2>1, <2>2, <2>3, <2>4, <3>2, <3>4
    <2>7. ASSUME NEW m \in sent', m.at > split' PROVE LiesAhead(m)'
      <3>1. m \in sent /\ m.at \in Nat /\ First(m) \in Int /\ Len(m.line) \in Nat /\ m.at > split
        BY <1>0, <2>1, <2>2, <2>3, <2>7, SentTyped
      <3>2. LiesAhead(m) /\ m.at - split \in 1..Len(Ahead)
            /\ m.at - split = First(m) - split + Len(m.line) + 1
        BY <2>1, <2>4, <3>1, LineAhead
      <3>3. First(m) >= split'
        <4>1. CASE E = 0
          BY <1>0, <2>2, <3>2, <4>1 DEF LiesAhead
        <4>2. CASE E > 0
          <5>1. E \in Newlines(Ahead)
            <6>1. E \in 1..Len(Ahead) /\ Ahead[E] = Newline
              BY <1>0, <2>2, <2>3, <4>2
            <6> QED BY <6>1, AheadIs DEF Newlines
          <5>2. PICK o \in sent : o.at = split + E
            BY <2>4, <5>1
          <5> QED BY <2>2, <2>7, <3>1, <5>2 DEF SentInv
        <4> QED BY <2>3, <4>1, <4>2
      <3>4. m.at - split' \in 1..Len(Ahead') /\ E + (m.at - split') = m.at - split
        <4>1. m.at > split + E /\ m.at \in Nat /\ m.at - split \in 1..Len(Ahead)
          BY <2>3, <2>7, <3>1, <3>2
        <4>2. m.at - (split + E) \in 1..(Len(Ahead) - E) /\ E + (m.at - (split + E)) = m.at - split
          BY <1>0, <2>3, <4>1
        <4> QED BY <2>3, <4>2
      <3>5. Ahead'[m.at - split'] = Newline
        BY <2>2, <3>2, <3>4 DEF LiesAhead
      <3>6. ASSUME NEW k \in 1..Len(m.line) PROVE Ahead'[First(m) - split' + k] = m.line[k]
        <4>1. /\ First(m) - split' + k \in 1..Len(Ahead')
              /\ E + (First(m) - split' + k) = First(m) - split + k
          <5>1. /\ First(m) >= split + E /\ First(m) \in Int /\ Len(m.line) \in Nat
                /\ First(m) - split + Len(m.line) + 1 <= Len(Ahead)
            BY <1>0, <2>3, <3>1, <3>2, <3>3
          <5>2. /\ First(m) - (split + E) + k \in 1..(Len(Ahead) - E)
                /\ E + (First(m) - (split + E) + k) = First(m) - split + k
            <6>1. k \in Nat /\ k >= 1 /\ k <= Len(m.line)
              BY <5>1
            <6>2. /\ First(m) - (split + E) + k \in Nat /\ First(m) - (split + E) + k >= 1
                  /\ First(m) - (split + E) + k <= Len(Ahead) - E
              BY <1>0, <2>3, <5>1, <6>1
            <6>3. E + (First(m) - (split + E) + k) = First(m) - split + k
              BY <1>0, <2>3, <5>1, <6>1
            <6> QED BY <1>0, <2>3, <6>2, <6>3
          <5> QED BY <2>3, <5>2
        <4> QED BY <2>2, <3>2, <4>1 DEF LiesAhead
      <3> QED BY <3>3, <3>5, <3>6 DEF LiesAhead, First
    <2> QED BY <2>5, <2>6, <2>7 DEF StreamInv
  <1>3. CASE UNCHANGED vars
    BY <1>3 DEF vars, StreamInv, Ahead, Newlines, LiesAhead, First
  <1> QED BY <1>1, <1>2, <1>3 DEF Next

-----------------------------------------------------------------------------
(* What is emitted *)

LEMMA EmitStep ==
    TypeOK /\ SentInv /\ WireInv /\ StreamInv /\ EmitInv /\ [Next]_vars => EmitInv'
  <1> SUFFICES ASSUME TypeOK, SentInv, WireInv, StreamInv, EmitInv, [Next]_vars, ~cut'
               PROVE  EmitInv'
    BY DEF EmitInv
  <1>0. split \in Nat /\ written \in Nat /\ \A m \in sent : m.at \in Nat
    BY SentTyped DEF TypeOK
  <1>1. ASSUME NEW line \in Lines, WriteNdjson(line) PROVE EmitInv'
    <2> DEFINE new == [at |-> written', line |-> line]
    <2>1. /\ Len(line) \in Nat /\ written' = written + Len(line) + 1
          /\ sent' = sent \cup {new} /\ new.at = written'
          /\ split' = split /\ emitted' = emitted /\ ~cut
      BY <1>1, WriteIs DEF WriteNdjson
    <2> HIDE DEF new
    <2>2. split <= written /\ emitted = {m \in Messages : m.at <= split}
      BY <2>1 DEF EmitInv
    <2>3. ~(new.at <= split) /\ split' <= written'
      BY <1>0, <2>1, <2>2
    <2>4. emitted' = {m \in Messages' : m.at <= split'}
      BY <2>1, <2>2, <2>3 DEF Messages, IsMessage
    <2> QED BY <2>3, <2>4 DEF EmitInv
  <1>2. ASSUME NEW n \in 1..MaxChunk, Feed(n) PROVE EmitInv'
    <2> DEFINE text == buffer \o SubSeq(wire, 1, n)
               E == Ended(text)
    <2>1. /\ ~cut /\ ~destroyed /\ sent' = sent /\ written' = written
          /\ split <= written /\ emitted = {m \in Messages : m.at <= split}
      BY <1>2 DEF Feed, EmitInv
    <2>2. CASE Destroy
      BY <2>1, <2>2 DEF Destroy, EmitInv, Messages, IsMessage
    <2>3. CASE Accept(SubSeq(wire, 1, n))
      <3>1. /\ text \in Seq(Chars) /\ Len(text) <= Len(Ahead)
            /\ \A i \in 1..Len(text) : text[i] = Ahead[i]
            /\ emitted' = emitted \cup {m \in Complete(text) : IsMessage(m)}
            /\ split' = split + E /\ E \in 0..Len(text)
        BY <1>2, <2>3, Accepted
      <3> HIDE DEF text
      <3>2. Complete(text) = {m \in sent : m.at > split /\ m.at <= split + E}
        BY <2>1, <3>1, LinesSplitOff
      <3>3. E \in Nat /\ split' <= written'
        <4>1. Len(text) \in Nat /\ Len(Ahead) \in Nat /\ written = split + Len(Ahead)
          BY <2>1, <3>1, AheadIs DEF StreamInv
        <4> QED BY <1>0, <2>1, <3>1, <4>1
      <3> HIDE DEF E
      <3>4. \A m \in sent : m.at <= split + E <=> m.at <= split \/ (m.at > split /\ m.at <= split + E)
        BY <1>0, <3>3
      <3>5. emitted' = {m \in Messages : m.at <= split + E}
        BY <2>1, <3>1, <3>2, <3>4 DEF Messages
      <3> QED BY <2>1, <3>1, <3>3, <3>5 DEF EmitInv, Messages, IsMessage
    <2> QED BY <1>2, <2>2, <2>3 DEF Feed
  <1>3. CASE UNCHANGED vars
    BY <1>3 DEF vars, EmitInv, Messages, IsMessage
  <1> QED BY <1>1, <1>2, <1>3 DEF Next

FramerInv == TypeOK /\ SentInv /\ WireInv /\ StreamInv /\ EmitInv

LEMMA FramerInvariant == Spec => []FramerInv
  <1>1. Init => FramerInv
    <2> SUFFICES ASSUME Init PROVE SentInv /\ WireInv /\ StreamInv /\ EmitInv
      BY TypeInit DEF FramerInv
    <2>1. sent = {} /\ emitted = {} /\ written = 0 /\ split = 0 /\ wire = <<>> /\ buffer = <<>>
      BY DEF Init
    <2>2. Len(wire) = 0 /\ Len(Ahead) = 0 /\ Newlines(Ahead) = {}
      BY <2>1, TypeInit, AheadIs DEF Newlines
    <2> QED BY <2>1, <2>2 DEF SentInv, WireInv, StreamInv, EmitInv, Messages
  <1> QED BY <1>1, TypeStep, SentStep, WireStep, StreamStep, EmitStep, PTL DEF Spec, FramerInv

\* However the network cuts the bytes between characters, onMessage gets the messages of
\* writeNdjson(), in their order and without a gap, and all of them once the bytes are there,
\* for any lines, chunks and size of the buffer.
THEOREM ChunksMakeNoDifference == Spec => []ChunksDoNotMatter
  <1>1. FramerInv => ChunksDoNotMatter
    <2> SUFFICES ASSUME FramerInv, ~cut
                 PROVE  /\ emitted \subseteq Messages
                        /\ \A e \in emitted, m \in Messages : m.at < e.at => m \in emitted
                        /\ wire = <<>> /\ ~destroyed => emitted = Messages
      BY DEF ChunksDoNotMatter
    <2>1. /\ emitted = {m \in Messages : m.at <= split} /\ split \in Nat
          /\ \A m \in Messages : m \in sent /\ m.at \in Nat
      BY SentTyped DEF FramerInv, EmitInv, Messages, TypeOK
    <2>2. \A e \in emitted, m \in Messages : m.at < e.at => m \in emitted
      BY <2>1
    <2>3. ASSUME wire = <<>>, ~destroyed, NEW m \in Messages PROVE m.at <= split
      <3> SUFFICES ASSUME m.at > split PROVE FALSE
        BY <2>1
      <3>1. m.at - split \in 1..Len(Ahead) /\ Ahead[m.at - split] = Newline
        BY <2>1, <2>3, LineAhead DEF FramerInv
      <3>2. /\ Len(Ahead) = Len(buffer) + Len(wire) /\ Len(buffer) \in Nat
            /\ \A i \in 1..Len(buffer) : Ahead[i] # Newline
        BY AheadIs DEF FramerInv
      <3>3. Len(Ahead) = Len(buffer)
        BY <2>3, <3>2
      <3> QED BY <3>1, <3>2, <3>3
    <2> QED BY <2>1, <2>2, <2>3
  <1> QED BY <1>1, FramerInvariant, PTL

-----------------------------------------------------------------------------
(* The limit of the buffer *)

\* What the buffer holds is the beginning of a line that was sent.
LEMMA BufferInLine ==
    ASSUME FramerInv, ~cut, ~destroyed, wire # <<>>
    PROVE  \E m \in sent : Len(buffer) <= Len(m.line)
  <1>1. /\ Len(Ahead) = Len(buffer) + Len(wire) /\ Len(buffer) \in Nat /\ Len(wire) \in Nat \ {0}
        /\ \A i \in 1..Len(buffer) : Ahead[i] # Newline
        /\ \A i \in 1..Len(wire) : Ahead[Len(buffer) + i] = wire[i]
        /\ Ahead \in Seq(Chars) /\ DOMAIN Ahead = 1..Len(Ahead)
    <2>1. TypeOK /\ wire \in Seq(Bytes \cup {Newline})
      BY DEF FramerInv, TypeOK
    <2>2. Len(wire) \in Nat \ {0}
      BY <2>1, EmptySeq
    <2> QED BY <2>1, <2>2, AheadIs
  <1>2. Len(Ahead) \in Newlines(Ahead) /\ Newlines(Ahead) \subseteq Nat
    <2>1. Ahead[Len(Ahead)] = Newline
      BY <1>1 DEF FramerInv, WireInv
    <2> QED BY <1>1, <2>1 DEF Newlines
  <1>3. PICK i \in Newlines(Ahead) : \A k \in Newlines(Ahead) : i <= k
    BY <1>2, Minimum
  <1>4. i \in 1..Len(Ahead) /\ Ahead[i] = Newline /\ i > Len(buffer)
    BY <1>1 DEF Newlines
  <1>5. PICK m \in sent : m.at = split + i
    BY DEF FramerInv, StreamInv
  <1>6. split \in Nat /\ m.at > split /\ First(m) \in Int /\ Len(m.line) \in Nat
    <2>1. split \in Nat /\ TypeOK /\ First(m) \in Int /\ Len(m.line) \in Nat
      BY SentTyped DEF FramerInv, TypeOK
    <2>2. i \in Nat /\ i > 0
      BY <1>1, <1>4
    <2> QED BY <1>5, <2>1, <2>2
  <1>7. /\ First(m) - split \in Nat /\ i = First(m) - split + Len(m.line) + 1
        /\ First(m) > split => First(m) - split \in Newlines(Ahead)
    <2>1. /\ First(m) - split \in Nat /\ m.at - split = First(m) - split + Len(m.line) + 1
          /\ First(m) > split => /\ First(m) - split \in 1..Len(Ahead)
                                 /\ Ahead[First(m) - split] = Newline
      BY <1>6, LineAhead DEF FramerInv
    <2>2. m.at - split = i
      BY <1>1, <1>4, <1>5, <1>6
    <2>3. First(m) > split => First(m) - split \in Newlines(Ahead)
      BY <1>1, <2>1 DEF Newlines
    <2> QED BY <2>1, <2>2, <2>3
  <1>8. ~(First(m) > split)
    BY <1>3, <1>6, <1>7
  <1> QED BY <1>1, <1>4, <1>6, <1>7, <1>8

\* feed() closes the socket of no peer whose lines fit into the buffer beside a chunk, however
\* many of them arrive at once.
THEOREM ShortLinesAreSafe == Spec => []OnlyLongLinesDestroy
  <1>1. Init => OnlyLongLinesDestroy
    BY DEF Init, OnlyLongLinesDestroy
  <1>2. FramerInv /\ OnlyLongLinesDestroy /\ [Next]_vars => OnlyLongLinesDestroy'
    <2> SUFFICES ASSUME FramerInv, OnlyLongLinesDestroy, [Next]_vars, ~cut', destroyed'
                 PROVE  \E m \in sent' : Len(m.line) + MaxChunk > MaxBuffer
      BY DEF OnlyLongLinesDestroy
    <2>1. CASE UNCHANGED <<sent, destroyed, cut>>
      BY <2>1 DEF OnlyLongLinesDestroy
    <2>2. ASSUME NEW n \in 1..MaxChunk, Feed(n), Destroy
          PROVE  \E m \in sent' : Len(m.line) + MaxChunk > MaxBuffer
      <3>1. ~cut /\ ~destroyed /\ sent' = sent /\ n <= Len(wire) /\ wire \in Seq(Bytes \cup {Newline})
        BY <2>2 DEF Feed, FramerInv, TypeOK
      <3>2. n \in 1..Len(wire) /\ wire # <<>> /\ n \in Nat /\ n <= MaxChunk
        BY <3>1, NdjsonAssumption
      <3>3. Len(SubSeq(wire, 1, n)) = n
        BY <3>1, <3>2, ChunkIs
      <3>4. ~destroyed' \/ Len(buffer) + n > MaxBuffer
        BY <2>2, <3>3 DEF Feed, Exceeds, Accept
      <3>5. PICK m \in sent : Len(buffer) <= Len(m.line)
        BY <3>1, <3>2, BufferInLine
      <3>6. Len(buffer) \in Nat /\ Len(m.line) \in Nat
        BY SentTyped, AheadIs DEF FramerInv
      <3>7. Len(m.line) + MaxChunk > MaxBuffer
        BY <3>2, <3>4, <3>5, <3>6, NdjsonAssumption
      <3> QED BY <3>1, <3>7
    <2>3. ASSUME NEW line \in Lines, WriteNdjson(line) PROVE FALSE
      BY <2>3 DEF WriteNdjson
    <2>4. ASSUME NEW n \in 1..MaxChunk, Feed(n), ~Destroy PROVE FALSE
      BY <2>4 DEF Feed, Accept
    <2> QED BY <2>1, <2>2, <2>3, <2>4 DEF Next, vars
  <1> QED BY <1>1, <1>2, FramerInvariant, PTL DEF Spec
=============================================================================
