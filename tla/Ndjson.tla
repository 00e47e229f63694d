-------------------------------- MODULE Ndjson --------------------------------
(***************************************************************************)
(* packages/host-agent-transport/src/ndjson-framer.ts: newline-delimited   *)
(* JSON over one socket of the local transports.  The network cuts the     *)
(* bytes into chunks as it likes; feed() decodes each chunk by itself.     *)
(*                                                                         *)
(* A text is written in its UTF-8 bytes: "a" is a character of one byte,   *)
(* "e1" and "e2" are the two bytes of another; "x" makes a line malformed  *)
(* JSON.  A line is known by the place where it ends, so that lines that   *)
(* look alike differ, and their places give their order.                   *)
(***************************************************************************)
EXTENDS Naturals, Sequences, FiniteSets

CONSTANTS
    Lines,       \* what a peer writes between newlines
    MaxLines,    \* bound: lines written
    MaxChunk,    \* the most bytes that one 'data' event carries
    MaxBuffer    \* MAX_BUFFER_BYTES

\* The characters of a line are complete.
IsUtf8(line) ==
    \A i \in DOMAIN line :
        /\ line[i] = "e1" => i < Len(line) /\ line[i + 1] = "e2"
        /\ line[i] = "e2" => i > 1 /\ line[i - 1] = "e1"

ASSUME NdjsonAssumption ==
    /\ Lines \subseteq Seq({"a", "e1", "e2", "x"}) /\ \A line \in Lines : IsUtf8(line)
    /\ MaxLines \in Nat /\ MaxBuffer \in Nat /\ MaxChunk \in Nat \ {0}

VARIABLES
    sent,      \* the lines written so far, each with the place where it ends
    written,   \* the bytes of them
    wire,      \* bytes on their way
    buffer,    \* this.buffer
    emitted,   \* the messages passed to onMessage, each with the place where it ends
    split,     \* history: the bytes of text that are split into lines
    destroyed, \* socket.destroy() was called
    cut        \* history: a character was split over two chunks

vars == <<sent, written, wire, buffer, emitted, split, destroyed, cut>>

Newline == "n"
Replacement == <<"r1", "r2", "r3">>     \* U+FFFD takes three bytes

-----------------------------------------------------------------------------
(* Characters and lines *)

\* Buffer.toString(): half a character becomes a replacement character.  A stream of
\* whole characters has halves only at the ends of a chunk.
Decode(bytes) ==
    LET text == IF Head(bytes) = "e2" THEN Replacement \o Tail(bytes) ELSE bytes
    IN  IF text[Len(text)] = "e1" THEN SubSeq(text, 1, Len(text) - 1) \o Replacement ELSE text

Newlines(text) == {i \in DOMAIN text : text[i] = Newline}

\* The last newline before place i of the text, 0 if there is none.
Before(text, i) ==
    CHOOSE j \in 0..(i - 1) :
        /\ j > 0 => text[j] = Newline
        /\ \A k \in (j + 1)..(i - 1) : text[k] # Newline

\* split('\n'): the lines of the text, each with the place of its newline, ...
Complete(text) ==
    {[at |-> split + i, line |-> SubSeq(text, Before(text, i) + 1, i - 1)] : i \in Newlines(text)}

\* ... and lines.pop(), what follows the last newline.
Ended(text) == Before(text, Len(text) + 1)
Remainder(text) == SubSeq(text, Ended(text) + 1, Len(text))

\* A blank line and one that does not parse are passed over.
IsMessage(m) == m.line # <<>> /\ \A i \in DOMAIN m.line : m.line[i] # "x"

-----------------------------------------------------------------------------

Init ==
    /\ sent = {} /\ written = 0 /\ wire = <<>> /\ buffer = <<>> /\ emitted = {} /\ split = 0
    /\ destroyed = FALSE /\ cut = FALSE

\* writeNdjson(): nothing is written to a destroyed socket.
WriteNdjson(line) ==
    /\ ~destroyed /\ Cardinality(sent) < MaxLines
    /\ written' = written + Len(line) + 1
    /\ sent' = sent \cup {[at |-> written', line |-> line]}
    /\ wire' = wire \o line \o <<Newline>>
    /\ UNCHANGED <<buffer, emitted, split, destroyed, cut>>

Exceeds_TooEarly(chunk) == Len(buffer) + Len(chunk) >= MaxBuffer

\* The guard of feed() against a buffer that grows without end.
Exceeds(chunk) == Len(buffer) + Len(chunk) > MaxBuffer

Reset == buffer' = <<>>

\* The 'close' event that follows socket.destroy() resets the framer.
Destroy ==
    /\ destroyed' = TRUE
    /\ Reset
    /\ UNCHANGED <<emitted, split>>

Emit(text) ==
    /\ emitted' = emitted \cup {m \in Complete(text) : IsMessage(m)}
    /\ split' = split + Ended(text)

Accept_KeepsNothing(chunk) ==
    LET text == buffer \o Decode(chunk)
    IN  /\ buffer' = IF Newlines(text) = {} THEN text ELSE <<>>
        /\ Emit(text)
        /\ UNCHANGED destroyed

Accept_KeepsAll(chunk) ==
    LET text == buffer \o Decode(chunk)
    IN  /\ buffer' = text
        /\ Emit(text)
        /\ UNCHANGED destroyed

\* The rest of feed(): what the chunk completes is emitted, the last line is kept.
Accept(chunk) ==
    LET text == buffer \o Decode(chunk)
    IN  /\ buffer' = Remainder(text)
        /\ Emit(text)
        /\ UNCHANGED destroyed

\* A 'data' event with the next n bytes.
Feed(n) ==
    LET chunk == SubSeq(wire, 1, n)
    IN  /\ ~destroyed /\ n <= Len(wire)
        /\ \/ Exceeds(chunk) /\ Destroy
           \/ ~Exceeds(chunk) /\ Accept(chunk)
        /\ wire' = SubSeq(wire, n + 1, Len(wire))
        /\ cut' = (cut \/ chunk[n] = "e1")
        /\ UNCHANGED <<sent, written>>

Next == (\E line \in Lines : WriteNdjson(line)) \/ (\E n \in 1..MaxChunk : Feed(n))

Spec == Init /\ [][Next]_vars

-----------------------------------------------------------------------------
(* Properties *)

Messages == {m \in sent : IsMessage(m)}

Bytes == {"a", "e1", "e2", "x"}
Located(lines) == [at : Nat \ {0}, line : lines]

\* Every variable keeps its type: the buffer never holds a newline, nor does a message.
TypeOK ==
    /\ sent \subseteq Located(Lines) /\ written \in Nat
    /\ wire \in Seq(Bytes \cup {Newline})
    /\ buffer \in Seq(Bytes \cup {"r1", "r2", "r3"})
    /\ emitted \subseteq Located(Seq(Bytes \cup {"r1", "r2", "r3"}))
    /\ split \in Nat /\ destroyed \in BOOLEAN /\ cut \in BOOLEAN

\* However the bytes are cut into chunks, between characters, the messages that
\* feed() emits are those that were sent, none is passed over for a later one, and none
\* is missing once the bytes have arrived.
ChunksDoNotMatter ==
    ~cut => /\ emitted \subseteq Messages
            /\ \A e \in emitted, m \in Messages : m.at < e.at => m \in emitted
            /\ wire = <<>> /\ ~destroyed => emitted = Messages

\* Only a peer with a long line is cut off: one that does not fit into the buffer
\* beside a chunk.
OnlyLongLinesDestroy ==
    ~cut /\ destroyed => \E m \in sent : Len(m.line) + MaxChunk > MaxBuffer

\* "emits complete JSON messages": nothing is emitted that was not sent.
EmitsWhatWasSent == {m.line : m \in emitted} \subseteq {m.line : m \in sent}
=============================================================================
