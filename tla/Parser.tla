------------------------------- MODULE Parser -------------------------------
(***************************************************************************)
(* GuacamoleParser (src/src/protocols/parser.ts) at the end of a TCP       *)
(* stream: GuacdClient.handleData turns each chunk of bytes into text and  *)
(* gives it to receive, which hands out the instructions it completes.     *)
(*                                                                         *)
(* Text is a sequence of characters, and a character is a number: n >= 0  *)
(* stands for the digits of n and the dot after them, the named ones below *)
(* for themselves, every other for a character of one byte.                *)
(***************************************************************************)
EXTENDS Integers, Sequences, SequencesExt

Comma == -1
Semicolon == -2
Wide == -3        \* a character of two bytes
Bad == -4         \* U+FFFD, of three

CONSTANTS
    Values,       \* the texts an element of an instruction can have
    MaxSent,      \* bound: instructions guacd sends
    MaxBuffer,    \* MAX_BUFFER_BYTES
    CutAnywhere   \* TCP may cut the stream inside a character

ASSUME ParserAssumption ==
    /\ Values \subseteq Seq(Int \ {Semicolon})
    /\ MaxSent \in Nat /\ MaxBuffer \in Nat /\ CutAnywhere \in BOOLEAN

VARIABLES
    sent,     \* the instructions guacd has sent
    wire,     \* bytes on their way
    buffer,   \* GuacamoleParser.buffer
    handed,   \* the instructions handed to oninstruction
    failed    \* onerror has been called: the client is closed

vars == <<sent, wire, buffer, handed, failed>>

----------------------------------------------------------------------------
(* UTF-8: a byte is a character and its place among the bytes of it.       *)

Width(c) == IF c = Wide THEN 2 ELSE IF c = Bad THEN 3 ELSE 1

Bytes(c) == [j \in 1..Width(c) |-> <<c, j>>]

\* Buffer.from(text, 'utf8')
Encoded(text) == FlattenSeq([k \in DOMAIN text |-> Bytes(text[k])])

ByteLength(text) == Len(Encoded(text))

\* The first m bytes of c stand at k.
Stand(bytes, k, c, m) ==
    k >= 1 /\ k + m - 1 <= Len(bytes) /\ \A j \in 1..m : bytes[k + j - 1] = <<c, j>>

\* buffer.toString('utf8'), byte by byte: the first byte of a character gives
\* the character, the start of a torn one U+FFFD, as does each byte that
\* follows no first one.
DecodedAt(bytes, k) ==
    LET c == bytes[k][1]
        j == bytes[k][2]
    IN  IF j = 1 THEN <<IF Stand(bytes, k, c, Width(c)) THEN c ELSE Bad>>
        ELSE IF Stand(bytes, k - j + 1, c, j) THEN <<>> ELSE <<Bad>>

Decoded(bytes) == FlattenSeq([k \in DOMAIN bytes |-> DecodedAt(bytes, k)])

----------------------------------------------------------------------------
(* toInstruction and parseInstruction.                                     *)

Element(value) == <<ByteLength(value)>> \o value

\* GuacamoleParser.toInstruction
ToInstruction(parts) ==
    FlattenSeq([k \in DOMAIN parts |->
        Element(parts[k]) \o <<IF k < Len(parts) THEN Comma ELSE Semicolon>>])

\* One round of the loop of parseInstruction: the elements from byte k on, or
\* <<>> for null; `from` says what the rounds after this one return.
ElementsFrom(buf, from, k) ==
    LET length == buf[k][1]
        end == k + 1 + length
        value == Decoded(SubSeq(buf, k + 1, end - 1))
    IN  IF k > Len(buf) \/ length < 0 \/ end > Len(buf) THEN <<>>
        ELSE IF buf[end][1] = Semicolon THEN <<value>>
        ELSE IF buf[end][1] = Comma /\ from[end + 1] # <<>> THEN <<value>> \o from[end + 1]
        ELSE <<>>

ParseInstruction(text) ==
    LET buf == Encoded(text)
        from[k \in 1..Len(buf) + 1] == ElementsFrom(buf, from, k)
    IN  from[1]

\* Mutant: what follows the last complete instruction is dropped.
RestDropped(text) == <<>>

\* `indexOf(';')` of receive: where the complete part of the buffer ends.
Ends(text) == {k \in DOMAIN text : text[k] = Semicolon}
LastEnd(text) == IF Ends(text) = {} THEN 0 ELSE CHOOSE k \in Ends(text) : \A j \in Ends(text) : j <= k
Rest(text) == SubSeq(text, LastEnd(text) + 1, Len(text))

\* One round of the loop of receive: the instructions from character k on, up
\* to the last `;`, but for the null ones.
InstructionsFrom(text, from, k) ==
    LET ends == {e \in Ends(text) : e >= k}
        end == CHOOSE e \in ends : \A j \in ends : e <= j
        parts == ParseInstruction(SubSeq(text, k, end))
    IN  IF ends = {} THEN <<>>
        ELSE (IF parts = <<>> THEN <<>> ELSE <<parts>>) \o from[end + 1]

Instructions(text) ==
    LET from[k \in 1..Len(text) + 1] == InstructionsFrom(text, from, k)
    IN  from[1]

----------------------------------------------------------------------------
Init == sent = <<>> /\ wire = <<>> /\ buffer = <<>> /\ handed = <<>> /\ failed = FALSE

\* guacd sends an instruction of one or two elements (external).
GuacdSends(parts) ==
    /\ Len(sent) < MaxSent
    /\ sent' = Append(sent, parts)
    /\ wire' = wire \o Encoded(ToInstruction(parts))
    /\ UNCHANGED <<buffer, handed, failed>>

\* Where TCP may cut the stream.
Cuts == {n \in 1..Len(wire) : CutAnywhere \/ n = Len(wire) \/ wire[n + 1][2] = 1}

\* Mutant: the test for an overflow looks at the chunk alone.
OverflowsByChunk(text, chunk) == ByteLength(chunk) > MaxBuffer

Overflows(text, chunk) == ByteLength(text \o chunk) > MaxBuffer

\* handleData and receive, for a chunk of n bytes.
Receive(n) ==
    LET chunk == Decoded(SubSeq(wire, 1, n))
        text == buffer \o chunk
    IN  /\ ~failed
        /\ wire' = SubSeq(wire, n + 1, Len(wire))
        /\ IF Overflows(buffer, chunk)
           THEN buffer' = <<>> /\ failed' = TRUE /\ UNCHANGED handed
           ELSE /\ handed' = handed \o Instructions(text)
                /\ buffer' = Rest(text)
                /\ UNCHANGED failed
        /\ UNCHANGED sent

Messages == {<<v>> : v \in Values} \cup {<<v, w>> : v, w \in Values}

Next == (\E parts \in Messages : GuacdSends(parts)) \/ (\E n \in Cuts : Receive(n))

Spec == Init /\ [][Next]_vars

----------------------------------------------------------------------------
(* Properties.                                                             *)

\* However TCP cuts the stream into chunks, the instructions handed out are
\* those guacd sent, in order; none is lost, torn, joined to another or made up.
FaithfulStream ==
    /\ IsPrefix(handed, sent)
    /\ wire = <<>> /\ ~failed => handed = sent

\* What waits in the buffer is the start of one instruction and within the
\* limit, so a peer that never ends its instruction is cut off.
BufferBounded == ByteLength(buffer) <= MaxBuffer /\ Ends(buffer) = {}
=============================================================================
