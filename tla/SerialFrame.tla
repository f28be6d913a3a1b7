---------------------------- MODULE SerialFrame ----------------------------
(* The serial port of the orientation sensor (SerialPortSession): reads of   *)
(* any size, chained by their completion handler, put together the frames    *)
(*                                                                           *)
(*     0D 0A 7E | type | length | data, length bytes of it | checksum        *)
(*                                                                           *)
(* in a fixed buffer.  state names the byte or bytes the outstanding read is *)
(* for, needRead says how many of them are still missing and offset where in *)
(* the buffer they go.  A frame whose checksum is right goes to DataProcess, *)
(* which prints the nine values of an orientation report.  The wire is a     *)
(* sequence of bytes, chosen when the port is opened; got counts the bytes   *)
(* the port has handed out.                                                  *)
EXTENDS Integers, Sequences, FiniteSets

CONSTANTS
    Streams,      \* the byte sequences the sensor may send
    BUFFER_LEN,   \* bytes of the buffer
    MAX_DATA,     \* the longest data part that is accepted
    Orientation,  \* the value of buffer[4] that DataProcess prints a report for
    FieldBytes    \* bytes it reads then, as the nine values of the report

Byte == 0..255
Header == <<13, 10, 126>>

ASSUME SerialAssumption ==
    /\ Streams \subseteq Seq(Byte)
    /\ MAX_DATA \in Nat /\ BUFFER_LEN \in Nat /\ FieldBytes \in Nat
    /\ MAX_DATA <= 255
    /\ MAX_DATA + 6 <= BUFFER_LEN
    /\ Orientation \in Byte
    /\ FieldBytes <= Orientation

VARIABLES
    input,      \* what the sensor sends, from the opening of the port on
    isOpen,     \* the port could be opened
    reading,    \* RunService has started the chain of reads
    got,        \* bytes of the input handed out by completed reads
    buffer,
    state,
    needRead,
    offset,
    reports     \* the frames taken so far, as DataProcess found them

vars == <<input, isOpen, reading, got, buffer, state, needRead, offset, reports>>

READ_STATE == {"READY", "HEAD_0", "HEAD_1", "HEAD_2", "TYPE", "LENGTH", "DATA", "CHECKSUM"}

\* The buffer is not initialised; what its bytes are before they are written.
Undefined == -1

Init ==
    /\ input \in Streams
    /\ isOpen \in BOOLEAN
    /\ reading = FALSE
    /\ got = 0
    /\ buffer = [i \in 0..(BUFFER_LEN - 1) |-> Undefined]
    /\ state = "READY"
    /\ needRead = 0
    /\ offset = 0
    /\ reports = <<>>

\* The sum of a finite sequence of bytes, kept in an unsigned char.
Checksum(s) ==
    LET sum[i \in 0..Len(s)] == IF i = 0 THEN 0 ELSE (sum[i - 1] + s[i]) % 256
    IN  sum[Len(s)]

\* The first n bytes of a buffer.
FirstBytes(b, n) == [i \in 1..n |-> b[i - 1]]

\* A likely slip: DataProcess looks at the type instead.
ByType(b, n) ==
    [frame  |-> FirstBytes(b, n),
     fields |-> IF b[3] = Orientation THEN [i \in 1..FieldBytes |-> b[4 + i]] ELSE <<>>]

\* A taken frame, and the bytes DataProcess prints as its nine values: it looks
\* at the byte behind the type, which the port has read as the length.
DataProcess(b, n) ==
    [frame  |-> FirstBytes(b, n),
     fields |-> IF b[4] = Orientation THEN [i \in 1..FieldBytes |-> b[4 + i]] ELSE <<>>]
----------------------------------------------------------------------------
(* StartAsyncRead on a buffer b filled up to o, of which n bytes are still   *)
(* missing: which read comes next.                                           *)

Hunt == state' = "HEAD_0" /\ needRead' = 1 /\ offset' = 0

Expect(next, n, o) == state' = next /\ needRead' = n /\ offset' = o

\* The byte a header state has read, and the state that follows if it fits.
HeadByte == [HEAD_0 |-> Header[1], HEAD_1 |-> Header[2], HEAD_2 |-> Header[3]]
AfterHead == [HEAD_0 |-> "HEAD_1", HEAD_1 |-> "HEAD_2", HEAD_2 |-> "TYPE"]

CheckHead(b, o) ==
    /\ state \in {"HEAD_0", "HEAD_1", "HEAD_2"}
    /\ IF b[o - 1] = HeadByte[state] THEN Expect(AfterHead[state], 1, o) ELSE Hunt
    /\ UNCHANGED reports

\* Three likely slips in the check of the length: no limit, a frame without
\* data refused, and a byte of 128 or more taken for a negative number.
AnyLength(b, o) ==
    state = "LENGTH" /\ Expect("DATA", b[o - 1], o) /\ UNCHANGED reports

DataRequired(b, o) ==
    /\ state = "LENGTH"
    /\ IF b[o - 1] \notin 1..MAX_DATA THEN Hunt ELSE Expect("DATA", b[o - 1], o)
    /\ UNCHANGED reports

SignedLength(b, o) ==
    LET length == IF b[o - 1] > 127 THEN b[o - 1] - 256 ELSE b[o - 1] IN
    /\ state = "LENGTH"
    /\ IF length > MAX_DATA THEN Hunt ELSE Expect("DATA", length, o)
    /\ UNCHANGED reports

CheckLength(b, o) ==
    /\ state = "LENGTH"
    /\ IF b[o - 1] > MAX_DATA THEN Hunt ELSE Expect("DATA", b[o - 1], o)
    /\ UNCHANGED reports

\* A likely slip: the checksum is computed and not compared.
AnySum(b, o) ==
    /\ state = "CHECKSUM"
    /\ reports' = Append(reports, DataProcess(b, o))
    /\ Expect("READY", 0, o - 1)

\* The number of bytes to come is left at zero: the read that is started next
\* is empty, and its completion finds READY.
CheckSum(b, o) ==
    /\ state = "CHECKSUM"
    /\ reports' = IF Checksum(FirstBytes(b, o - 1)) = b[o - 1]
                  THEN Append(reports, DataProcess(b, o)) ELSE reports
    /\ Expect("READY", 0, o - 1)

StartAsyncRead(b, n, o) ==
    \/ n > 0 /\ Expect(state, n, o) /\ UNCHANGED reports
    \/ /\ n = 0
       /\ \/ state = "READY" /\ Hunt /\ UNCHANGED reports
          \/ CheckHead(b, o)
          \/ state = "TYPE" /\ Expect("LENGTH", 1, o) /\ UNCHANGED reports
          \/ CheckLength(b, o)
          \/ state = "DATA" /\ Expect("CHECKSUM", 1, o) /\ UNCHANGED reports
          \/ CheckSum(b, o)

\* To be called by whoever uses the port; TinyInstance, which makes it, does not.
RunService ==
    /\ isOpen /\ ~reading
    /\ reading' = TRUE
    /\ StartAsyncRead(buffer, needRead, offset)
    /\ UNCHANGED <<input, isOpen, got, buffer>>

\* The buffer with the next k bytes of the input put in at offset.
ByteAfter(k, i) ==
    IF i \in offset..(offset + k - 1) THEN input[got + (i - offset) + 1] ELSE buffer[i]

Filled(k) == [i \in 0..(BUFFER_LEN - 1) |-> ByteAfter(k, i)]

\* The handler of a read that brought k bytes; an empty read brings none.
Complete(k) ==
    /\ reading
    /\ k \in 1..needRead \/ (k = 0 /\ needRead = 0)
    /\ got + k <= Len(input)
    /\ got' = got + k
    /\ buffer' = Filled(k)
    /\ StartAsyncRead(Filled(k), needRead - k, offset + k)
    /\ UNCHANGED <<input, isOpen, reading>>

\* The handler of a read that failed and brought nothing: the error is
\* reported and the same read is started again.
CompleteWithError ==
    /\ reading
    /\ StartAsyncRead(buffer, needRead, offset)
    /\ UNCHANGED <<input, isOpen, reading, got, buffer>>

Next == RunService \/ (\E k \in 0..BUFFER_LEN : Complete(k)) \/ CompleteWithError

\* Once RunService runs the I/O service, the reads it chains complete as bytes
\* arrive.  Nothing says that it is called: TinyInstance only makes the port.
Fairness == WF_vars(\E k \in 0..BUFFER_LEN : Complete(k))

Spec == Init /\ [][Next]_vars /\ Fairness
----------------------------------------------------------------------------
(* What the frames of a stream are, without any reads or states.            *)

\* An intact frame begins behind the first p bytes of s.
IntactAt(s, p, n) ==
    /\ n >= 6 /\ p + n <= Len(s)
    /\ SubSeq(s, p + 1, p + 3) = Header
    /\ s[p + 5] = n - 6 /\ s[p + 5] <= MAX_DATA
    /\ s[p + n] = Checksum(SubSeq(s, p + 1, p + n - 1))

\* The number of bytes a reader that hunts for a header takes from position
\* p + 1 on before it hunts again: up to the first byte that does not fit.
Taken(s, p) ==
    LET Fits(i) == p + i > Len(s) \/ s[p + i] = Header[i] IN
    CASE ~Fits(1) -> 1
      [] Fits(1) /\ ~Fits(2) -> 2
      [] Fits(1) /\ Fits(2) /\ ~Fits(3) -> 3
      [] OTHER -> IF p + 5 > Len(s) \/ s[p + 5] > MAX_DATA THEN 5 ELSE 6 + s[p + 5]

\* The frames such a reader finds from the start of the stream to its end.
FramesOf(s) ==
    LET from[p \in 0..Len(s)] ==
            IF p + Taken(s, p) > Len(s) THEN <<>>
            ELSE (IF IntactAt(s, p, Taken(s, p)) THEN <<SubSeq(s, p + 1, p + Taken(s, p))>>
                  ELSE <<>>) \o from[p + Taken(s, p)]
    IN  IF s = <<>> THEN <<>> ELSE from[0]

\* Types: no number of missing bytes, which is signed, is ever negative, and no
\* byte that was not read gets into a report.
TypeOK ==
    /\ input \in Streams /\ isOpen \in BOOLEAN /\ reading \in BOOLEAN
    /\ got \in 0..Len(input)
    /\ buffer \in [0..(BUFFER_LEN - 1) -> Byte \cup {Undefined}]
    /\ state \in READ_STATE
    /\ needRead \in Nat /\ offset \in Nat
    /\ reports \in Seq([frame : Seq(Byte), fields : Seq(Byte)])

\* No read is ever started that could run past the end of the buffer,
\* whatever bytes the sensor sends and however the reads split them; and the
\* byte that is examined when a part is complete has been read.
ReadsStayInBuffer ==
    /\ offset + needRead <= BUFFER_LEN
    /\ state \notin {"READY", "DATA"} => offset + needRead >= 1
    /\ state = "CHECKSUM" => offset + needRead >= 6

\* What is taken for a frame was sent as one, byte for byte and without a
\* gap: header, a length that fits, the data and their checksum.
FramesWereSent ==
    \A r \in 1..Len(reports) :
        \E p \in 0..Len(input) :
            /\ IntactAt(input, p, Len(reports[r].frame))
            /\ reports[r].frame = SubSeq(input, p + 1, p + Len(reports[r].frame))

\* The nine values that are printed are data bytes of the frame just taken,
\* never its checksum or what an earlier, longer frame left in the buffer.
FieldsAreOwn ==
    \A r \in 1..Len(reports) :
        LET f == reports[r].frame IN
        reports[r].fields # <<>> =>
            f[5] >= FieldBytes /\ reports[r].fields = SubSeq(f, 6, 5 + FieldBytes)

\* Once RunService has been called, and however the reads split the stream,
\* the frames taken in the end are those a reader of the whole stream finds:
\* none lost, none twice, none invented, and the port never stops with bytes
\* left on the wire.
EveryFrameTaken ==
    reading ~> (got = Len(input) /\ Len(reports) = Len(FramesOf(input))
                /\ \A r \in 1..Len(reports) : reports[r].frame = FramesOf(input)[r])
=============================================================================
