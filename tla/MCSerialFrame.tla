---------------------------- MODULE MCSerialFrame ----------------------------
(* SerialFrame for TLC, with a buffer that the longest frame fills exactly:  *)
(* the sensor sends up to three pieces, each an intact frame, a damaged one, *)
(* a frame with a forbidden length, or noise, some of it the beginning of a  *)
(* header.                                                                   *)
EXTENDS SerialFrame, SequencesExt

Sealed(type, data) ==
    LET body == Header \o <<type, Len(data)>> \o data IN Append(body, Checksum(body))

Data(n) == [i \in 1..n |-> 3 * i]

Pieces == {
    Sealed(9, Data(FieldBytes)),
    Sealed(Orientation, Data(FieldBytes - 1)),
    Sealed(7, <<>>),
    Sealed(7, <<13, 10, 126, 7, 0>>),
    Append(Header \o <<7, 1, 5>>, 0),
    Header \o <<7, MAX_DATA + 1>>,
    Header \o <<7, 200>>,
    <<13>>,
    <<13, 10>>,
    <<0, 126>>}

Sent == {FlattenSeq(s) : s \in UNION {[1..n -> Pieces] : n \in 0..3}}
==============================================================================
