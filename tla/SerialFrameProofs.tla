-------------------------- MODULE SerialFrameProofs --------------------------
(* Proofs about SerialFrame.  Where the port stands in a frame (Parts) and    *)
(* that the buffer holds the bytes just read (OnWire) are stated of any       *)
(* buffer b, filled up to o with n bytes missing, because StartAsyncRead is   *)
(* called between the completion of a read and the start of the next.        *)
EXTENDS SerialFrame, TLAPS, SequenceTheorems

Buffers == [0..(BUFFER_LEN - 1) -> Byte \cup {Undefined}]

Heads(b, h) == \A i \in 1..h : b[i - 1] = Header[i]

Parts(st, b, n, o) ==
    /\ st = "READY" => n = 0
    /\ st = "HEAD_0" => o + n = 1
    /\ st = "HEAD_1" => o + n = 2 /\ Heads(b, 1) /\ o >= 1
    /\ st = "HEAD_2" => o + n = 3 /\ Heads(b, 2) /\ o >= 2
    /\ st = "TYPE" => o + n = 4 /\ Heads(b, 3) /\ o >= 3
    /\ st = "LENGTH" => o + n = 5 /\ Heads(b, 3) /\ o >= 4
    /\ st = "DATA" => /\ Heads(b, 3) /\ o >= 5 /\ b[4] \in 0..MAX_DATA
                      /\ o + n = 5 + b[4]
    /\ st = "CHECKSUM" => /\ Heads(b, 3) /\ b[4] \in 0..MAX_DATA
                          /\ o + n = 6 + b[4] /\ o >= 5 + b[4]

OnWire(st, b, o, g) ==
    st # "READY" => /\ o <= g
                    /\ \A i \in 0..(o - 1) : b[i] = input[g - o + i + 1]

Sound(r) ==
    /\ r \in [frame : Seq(Byte), fields : Seq(Byte)]
    /\ \E p \in 0..Len(input) :
           /\ IntactAt(input, p, Len(r.frame))
           /\ r.frame = SubSeq(input, p + 1, p + Len(r.frame))
    /\ r.fields # <<>> => /\ r.frame[5] >= FieldBytes
                          /\ r.fields = SubSeq(r.frame, 6, 5 + FieldBytes)

ReportsSound == reports \in Seq([frame : Seq(Byte), fields : Seq(Byte)])
                /\ \A r \in 1..Len(reports) : Sound(reports[r])

PlainTypes ==
    /\ input \in Streams /\ isOpen \in BOOLEAN /\ reading \in BOOLEAN
    /\ got \in 0..Len(input)
    /\ buffer \in Buffers
    /\ state \in READ_STATE
    /\ needRead \in Nat /\ offset \in Nat

IInv ==
    /\ PlainTypes
    /\ Parts(state, buffer, needRead, offset)
    /\ offset + needRead <= BUFFER_LEN
    /\ OnWire(state, buffer, offset, got)
    /\ ReportsSound

----------------------------------------------------------------------------
(* Sequences of bytes: a segment, and the front of the buffer.               *)

LEMMA Segment ==
  ASSUME NEW s, NEW p \in Nat, NEW n \in Nat, \A i \in 1..n : s[p + i] \in Byte
  PROVE  /\ SubSeq(s, p + 1, p + n) \in Seq(Byte)
         /\ Len(SubSeq(s, p + 1, p + n)) = n
         /\ \A i \in 1..n : SubSeq(s, p + 1, p + n)[i] = s[p + i]
<1> DEFINE t == SubSeq(s, p + 1, p + n)
           lo == p + 1
           hi == p + n
<1>1. lo \in Int /\ hi \in Int
  OBVIOUS
<1>2. \A i \in lo..hi : s[i] \in Byte
  <2> TAKE i \in lo..hi
  <2>1. i - p \in 1..n /\ p + (i - p) = i
    OBVIOUS
  <2> QED
    BY <2>1
<1>3. hi - lo + 1 = n /\ (IF lo <= hi THEN hi - lo + 1 ELSE 0) = n
  OBVIOUS
<1>4. \A i \in 1..n : lo + i - 1 = p + i
  OBVIOUS
<1> HIDE DEF lo, hi
<1>5. /\ SubSeq(s, lo, hi) \in Seq(Byte)
      /\ Len(SubSeq(s, lo, hi)) = IF lo <= hi THEN hi - lo + 1 ELSE 0
      /\ \A i \in 1..(hi - lo + 1) : SubSeq(s, lo, hi)[i] = s[lo + i - 1]
  BY <1>1, <1>2, SubSeqProperties
<1>6. \A i \in 1..n : SubSeq(s, lo, hi)[i] = s[p + i]
  BY <1>3, <1>4, <1>5, Zenon
<1>7. SubSeq(s, lo, hi) \in Seq(Byte) /\ Len(SubSeq(s, lo, hi)) = n
  BY <1>3, <1>5, Zenon
<1> QED
  BY <1>6, <1>7 DEF lo, hi

LEMMA FrontIs ==
  ASSUME NEW b, NEW n \in Nat, \A i \in 1..n : b[i - 1] \in Byte
  PROVE  /\ FirstBytes(b, n) \in Seq(Byte)
         /\ Len(FirstBytes(b, n)) = n
         /\ \A i \in 1..n : FirstBytes(b, n)[i] = b[i - 1]
<1>1. FirstBytes(b, n) \in [1..n -> Byte]
  BY DEF FirstBytes
<1>2. FirstBytes(b, n) \in Seq(Byte)
  BY <1>1
<1> QED
  BY <1>1, <1>2 DEF FirstBytes

LEMMA InitInv == Init => IInv
<1> SUFFICES ASSUME Init PROVE IInv
  OBVIOUS
<1>1. PlainTypes
  <2>1. input \in Seq(Byte)
    BY SerialAssumption DEF Init
  <2>2. 0 \in 0..Len(input)
    BY <2>1
  <2>3. buffer \in Buffers
    BY DEF Init, Buffers
  <2> QED
    BY <2>2, <2>3 DEF Init, PlainTypes, READ_STATE
<1>2. Parts(state, buffer, needRead, offset) /\ offset + needRead <= BUFFER_LEN
  BY SerialAssumption DEF Parts, Init
<1>3. OnWire(state, buffer, offset, got)
  BY DEF OnWire, Init
<1>4. ReportsSound
  BY DEF ReportsSound, Init
<1> QED
  BY <1>1, <1>2, <1>3, <1>4 DEF IInv

\* The frame that a right checksum completes is one the sensor sent.
FrameIn(b, o, g) ==
    /\ input \in Seq(Byte) /\ o \in Nat /\ g \in 0..Len(input)
    /\ Heads(b, 3) /\ b[4] \in 0..MAX_DATA /\ o = 6 + b[4]
    /\ OnWire("CHECKSUM", b, o, g)
    /\ Checksum(FirstBytes(b, o - 1)) = b[o - 1]

LEMMA TakenIsSound ==
  ASSUME NEW b, NEW o, NEW g, FrameIn(b, o, g)
  PROVE  Sound(DataProcess(b, o))
<1> DEFINE p == g - o
<1>0. MAX_DATA \in Nat /\ FieldBytes \in Nat /\ FieldBytes <= Orientation
  BY SerialAssumption
<1>a. input \in Seq(Byte) /\ o \in Nat /\ Len(input) \in Nat /\ g \in 0..Len(input)
  BY LenProperties DEF FrameIn
<1>b. o = 6 + b[4] /\ b[4] \in 0..MAX_DATA
  BY DEF FrameIn
<1>c. Heads(b, 3) /\ Checksum(FirstBytes(b, o - 1)) = b[o - 1]
  BY DEF FrameIn
<1>d. o <= g /\ \A i \in 0..(o - 1) : b[i] = input[p + i + 1]
  <2>1. "CHECKSUM" # "READY"
    OBVIOUS
  <2> QED
    BY <2>1, Zenon DEF FrameIn, OnWire
<1>1. /\ p \in Nat /\ p \in 0..Len(input) /\ p + o <= Len(input)
      /\ o - 1 \in Nat /\ o >= 6
  <2> DEFINE c == b[4]
             n == Len(input)
  <2>1. MAX_DATA \in Nat /\ c \in 0..MAX_DATA /\ o = 6 + c
    BY <1>0, <1>b
  <2>2. n \in Nat /\ g \in 0..n /\ o <= g
    BY <1>a, <1>d
  <2> HIDE DEF c, n
  <2>3. p \in Nat /\ p \in 0..n /\ p + o <= n /\ o - 1 \in Nat /\ o >= 6
    BY <2>1, <2>2
  <2> QED
    BY <2>3 DEF n
<1> HIDE DEF p
<1>3. \A i \in 1..o : b[i - 1] = input[p + i]
  <2> SUFFICES ASSUME NEW i \in 1..o PROVE b[i - 1] = input[p + i]
    OBVIOUS
  <2>1. i - 1 \in 0..(o - 1) /\ p + (i - 1) + 1 = p + i
    BY <1>1, <1>a
  <2> QED
    BY <1>d, <2>1
<1>4. \A i \in 1..o : input[p + i] \in Byte /\ b[i - 1] \in Byte
  <2> SUFFICES ASSUME NEW i \in 1..o PROVE input[p + i] \in Byte /\ b[i - 1] \in Byte
    OBVIOUS
  <2>1. p + i \in 1..Len(input)
    BY <1>1, <1>a
  <2> QED
    BY <1>3, <1>a, <2>1, ElementOfSeq
<1> DEFINE f == FirstBytes(b, o)
<1>5. f \in Seq(Byte) /\ Len(f) = o /\ \A i \in 1..o : f[i] = b[i - 1]
  BY <1>4, <1>a, FrontIs
<1>6. \A n \in Nat : n <= o => FirstBytes(b, n) = SubSeq(input, p + 1, p + n)
  <2> SUFFICES ASSUME NEW n \in Nat, n <= o
               PROVE  FirstBytes(b, n) = SubSeq(input, p + 1, p + n)
    OBVIOUS
  <2>0. \A i \in 1..n : i \in 1..o
    BY <1>a
  <2>1. \A i \in 1..n : /\ b[i - 1] \in Byte /\ input[p + i] \in Byte
                        /\ b[i - 1] = input[p + i]
    BY <1>3, <1>4, <2>0
  <2>2. /\ FirstBytes(b, n) \in Seq(Byte)
        /\ Len(FirstBytes(b, n)) = n
        /\ \A i \in 1..n : FirstBytes(b, n)[i] = b[i - 1]
    BY <2>1, FrontIs
  <2>3. /\ SubSeq(input, p + 1, p + n) \in Seq(Byte)
        /\ Len(SubSeq(input, p + 1, p + n)) = n
        /\ \A i \in 1..n : SubSeq(input, p + 1, p + n)[i] = input[p + i]
    <3>1. p \in Nat /\ \A i \in 1..n : input[p + i] \in Byte
      BY <1>1, <2>1, Zenon
    <3> QED
      BY <3>1, Segment, Zenon
  <2>4. \A i \in 1..n : FirstBytes(b, n)[i] = SubSeq(input, p + 1, p + n)[i]
    BY <2>1, <2>2, <2>3, Zenon
  <2> QED
    BY <2>2, <2>3, <2>4, SeqEqual, Zenon
<1>7. f = SubSeq(input, p + 1, p + o)
  BY <1>6, <1>a
<1>8. IntactAt(input, p, o)
  <2>1. SubSeq(input, p + 1, p + 3) = Header
    <3>1. FirstBytes(b, 3) = SubSeq(input, p + 1, p + 3)
      <4>1. 3 \in Nat /\ 3 <= o
        BY <1>1, <1>a
      <4> QED
        BY <4>1, <1>6, Zenon
    <3>2. \A i \in 1..3 : b[i - 1] = Header[i]
      BY <1>c DEF Heads
    <3>3. b[0] = 13 /\ b[1] = 10 /\ b[2] = 126
      BY <3>2 DEF Header
    <3>4. FirstBytes(b, 3) = Header
      BY <3>3, SMT DEF Header, FirstBytes
    <3> QED
      BY <3>1, <3>4
  <2>2. input[p + 5] = b[4]
    <3>1. 5 \in 1..o /\ 5 - 1 = 4
      BY <1>1, <1>a
    <3> QED
      BY <3>1, <1>3
  <2>3. input[p + o] = b[o - 1]
    <3>1. o \in 1..o
      BY <1>1, <1>a
    <3> QED
      BY <3>1, <1>3
  <2>4. FirstBytes(b, o - 1) = SubSeq(input, p + 1, p + (o - 1))
    <3>1. o - 1 \in Nat /\ o - 1 <= o
      BY <1>1, <1>a
    <3> QED
      BY <3>1, <1>6, Zenon
  <2>5. p + (o - 1) = p + o - 1
    BY <1>1, <1>a
  <2>6. b[4] = o - 6 /\ b[4] <= MAX_DATA
    BY <1>0, <1>b
  <2> QED
    BY <1>1, <1>c, <2>1, <2>2, <2>3, <2>4, <2>5, <2>6 DEF IntactAt
<1>9. DataProcess(b, o).frame = f
  BY DEF DataProcess
<1>10. CASE b[4] = Orientation
  <2> DEFINE v == [i \in 1..FieldBytes |-> b[4 + i]]
             w == SubSeq(f, 5 + 1, 5 + FieldBytes)
  <2>1. DataProcess(b, o) = [frame |-> f, fields |-> v]
    BY <1>10 DEF DataProcess
  <2>2. \A i \in 1..FieldBytes : 5 + i \in 1..o /\ (5 + i) - 1 = 4 + i
    BY <1>0, <1>10, <1>a, <1>b
  <2>3. \A i \in 1..FieldBytes : f[5 + i] = b[4 + i] /\ f[5 + i] \in Byte
    BY <2>2, <1>4, <1>5
  <2>4. w \in Seq(Byte) /\ Len(w) = FieldBytes
        /\ \A i \in 1..FieldBytes : w[i] = f[5 + i]
    <3>1. 5 \in Nat /\ FieldBytes \in Nat /\ \A i \in 1..FieldBytes : f[5 + i] \in Byte
      BY <1>0, <2>3
    <3> HIDE DEF f
    <3> QED
      BY ONLY <3>1, Segment, Zenon DEF w
  <2>5. v \in [1..FieldBytes -> Byte]
    BY <2>3
  <2>6. v \in Seq(Byte) /\ Len(v) = FieldBytes
    BY <1>0, <2>5
  <2>7. \A i \in 1..FieldBytes : v[i] = w[i]
    BY <2>3, <2>4
  <2>8. v = w
    <3> HIDE DEF v, w
    <3> QED
      BY <2>4, <2>6, <2>7, SeqEqual, Zenon
  <2>9. f[5] >= FieldBytes
    <3>1. 5 \in 1..o /\ 5 - 1 = 4
      BY <1>1, <1>a
    <3>2. f[5] = b[4]
      BY <3>1, <1>5
    <3> QED
      BY <3>2, <1>0, <1>10
  <2>10. 5 + 1 = 6
    OBVIOUS
  <2> HIDE DEF f, v
  <2>11. DataProcess(b, o).fields = v /\ DataProcess(b, o).frame = f
         /\ DataProcess(b, o) \in [frame : Seq(Byte), fields : Seq(Byte)]
    BY <2>1, <1>5, <2>6
  <2> QED
    BY <1>1, <1>5, <1>7, <1>8, <2>8, <2>9, <2>10, <2>11 DEF Sound
<1>11. CASE b[4] # Orientation
  <2>1. DataProcess(b, o) = [frame |-> f, fields |-> <<>>]
    BY <1>11 DEF DataProcess
  <2>2. <<>> \in Seq(Byte)
    OBVIOUS
  <2> HIDE DEF f
  <2>3. DataProcess(b, o).fields = <<>> /\ DataProcess(b, o).frame = f
        /\ DataProcess(b, o) \in [frame : Seq(Byte), fields : Seq(Byte)]
    BY <2>1, <2>2, <1>5
  <2> QED
    BY <1>1, <1>5, <1>7, <1>8, <2>3 DEF Sound
<1> QED
  BY <1>10, <1>11

----------------------------------------------------------------------------
(* StartAsyncRead, called on a buffer in which the parts read so far stand.  *)

Mid(b, n, o, g) ==
    /\ input \in Seq(Byte) /\ g \in 0..Len(input)
    /\ state \in READ_STATE /\ n \in Nat /\ o \in Nat
    /\ Parts(state, b, n, o)
    /\ o + n <= BUFFER_LEN
    /\ OnWire(state, b, o, g)
    /\ ReportsSound

After(b, g) ==
    /\ state' \in READ_STATE /\ needRead' \in Nat /\ offset' \in Nat
    /\ Parts(state', b, needRead', offset')
    /\ offset' + needRead' <= BUFFER_LEN
    /\ OnWire(state', b, offset', g)

\* The byte that a check looks at has come from the wire.
LEMMA LastByte ==
  ASSUME NEW b, NEW n, NEW o, NEW g, Mid(b, n, o, g), state # "READY", o >= 1
  PROVE  b[o - 1] \in Byte
<1>1. o <= g /\ \A i \in 0..(o - 1) : b[i] = input[g - o + i + 1]
  BY DEF Mid, OnWire
<1>2. o \in Nat /\ input \in Seq(Byte) /\ Len(input) \in Nat /\ g \in 0..Len(input)
  BY LenProperties DEF Mid
<1>3. o - 1 \in 0..(o - 1) /\ g - o + (o - 1) + 1 = g /\ g \in 1..Len(input)
  BY <1>1, <1>2
<1>4. b[o - 1] = input[g]
  BY <1>1, <1>3
<1> QED
  BY <1>2, <1>3, <1>4, ElementOfSeq

LEMMA HuntAfter ==
  ASSUME NEW b, NEW n, NEW o, NEW g, Mid(b, n, o, g), Hunt
  PROVE  After(b, g)
<1>1. state' = "HEAD_0" /\ needRead' = 1 /\ offset' = 0
  BY DEF Hunt
<1>2. BUFFER_LEN \in Nat /\ 1 <= BUFFER_LEN
  BY SerialAssumption
<1>3. 0 <= g
  BY LenProperties DEF Mid
<1>4. Parts(state', b, needRead', offset')
  BY <1>1 DEF Parts
<1>5. OnWire(state', b, offset', g)
  BY <1>1, <1>3 DEF OnWire
<1> QED
  BY <1>1, <1>2, <1>4, <1>5 DEF After, READ_STATE

\* The buffer up to o stays what came from the wire when another part follows.
LEMMA WireStays ==
  ASSUME NEW b, NEW n, NEW o, NEW g, Mid(b, n, o, g), state # "READY", NEW st
  PROVE  OnWire(st, b, o, g)
  BY DEF Mid, OnWire

LEMMA HeadAfter ==
  ASSUME NEW b, NEW n, NEW o, NEW g, Mid(b, n, o, g), n = 0, CheckHead(b, o)
  PROVE  After(b, g)
<1>1. CASE Hunt
  BY <1>1, HuntAfter
<1>2. CASE ~Hunt
  <2>1. /\ state \in {"HEAD_0", "HEAD_1", "HEAD_2"}
        /\ b[o - 1] = HeadByte[state] /\ Expect(AfterHead[state], 1, o)
    BY <1>2 DEF CheckHead
  <2>2. /\ offset' = o /\ needRead' = 1 /\ o \in Nat
        /\ state' = AfterHead[state]
    BY <2>1 DEF Expect, Mid
  <2>3. MAX_DATA \in Nat /\ BUFFER_LEN \in Nat /\ MAX_DATA + 6 <= BUFFER_LEN
    BY SerialAssumption
  <2>4. OnWire(state', b, offset', g)
    BY <2>1, <2>2, WireStays
  <2>5. CASE state = "HEAD_0"
    <3>1. state' = "HEAD_1" /\ b[o - 1] = Header[1]
      BY <2>1, <2>2, <2>5 DEF HeadByte, AfterHead
    <3>2. o = 1
      BY <2>5 DEF Mid, Parts
    <3>3. Heads(b, 1)
      BY <3>1, <3>2 DEF Heads
    <3> QED
      BY <2>2, <2>3, <2>4, <3>1, <3>2, <3>3 DEF After, Parts, READ_STATE
  <2>6. CASE state = "HEAD_1"
    <3>1. state' = "HEAD_2" /\ b[o - 1] = Header[2]
      BY <2>1, <2>2, <2>6 DEF HeadByte, AfterHead
    <3>2. o = 2 /\ Heads(b, 1)
      BY <2>6 DEF Mid, Parts
    <3>3. Heads(b, 2)
      BY <3>1, <3>2 DEF Heads
    <3> QED
      BY <2>2, <2>3, <2>4, <3>1, <3>2, <3>3 DEF After, Parts, READ_STATE
  <2>7. CASE state = "HEAD_2"
    <3>1. state' = "TYPE" /\ b[o - 1] = Header[3]
      BY <2>1, <2>2, <2>7 DEF HeadByte, AfterHead
    <3>2. o = 3 /\ Heads(b, 2)
      BY <2>7 DEF Mid, Parts
    <3>3. Heads(b, 3)
      BY <3>1, <3>2 DEF Heads
    <3> QED
      BY <2>2, <2>3, <2>4, <3>1, <3>2, <3>3 DEF After, Parts, READ_STATE
  <2> QED
    BY <2>1, <2>5, <2>6, <2>7
<1> QED
  BY <1>1, <1>2

LEMMA LengthAfter ==
  ASSUME NEW b, NEW n, NEW o, NEW g, Mid(b, n, o, g), n = 0, CheckLength(b, o)
  PROVE  After(b, g)
<1>1. CASE Hunt
  BY <1>1, HuntAfter
<1>2. CASE ~Hunt
  <2>1. state = "LENGTH" /\ ~(b[o - 1] > MAX_DATA) /\ Expect("DATA", b[o - 1], o)
    BY <1>2 DEF CheckLength
  <2>2. o = 5 /\ Heads(b, 3)
    BY <2>1 DEF Mid, Parts
  <2>3. b[o - 1] \in Byte
    BY <2>1, <2>2, LastByte
  <2>4. MAX_DATA \in Nat /\ BUFFER_LEN \in Nat /\ MAX_DATA + 6 <= BUFFER_LEN
    BY SerialAssumption
  <2>5. o - 1 = 4
    BY <2>2
  <2>6. b[4] \in 0..MAX_DATA
    BY <2>1, <2>3, <2>4, <2>5 DEF Byte
  <2>7. state' = "DATA" /\ needRead' = b[4] /\ offset' = 5
    BY <2>1, <2>2, <2>5 DEF Expect
  <2>8. OnWire(state', b, offset', g)
    BY <2>1, <2>2, <2>7, WireStays
  <2>9. Parts(state', b, needRead', offset')
    BY <2>2, <2>6, <2>7 DEF Parts
  <2> QED
    BY <2>4, <2>6, <2>7, <2>8, <2>9 DEF After, READ_STATE
<1> QED
  BY <1>1, <1>2

\* When the checksum has come, six bytes and the data have.
LEMMA AtChecksum ==
  ASSUME NEW b, NEW n, NEW o, NEW g, Mid(b, n, o, g), n = 0, state = "CHECKSUM"
  PROVE  /\ o = 6 + b[4] /\ b[4] \in 0..MAX_DATA /\ Heads(b, 3)
         /\ o \in Nat /\ o >= 6
<1>1. o + n = 6 + b[4] /\ b[4] \in 0..MAX_DATA /\ Heads(b, 3) /\ o \in Nat
  BY DEF Mid, Parts
<1>2. MAX_DATA \in Nat
  BY SerialAssumption
<1> QED
  BY <1>1, <1>2

LEMMA CheckSumAfter ==
  ASSUME NEW b, NEW n, NEW o, NEW g, Mid(b, n, o, g), n = 0, CheckSum(b, o)
  PROVE  After(b, g)
<1>1. state = "CHECKSUM" /\ state' = "READY" /\ needRead' = 0 /\ offset' = o - 1
  BY DEF CheckSum, Expect
<1>2. o \in Nat /\ o >= 6
  BY <1>1, AtChecksum
<1>3. o <= BUFFER_LEN /\ BUFFER_LEN \in Nat
  BY <1>2, SerialAssumption DEF Mid
<1>4. OnWire(state', b, offset', g)
  BY <1>1 DEF OnWire
<1>5. Parts(state', b, needRead', offset')
  BY <1>1 DEF Parts
<1> QED
  BY <1>1, <1>2, <1>3, <1>4, <1>5 DEF After, READ_STATE

LEMMA StartAfter ==
  ASSUME NEW b, NEW n, NEW o, NEW g, Mid(b, n, o, g), StartAsyncRead(b, n, o)
  PROVE  After(b, g)
<1>0. MAX_DATA \in Nat /\ BUFFER_LEN \in Nat /\ MAX_DATA + 6 <= BUFFER_LEN
  BY SerialAssumption
<1>1. CASE n > 0 /\ Expect(state, n, o)
  BY <1>1 DEF Expect, Mid, After
<1>2. CASE n = 0 /\ Hunt
  BY <1>2, HuntAfter
<1>3. CASE n = 0 /\ CheckHead(b, o)
  BY <1>3, HeadAfter
<1>4. CASE n = 0 /\ state = "TYPE" /\ Expect("LENGTH", 1, o)
  <2>1. state' = "LENGTH" /\ needRead' = 1 /\ offset' = o
    BY <1>4 DEF Expect
  <2>2. o = 4 /\ Heads(b, 3)
    BY <1>4 DEF Mid, Parts
  <2>3. OnWire(state', b, offset', g)
    BY <1>4, <2>1, WireStays
  <2> QED
    BY <1>0, <2>1, <2>2, <2>3 DEF After, Parts, READ_STATE
<1>5. CASE n = 0 /\ CheckLength(b, o)
  BY <1>5, LengthAfter
<1>6. CASE n = 0 /\ state = "DATA" /\ Expect("CHECKSUM", 1, o)
  <2>1. state' = "CHECKSUM" /\ needRead' = 1 /\ offset' = o
    BY <1>6 DEF Expect
  <2>2. o = 5 + b[4] /\ b[4] \in 0..MAX_DATA /\ Heads(b, 3) /\ o \in Nat
    <3>1. o + n = 5 + b[4] /\ b[4] \in 0..MAX_DATA /\ Heads(b, 3) /\ o \in Nat
      BY <1>6 DEF Mid, Parts
    <3> QED
      BY <1>0, <1>6, <3>1
  <2>3. OnWire(state', b, offset', g)
    BY <1>6, <2>1, WireStays
  <2>4. Parts(state', b, needRead', offset')
    BY <1>0, <2>1, <2>2 DEF Parts
  <2> QED
    BY <1>0, <2>1, <2>2, <2>3, <2>4 DEF After, READ_STATE
<1>7. CASE n = 0 /\ CheckSum(b, o)
  BY <1>7, CheckSumAfter
<1> QED
  BY <1>1, <1>2, <1>3, <1>4, <1>5, <1>6, <1>7 DEF StartAsyncRead

LEMMA StartReports ==
  ASSUME NEW b, NEW n, NEW o, NEW g, Mid(b, n, o, g), StartAsyncRead(b, n, o),
         UNCHANGED input
  PROVE  ReportsSound'
<1>1. CASE UNCHANGED reports
  BY <1>1 DEF Mid, ReportsSound, Sound, IntactAt
<1>2. CASE reports' # reports
  <2>1. n = 0 /\ CheckSum(b, o)
    BY <1>2 DEF StartAsyncRead, CheckHead, CheckLength
  <2>2. state = "CHECKSUM" /\ Checksum(FirstBytes(b, o - 1)) = b[o - 1]
        /\ reports' = Append(reports, DataProcess(b, o))
    BY <1>2, <2>1 DEF CheckSum
  <2>3. o = 6 + b[4] /\ b[4] \in 0..MAX_DATA /\ Heads(b, 3)
    BY <2>1, <2>2, AtChecksum
  <2>4. FrameIn(b, o, g)
    BY <2>2, <2>3 DEF FrameIn, Mid
  <2>5. Sound(DataProcess(b, o))
    BY <2>4, TakenIsSound
  <2> DEFINE new == DataProcess(b, o)
             R == [frame : Seq(Byte), fields : Seq(Byte)]
  <2>6. reports \in Seq(R) /\ \A r \in 1..Len(reports) : Sound(reports[r])
    BY DEF Mid, ReportsSound
  <2>7. new \in R /\ reports' = Append(reports, new)
    BY <2>2, <2>5 DEF Sound
  <2> HIDE DEF new, R
  <2>8. /\ reports' \in Seq(R)
        /\ Len(reports') = Len(reports) + 1
        /\ \A i \in 1..Len(reports) : reports'[i] = reports[i]
        /\ reports'[Len(reports) + 1] = new
    BY <2>6, <2>7, AppendProperties
  <2>9. Len(reports) \in Nat
    BY <2>6, LenProperties
  <2>10. \A r \in 1..Len(reports') : r \in 1..Len(reports) \/ r = Len(reports) + 1
    BY <2>8, <2>9
  <2>11. \A r \in 1..Len(reports') : Sound(reports'[r])
    BY <2>5, <2>6, <2>8, <2>10, Zenon DEF new
  <2> QED
    BY <2>8, <2>11 DEF ReportsSound, Sound, IntactAt, R
<1> QED
  BY <1>1, <1>2

----------------------------------------------------------------------------
(* The steps.                                                                *)

LEMMA InvIsMid ==
  ASSUME IInv
  PROVE  Mid(buffer, needRead, offset, got) /\ input \in Seq(Byte)
  BY SerialAssumption DEF IInv, PlainTypes, Mid

LEMMA AfterIsInv ==
  ASSUME PlainTypes, UNCHANGED <<input, isOpen>>, reading' \in BOOLEAN,
         got' \in 0..Len(input), buffer' \in Buffers,
         After(buffer', got'), ReportsSound', input \in Seq(Byte)
  PROVE  IInv'
<1>1. PlainTypes'
  BY DEF PlainTypes, After, READ_STATE, Buffers
<1>2. OnWire(state, buffer, offset, got)'
  BY DEF After, OnWire
<1>3. Parts(state, buffer, needRead, offset)' /\ (offset + needRead <= BUFFER_LEN)'
  BY DEF After, Parts, Heads
<1> QED
  BY <1>1, <1>2, <1>3 DEF IInv

\* The bytes of a read go behind those that are there, and all of them are the
\* wire's next.
LEMMA FilledIsMid ==
  ASSUME IInv, NEW k \in Nat, k <= needRead, got + k <= Len(input)
  PROVE  /\ Mid(Filled(k), needRead - k, offset + k, got + k)
         /\ Filled(k) \in Buffers
<1> DEFINE b == Filled(k)
           n == needRead - k
           o == offset + k
           g == got + k
<1>1. /\ input \in Seq(Byte) /\ Len(input) \in Nat /\ got \in 0..Len(input)
      /\ state \in READ_STATE /\ needRead \in Nat /\ offset \in Nat
      /\ offset + needRead <= BUFFER_LEN /\ BUFFER_LEN \in Nat
      /\ buffer \in Buffers
  BY LenProperties, SerialAssumption DEF IInv, PlainTypes
<1>2. n \in Nat /\ o \in Nat /\ g \in 0..Len(input) /\ o + n <= BUFFER_LEN
      /\ o <= BUFFER_LEN
  BY <1>1
<1>a. \A i \in 0..(BUFFER_LEN - 1) : b[i] = ByteAfter(k, i)
  BY DEF Filled
<1>b. offset + k - 1 = o - 1
  BY <1>1
<1>3. \A i \in 0..(BUFFER_LEN - 1) :
         b[i] = IF i \in offset..(o - 1) THEN input[got + (i - offset) + 1] ELSE buffer[i]
  BY <1>a, <1>b, Zenon DEF ByteAfter
<1>4. \A i \in offset..(o - 1) : got + (i - offset) + 1 \in 1..Len(input)
  BY <1>1, <1>2
<1>5. b \in Buffers
  <2>1. \A i \in 0..(BUFFER_LEN - 1) :
           (IF i \in offset..(o - 1) THEN input[got + (i - offset) + 1] ELSE buffer[i])
               \in Byte \cup {Undefined}
    BY <1>1, <1>4, ElementOfSeq, Zenon DEF Buffers
  <2> QED
    <3>1. \A i \in 0..(BUFFER_LEN - 1) : ByteAfter(k, i) \in Byte \cup {Undefined}
      BY <2>1, <1>b, Zenon DEF ByteAfter
    <3> QED
      BY <3>1 DEF Filled, Buffers
<1>6. \A i \in 0..(offset - 1) : b[i] = buffer[i]
  <2>1. \A i \in 0..(offset - 1) : i \in 0..(BUFFER_LEN - 1) /\ i \notin offset..(o - 1)
    BY <1>1, <1>2
  <2> QED
    BY <1>3, <2>1
<1>7. OnWire(state, b, o, g)
  <2> SUFFICES ASSUME state # "READY"
               PROVE  o <= g /\ \A i \in 0..(o - 1) : b[i] = input[g - o + i + 1]
    BY DEF OnWire
  <2>1. offset <= got /\ \A i \in 0..(offset - 1) : buffer[i] = input[got - offset + i + 1]
    BY DEF IInv, OnWire
  <2>2. o <= g /\ g - o = got - offset
    BY <1>1, <2>1
  <2>3. ASSUME NEW i \in 0..(offset - 1) PROVE b[i] = input[g - o + i + 1]
    BY <1>6, <2>1, <2>2
  <2>4. ASSUME NEW i \in offset..(o - 1) PROVE b[i] = input[g - o + i + 1]
    <3>1. i \in 0..(BUFFER_LEN - 1) /\ got + (i - offset) + 1 = g - o + i + 1
      BY <1>1, <1>2, <2>2
    <3> QED
      BY <1>3, <3>1
  <2>5. \A i \in 0..(o - 1) : i \in 0..(offset - 1) \/ i \in offset..(o - 1)
    BY <1>1, <1>2
  <2> QED
    BY <2>2, <2>3, <2>4, <2>5
<1>8. Parts(state, b, n, o)
  <2>1. Parts(state, buffer, needRead, offset)
    BY DEF IInv
  <2>2. o + n = offset + needRead /\ o >= offset
    BY <1>1
  <2>3. \A h \in 1..3 : Heads(buffer, h) /\ offset >= h => Heads(b, h)
    <3> SUFFICES ASSUME NEW h \in 1..3, Heads(buffer, h), offset >= h PROVE Heads(b, h)
      OBVIOUS
    <3>1. \A i \in 1..h : i - 1 \in 0..(offset - 1)
      BY <1>1
    <3> QED
      BY <1>6, <3>1 DEF Heads
  <2>4. offset >= 5 => b[4] = buffer[4]
    <3>1. offset >= 5 => 4 \in 0..(offset - 1)
      BY <1>1
    <3> QED
      BY <1>6, <3>1
  <2>5. MAX_DATA \in Nat
    BY SerialAssumption
  <2>6. CASE state = "READY"
    BY <1>1, <2>1, <2>6 DEF Parts
  <2>7. CASE state \in {"HEAD_0", "HEAD_1", "HEAD_2", "TYPE", "LENGTH"}
    <3> HIDE DEF b, n, o
    <3> QED
      BY <1>1, <1>2, <2>1, <2>2, <2>3, <2>7 DEF Parts
  <2>8. CASE state = "DATA"
    <3>1. Heads(buffer, 3) /\ offset >= 5 /\ buffer[4] \in 0..MAX_DATA
          /\ offset + needRead = 5 + buffer[4]
      BY <2>1, <2>8 DEF Parts
    <3> HIDE DEF b, n, o
    <3>2. Heads(b, 3) /\ b[4] = buffer[4]
      BY <1>1, <2>3, <2>4, <3>1
    <3>3. o + n = 5 + b[4] /\ o >= 5
      BY <1>1, <1>2, <2>2, <3>1, <3>2
    <3> QED
      BY <2>8, <3>1, <3>2, <3>3 DEF Parts
  <2>9. CASE state = "CHECKSUM"
    <3>1. Heads(buffer, 3) /\ buffer[4] \in 0..MAX_DATA
          /\ offset + needRead = 6 + buffer[4] /\ offset >= 5 + buffer[4]
      BY <2>1, <2>9 DEF Parts
    <3> HIDE DEF b, n, o
    <3>2. offset >= 5
      BY <1>1, <2>5, <3>1
    <3>3. Heads(b, 3) /\ b[4] = buffer[4]
      BY <1>1, <2>3, <2>4, <3>1, <3>2
    <3>4. o + n = 6 + b[4] /\ o >= 5 + b[4]
      BY <1>1, <1>2, <2>2, <2>5, <3>1, <3>3
    <3> QED
      BY <2>9, <3>1, <3>3, <3>4 DEF Parts
  <2> QED
    BY <1>1, <2>6, <2>7, <2>8, <2>9 DEF READ_STATE
<1>9. ReportsSound
  BY DEF IInv
<1> HIDE DEF b, n, o, g
<1>10. Mid(b, n, o, g)
  BY <1>1, <1>2, <1>7, <1>8, <1>9 DEF Mid
<1> QED
  BY <1>5, <1>10 DEF b, n, o, g

LEMMA NextInv == IInv /\ [Next]_vars => IInv'
<1> SUFFICES ASSUME IInv, [Next]_vars PROVE IInv'
  OBVIOUS
<1>0. PlainTypes /\ input \in Seq(Byte) /\ Mid(buffer, needRead, offset, got)
  BY InvIsMid DEF IInv
<1>1. CASE StartAsyncRead(buffer, needRead, offset)
           /\ UNCHANGED <<input, isOpen, got, buffer>> /\ reading' \in BOOLEAN
  <2>1. After(buffer', got') /\ ReportsSound'
    BY <1>0, <1>1, StartAfter, StartReports
  <2> QED
    BY <1>0, <1>1, <2>1, AfterIsInv DEF PlainTypes
<1>2. CASE RunService
  BY <1>1, <1>2 DEF RunService
<1>3. CASE CompleteWithError
  BY <1>0, <1>1, <1>3 DEF CompleteWithError, PlainTypes
<1>4. ASSUME NEW k \in 0..BUFFER_LEN, Complete(k) PROVE IInv'
  <2>1. k \in Nat /\ k <= needRead /\ got + k <= Len(input)
    BY <1>0, <1>4, SerialAssumption DEF Complete, PlainTypes
  <2>2. Mid(Filled(k), needRead - k, offset + k, got + k) /\ Filled(k) \in Buffers
    BY <2>1, FilledIsMid
  <2>3. buffer' = Filled(k) /\ got' = got + k /\ UNCHANGED <<input, isOpen, reading>>
        /\ StartAsyncRead(Filled(k), needRead - k, offset + k)
    BY <1>4 DEF Complete
  <2>4. After(Filled(k), got + k)
    BY <2>2, <2>3, StartAfter
  <2>5. ReportsSound'
    BY <2>2, <2>3, StartReports
  <2>6. got + k \in 0..Len(input)
    BY <2>2 DEF Mid
  <2>7. After(buffer', got') /\ got' \in 0..Len(input) /\ buffer' \in Buffers
        /\ reading' \in BOOLEAN
    BY <1>0, <2>2, <2>3, <2>4, <2>6 DEF PlainTypes
  <2> QED
    BY <1>0, <2>3, <2>5, <2>7, AfterIsInv
<1>5. CASE UNCHANGED vars
  <2>1. /\ UNCHANGED <<input, isOpen, reading, got, buffer>>
        /\ UNCHANGED <<state, needRead, offset, reports>>
    BY <1>5 DEF vars
  <2>2. PlainTypes'
    BY <2>1 DEF IInv, PlainTypes
  <2>3. Parts(state, buffer, needRead, offset)'
    BY <2>1 DEF IInv, Parts, Heads
  <2>4. OnWire(state, buffer, offset, got)' /\ (offset + needRead <= BUFFER_LEN)'
    BY <2>1 DEF IInv, OnWire
  <2>5. \A r : Sound(r) <=> Sound(r)'
    BY <2>1 DEF Sound, IntactAt
  <2>6. ReportsSound'
    BY <2>1, <2>5 DEF IInv, ReportsSound
  <2> QED
    BY <2>2, <2>3, <2>4, <2>6 DEF IInv
<1> QED
  BY <1>2, <1>3, <1>4, <1>5 DEF Next

----------------------------------------------------------------------------
\* Where the port stands in a frame, and that the buffer holds what came from
\* the wire, always.
THEOREM SerialInvariant == Spec => []IInv
<1>1. Init => IInv
  BY InitInv
<1>2. IInv /\ [Next]_vars => IInv'
  BY NextInv
<1> QED
  BY <1>1, <1>2, PTL DEF Spec

\* Every variable keeps its type; the number of missing bytes is never negative.
THEOREM SerialTypeCorrect == Spec => []TypeOK
<1>1. IInv => TypeOK
  BY DEF IInv, PlainTypes, TypeOK, Buffers, ReportsSound
<1> QED
  BY <1>1, SerialInvariant, PTL

\* No read can run past the end of the buffer, for every length limit that
\* leaves room for the five bytes before the data and the checksum.
THEOREM ReadsBounded == Spec => []ReadsStayInBuffer
<1>1. IInv => ReadsStayInBuffer
  <2> SUFFICES ASSUME IInv PROVE ReadsStayInBuffer
    OBVIOUS
  <2>1. Parts(state, buffer, needRead, offset) /\ state \in READ_STATE
        /\ offset + needRead <= BUFFER_LEN /\ offset \in Nat /\ needRead \in Nat
    BY DEF IInv, PlainTypes
  <2>2. state = "CHECKSUM" => offset + needRead >= 6
    BY <2>1, SerialAssumption DEF Parts
  <2>3. state \in {"HEAD_0", "HEAD_1", "HEAD_2", "TYPE", "LENGTH"} => offset + needRead >= 1
    BY <2>1 DEF Parts
  <2> QED
    BY <2>1, <2>2, <2>3 DEF ReadsStayInBuffer, READ_STATE
<1> QED
  BY <1>1, SerialInvariant, PTL

\* What is taken for a frame was sent as one, without a gap and with its
\* checksum.
THEOREM FramesAuthentic == Spec => []FramesWereSent
<1>1. IInv => FramesWereSent
  BY DEF IInv, ReportsSound, Sound, FramesWereSent
<1> QED
  BY <1>1, SerialInvariant, PTL

\* The values printed of a frame are read from its own data: none comes from
\* bytes a longer frame left in the buffer.
THEOREM FieldsAuthentic == Spec => []FieldsAreOwn
<1>1. IInv => FieldsAreOwn
  BY DEF IInv, ReportsSound, Sound, FieldsAreOwn
<1> QED
  BY <1>1, SerialInvariant, PTL
=============================================================================
