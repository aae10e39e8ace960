------------------------ MODULE GoogleIP_Remote_proofs ------------------------
(***************************************************************************)
(* Proofs about the parts of src/src/GoogleIP_Remote.cpp beside the session *)
(* itself: the receive buffer, the pairing request, the certificate and the *)
(* search for TVs.  Each has an inductive invariant of its own; no theorem  *)
(* is about two of them.                                                    *)
(***************************************************************************)
EXTENDS PacketFraming, PairingEncoding, SelfCertificate, Discovery, SequenceTheorems, TLAPS

-----------------------------------------------------------------------------
(* PacketFraming implements PacketBuffer for every set of byte values, read *)
(* size, number of packets and number of sessions.  The invariant is that   *)
(* everything in transit is bytes and no record is empty, and that a whole  *)
(* packet never waits in the buffer.                                        *)

Records == {r \in Seq(Byte) : Len(r) > 0}

FramingInv ==
    /\ readDataCunks \in Seq(Byte)
    /\ records \in Seq(Records)
    /\ ~IsWhole(readDataCunks)

LEMMA PacketTyped ==
  ASSUME NEW len \in Byte, NEW value \in Byte
  PROVE  /\ Packet(len, value) \in Records
         /\ <<len>> \in Records
         /\ len > 0 => [i \in 1..len |-> value] \in Records
<1>1. len \in Nat
  BY ByteAssumption
<1>2. [i \in 1..len |-> value] \in Seq(Byte) /\ Len([i \in 1..len |-> value]) = len
  BY <1>1
<1>3. <<len>> \in Seq(Byte) /\ Len(<<len>>) = 1
  OBVIOUS
<1>4. Packet(len, value) \in Seq(Byte) /\ Len(Packet(len, value)) = 1 + len
  BY <1>1, <1>2, <1>3 DEF Packet
<1> QED
  BY <1>1, <1>2, <1>3, <1>4 DEF Records

(* What is read of a record is some bytes, and what is left is no or one    *)
(* record with some bytes.                                                  *)
LEMMA ReadTyped ==
  ASSUME NEW record \in Records
  PROVE  Chunk(record) \in Records /\ Rest(record) \in Seq(Records)
<1>1. CASE Len(record) <= ReadSize
  BY <1>1 DEF Chunk, Rest
<1>2. CASE Len(record) > ReadSize
  <2>1. /\ SubSeq(record, 1, ReadSize) \in Seq(Byte)
        /\ Len(SubSeq(record, 1, ReadSize)) = ReadSize
    BY <1>2, ReadSizeAssumption DEF Records
  <2>2. /\ SubSeq(record, ReadSize + 1, Len(record)) \in Seq(Byte)
        /\ Len(SubSeq(record, ReadSize + 1, Len(record))) = Len(record) - ReadSize
    BY <1>2, ReadSizeAssumption DEF Records
  <2>3. SubSeq(record, ReadSize + 1, Len(record)) \in Records
    BY <1>2, <2>2, ReadSizeAssumption DEF Records
  <2>4. Chunk(record) = SubSeq(record, 1, ReadSize)
    BY <1>2, ReadSizeAssumption DEF Chunk, Records
  <2>5. Rest(record) = <<SubSeq(record, ReadSize + 1, Len(record))>>
    BY <1>2, ReadSizeAssumption DEF Rest, Records
  <2>6. Chunk(record) \in Records
    BY <2>1, <2>4, ReadSizeAssumption DEF Records
  <2> QED
    BY <2>3, <2>5, <2>6
<1> QED
  BY <1>1, <1>2, ReadSizeAssumption DEF Records

(* One more chunk makes a buffer longer and leaves its first byte alone, so *)
(* that a buffer with more than a packet stays one.                         *)
LEMMA ChunkGrows ==
  ASSUME NEW buffer \in Seq(Byte), ~IsWhole(buffer), NEW chunk \in Records
  PROVE  /\ buffer \o chunk \in Seq(Byte)
         /\ Fill(buffer) \in {"empty", "partial", "overrun"}
         /\ Fill(buffer \o chunk) \in {"partial", "full", "overrun"}
         /\ Fill(buffer) = "overrun" => Fill(buffer \o chunk) = "overrun"
         /\ Fill(buffer \o chunk) = "full" <=> IsWhole(buffer \o chunk)
<1> DEFINE more == buffer \o chunk
<1>1. /\ more \in Seq(Byte) /\ Len(more) = Len(buffer) + Len(chunk)
      /\ Len(chunk) \in Nat \ {0} /\ Len(buffer) \in Nat
      /\ more # <<>>
  BY DEF Records
<1>2. buffer # <<>> => more[1] = buffer[1] /\ buffer[1] \in Nat
  <2> SUFFICES ASSUME buffer # <<>> PROVE more[1] = buffer[1] /\ buffer[1] \in Nat
    OBVIOUS
  <2>1. Len(buffer) >= 1 /\ buffer[1] \in Byte
    OBVIOUS
  <2>2. 1 \in 1..Len(buffer) + Len(chunk)
    BY <1>1, <2>1
  <2>3. more[1] = buffer[1]
    BY <2>1, <2>2, ConcatProperties DEF Records
  <2> QED
    BY <2>1, <2>3, ByteAssumption
<1>3. more[1] \in Nat
  <2>1. more[1] \in Byte
    BY <1>1
  <2> QED
    BY <2>1, ByteAssumption
<1>4. Fill(buffer) \in {"empty", "partial", "overrun"}
  BY DEF Fill
<1>5. CASE Fill(buffer) = "overrun"
  <2>1. buffer # <<>> /\ Len(buffer) > buffer[1] + 1
    BY <1>1, <1>2, <1>5 DEF Fill, IsWhole
  <2>2. Len(more) > more[1] + 1
    BY <1>1, <1>2, <2>1
  <2>3. ~IsWhole(more) /\ Fill(more) = "overrun"
    BY <1>1, <1>3, <2>2 DEF Fill, IsWhole
  <2> QED
    BY <1>1, <1>5, <2>3
<1>6. CASE Fill(buffer) # "overrun"
  <2>1. Fill(more) \in {"partial", "full", "overrun"}
    BY <1>1 DEF Fill
  <2>2. Fill(more) = "full" <=> IsWhole(more)
    BY <1>1, <1>3 DEF Fill, IsWhole
  <2> QED
    BY <1>1, <1>4, <1>6, <2>1, <2>2
<1> QED
  BY <1>5, <1>6

(* One call reads and keeps or dispatches: the buffer grows, or it had room *)
(* and is emptied.                                                          *)
LEMMA ReadStep ==
  ASSUME FramingInv, Read
  PROVE  FramingInv' /\ [Buffer!Next]_(Fill(readDataCunks))
<1> DEFINE buffer == readDataCunks \o Chunk(Head(records))
<1>1. Head(records) \in Records /\ Tail(records) \in Seq(Records)
  BY DEF FramingInv, Read
<1>2. records' \in Seq(Records)
  BY <1>1, ReadTyped DEF Read
<1>3. /\ buffer \in Seq(Byte)
      /\ Fill(readDataCunks) \in {"empty", "partial", "overrun"}
      /\ Fill(buffer) \in {"partial", "full", "overrun"}
      /\ Fill(readDataCunks) = "overrun" => Fill(buffer) = "overrun"
      /\ Fill(buffer) = "full" <=> IsWhole(buffer)
  BY <1>1, ReadTyped, ChunkGrows DEF FramingInv
<1>4. CASE IsWhole(buffer)
  <2>1. readDataCunks' = <<>>
    BY <1>4 DEF Read, Dispatch
  <2>2. Fill(readDataCunks)' = "empty" /\ ~IsWhole(readDataCunks')
    BY <2>1 DEF Fill, IsWhole
  <2>3. Buffer!Clear
    BY <1>3, <1>4, <2>2 DEF Buffer!Clear
  <2> QED
    BY <1>2, <2>1, <2>2, <2>3 DEF FramingInv, Buffer!Next
<1>5. CASE ~IsWhole(buffer)
  <2>1. readDataCunks' = buffer
    BY <1>5 DEF Read, Dispatch
  <2>2. Fill(readDataCunks)' = Fill(buffer)
    BY <2>1 DEF Fill, IsWhole
  <2>3. Buffer!Grow \/ UNCHANGED Fill(readDataCunks)
    BY <1>3, <2>2 DEF Buffer!Grow
  <2> QED
    BY <1>2, <1>3, <1>5, <2>1, <2>3 DEF FramingInv, Buffer!Next
<1> QED
  BY <1>4, <1>5

(* What the TV does and the end of a session do not touch the buffer.       *)
LEMMA OtherStep ==
  ASSUME FramingInv, SendWhole \/ SendLengthFirst \/ SendTogether \/ SessionLost \/ UNCHANGED vars
  PROVE  FramingInv' /\ UNCHANGED readDataCunks
<1>1. CASE SendWhole
  <2>1. PICK len \in Byte, value \in Byte : records' = Append(records, Packet(len, value))
    BY <1>1 DEF SendWhole
  <2>2. Packet(len, value) \in Records
    BY PacketTyped
  <2>3. records' \in Seq(Records)
    BY <2>1, <2>2 DEF FramingInv
  <2> QED
    BY <1>1, <2>3 DEF SendWhole, Sends, FramingInv
<1>2. CASE SendLengthFirst
  <2>1. PICK len \in Byte, value \in Byte :
           /\ len > 0
           /\ records' = records \o <<<<len>>, [i \in 1..len |-> value]>>
    BY <1>2 DEF SendLengthFirst
  <2>2. <<<<len>>, [i \in 1..len |-> value]>> \in Seq(Records)
    <3>1. <<len>> \in Records /\ [i \in 1..len |-> value] \in Records
      BY <2>1, PacketTyped
    <3> QED
      BY <3>1
  <2>3. records' \in Seq(Records)
    BY <2>1, <2>2, ConcatProperties DEF FramingInv
  <2> QED
    BY <1>2, <2>3 DEF SendLengthFirst, Sends, FramingInv
<1>3. CASE SendTogether
  <2>1. PICK len1, value1, len2, value2 \in Byte :
           records' = Append(records, Packet(len1, value1) \o Packet(len2, value2))
    BY <1>3 DEF SendTogether
  <2>2. Packet(len1, value1) \in Records /\ Packet(len2, value2) \in Records
    BY PacketTyped
  <2>3. Packet(len1, value1) \o Packet(len2, value2) \in Records
    BY <2>2 DEF Records
  <2> QED
    BY <1>3, <2>1, <2>3 DEF SendTogether, Sends, FramingInv
<1>4. CASE SessionLost
  BY <1>4 DEF SessionLost, FramingInv
<1>5. CASE UNCHANGED vars
  BY <1>5 DEF vars, FramingInv
<1> QED
  BY <1>1, <1>2, <1>3, <1>4, <1>5

LEMMA FramingInvariance == Spec => []FramingInv
<1>1. Init => FramingInv
  BY DEF Init, FramingInv, IsWhole
<1>2. FramingInv /\ [Next]_vars => FramingInv'
  BY ReadStep, OtherStep DEF Next
<1> QED
  BY <1>1, <1>2, PTL DEF Spec

(* The receive buffer implements PacketBuffer: once it holds more than its  *)
(* first byte announces, it never holds a whole packet again.               *)
THEOREM BufferRefinement == Spec => Buffers
<1>1. Init => Buffer!Init
  <2>1. Init => Fill(readDataCunks) = "empty"
    BY DEF Init, Fill, IsWhole
  <2> QED
    BY <2>1 DEF Buffer!Init
<1>2. FramingInv /\ [Next]_vars => [Buffer!Next]_(Fill(readDataCunks))
  <2> SUFFICES ASSUME FramingInv, [Next]_vars PROVE [Buffer!Next]_(Fill(readDataCunks))
    OBVIOUS
  <2>1. CASE Read
    BY <2>1, ReadStep
  <2>2. CASE ~Read
    <3>1. UNCHANGED readDataCunks
      BY <2>2, OtherStep DEF Next
    <3> QED
      BY <3>1 DEF Fill, IsWhole
  <2> QED
    BY <2>1, <2>2
<1> QED
  BY <1>1, <1>2, FramingInvariance, PTL DEF Spec, Buffers, Buffer!Spec

(* Order.  What the buffer holds and what is still to be read is, put       *)
(* together, what the packets that are not handed on yet are, put together. *)
Packets == {p \in Records : p[1] = Len(p) - 1}

(* The lists of s, put together, are x: sum[k] is what they are from the    *)
(* k-th on.                                                                 *)
IsJoin(sum, s) ==
    /\ sum \in [1..Len(s) + 1 -> Seq(Byte)] /\ sum[Len(s) + 1] = <<>>
    /\ \A k \in 1..Len(s) : sum[k] = s[k] \o sum[k + 1]
Joined(s, x) == \E sum : IsJoin(sum, s) /\ sum[1] = x

OrderInv ==
    /\ sessions \in Nat \ {0}
    /\ sessions = 1 =>
         /\ dispatched \in Seq(Packets)
         /\ \E rest \in Seq(Packets), left, unread \in Seq(Byte) :
               /\ sent = dispatched \o rest
               /\ Joined(rest, left) /\ Joined(records, unread)
               /\ left = readDataCunks \o unread

LEMMA Associative ==
  ASSUME NEW a \in Seq(Byte), NEW b \in Seq(Byte), NEW c \in Seq(Byte)
  PROVE  (a \o b) \o c = a \o (b \o c)
<1>1. /\ a \o b \in Seq(Byte) /\ b \o c \in Seq(Byte)
      /\ Len(a \o b) = Len(a) + Len(b) /\ Len(b \o c) = Len(b) + Len(c)
      /\ \A k \in 1..Len(a) + Len(b) : (a \o b)[k] = IF k <= Len(a) THEN a[k] ELSE b[k - Len(a)]
      /\ \A k \in 1..Len(b) + Len(c) : (b \o c)[k] = IF k <= Len(b) THEN b[k] ELSE c[k - Len(b)]
  BY ConcatProperties
<1> QED BY <1>1

LEMMA JoinedNone == Joined(<<>>, <<>>) /\ \A x : Joined(<<>>, x) => x = <<>>
<1> DEFINE sum == [k \in 1..1 |-> <<>>]
<1>1. sum \in [1..1 -> Seq(Byte)] /\ sum[1] = <<>> /\ Len(<<>>) = 0
  OBVIOUS
<1> HIDE DEF sum
<1>2. IsJoin(sum, <<>>)
  BY <1>1 DEF IsJoin
<1>3. ASSUME NEW g, IsJoin(g, <<>>) PROVE g[1] = <<>>
  BY <1>1, <1>3 DEF IsJoin
<1> QED BY <1>1, <1>2, <1>3 DEF Joined

LEMMA JoinedOne ==
  ASSUME NEW x \in Seq(Byte)
  PROVE  Joined(<<x>>, x)
<1> DEFINE sum == [k \in 1..2 |-> IF k = 1 THEN x ELSE <<>>]
<1>1. x \o <<>> = x
  BY ConcatEmptySeq
<1>2. sum \in [1..2 -> Seq(Byte)] /\ sum[2] = <<>> /\ sum[1] = x
  OBVIOUS
<1> HIDE DEF sum
<1>3. IsJoin(sum, <<x>>)
  <2>1. Len(<<x>>) = 1 /\ <<x>>[1] = x /\ \A k \in 1..1 : k = 1
    OBVIOUS
  <2>2. sum[1] = <<x>>[1] \o sum[1 + 1]
    BY <1>1, <1>2
  <2> DEFINE s == <<x>>
  <2>3. Len(s) = 1 /\ sum[1] = s[1] \o sum[1 + 1] /\ \A k \in 1..1 : k = 1
    BY <2>1, <2>2
  <2> HIDE DEF s
  <2>4. sum \in [1..Len(s) + 1 -> Seq(Byte)] /\ sum[Len(s) + 1] = <<>>
    BY <1>2, <2>3
  <2>5. \A k \in 1..Len(s) : sum[k] = s[k] \o sum[k + 1]
    BY <2>3
  <2>6. IsJoin(sum, s)
    BY <2>4, <2>5 DEF IsJoin
  <2> QED BY <2>6 DEF s
<1> QED BY <1>2, <1>3 DEF Joined

LEMMA JoinedMore ==
  ASSUME NEW s \in Seq(Seq(Byte)), NEW t \in Seq(Seq(Byte)), NEW x, NEW y, Joined(s, x), Joined(t, y)
  PROVE  Joined(s \o t, x \o y)
<1>1. PICK sum : IsJoin(sum, s) /\ sum[1] = x
  BY DEF Joined
<1>2. PICK g : IsJoin(g, t) /\ g[1] = y
  BY DEF Joined
<1> DEFINE m == Len(s)
           n == Len(t)
           st == s \o t
           h == [k \in 1..m + n + 1 |-> IF k <= m THEN sum[k] \o y ELSE g[k - m]]
<1>3. m \in Nat /\ n \in Nat /\ Len(st) = m + n
      /\ (\A k \in 1..m : st[k] = s[k] /\ s[k] \in Seq(Byte))
      /\ (\A k \in m + 1..m + n : st[k] = t[k - m])
  OBVIOUS
<1>4. sum \in [1..m + 1 -> Seq(Byte)] /\ sum[m + 1] = <<>> /\ \A k \in 1..m : sum[k] = s[k] \o sum[k + 1]
  BY <1>1 DEF IsJoin
<1>5. g \in [1..n + 1 -> Seq(Byte)] /\ g[n + 1] = <<>> /\ \A k \in 1..n : g[k] = t[k] \o g[k + 1]
  BY <1>2 DEF IsJoin
<1> HIDE DEF m, n, st
<1>6. y \in Seq(Byte)
  BY <1>2, <1>3, <1>5
<1>7. h \in [1..m + n + 1 -> Seq(Byte)]
  <2>1. ASSUME NEW k \in 1..m + n + 1, k <= m PROVE sum[k] \o y \in Seq(Byte)
    <3>1. sum[k] \in Seq(Byte)
      BY <1>3, <1>4, <2>1
    <3> QED BY <1>6, <3>1, ConcatProperties
  <2>2. ASSUME NEW k \in 1..m + n + 1, ~(k <= m) PROVE g[k - m] \in Seq(Byte)
    BY <1>3, <1>5, <2>2
  <2> QED BY <2>1, <2>2
<1>8. /\ \A k \in 1..m : h[k] = sum[k] \o y
      /\ \A k \in m + 1..m + n + 1 : h[k] = g[k - m]
  <2>1. \A k \in 1..m : k \in 1..m + n + 1 /\ k <= m
    BY <1>3
  <2>2. \A k \in m + 1..m + n + 1 : k \in 1..m + n + 1 /\ ~(k <= m)
    BY <1>3
  <2>3. \A k \in 1..m : h[k] = sum[k] \o y
    BY <2>1, Zenon
  <2>4. \A k \in m + 1..m + n + 1 : h[k] = g[k - m]
    BY <2>2, Zenon
  <2> QED BY <2>3, <2>4
<1> HIDE DEF h
<1>9. ASSUME NEW k \in m + 1..m + n + 1 PROVE h[k] = g[k - m]
  BY <1>8
<1>10. h[m + n + 1] = <<>> /\ h[m + 1] = y
  <2>1. PICK k : k = m + n + 1
    OBVIOUS
  <2>2. k \in m + 1..m + n + 1 /\ k - m = n + 1
    BY <1>3, <2>1
  <2>3. h[k] = g[n + 1]
    BY <1>9, <2>2
  <2>4. PICK l : l = m + 1
    OBVIOUS
  <2>5. l \in m + 1..m + n + 1 /\ l - m = 1
    BY <1>3, <2>4
  <2>6. h[l] = g[1]
    BY <1>9, <2>5
  <2> QED BY <1>2, <1>5, <2>1, <2>3, <2>4, <2>6
<1>11. ASSUME NEW k \in 1..m PROVE h[k] = st[k] \o h[k + 1]
  <2>0. k + 1 \in 1..m + 1
    BY <1>3
  <2>1. s[k] \in Seq(Byte) /\ sum[k + 1] \in Seq(Byte) /\ st[k] = s[k] /\ sum[k] = s[k] \o sum[k + 1]
    <3>1. sum[k + 1] \in Seq(Byte)
      BY <1>4, <2>0
    <3> QED BY <1>3, <1>4, <3>1
  <2>2. h[k] = s[k] \o (sum[k + 1] \o y)
    <3>1. (s[k] \o sum[k + 1]) \o y = s[k] \o (sum[k + 1] \o y)
      BY <1>6, <2>1, Associative
    <3> QED BY <1>8, <2>1, <3>1
  <2>3. CASE k = m
    <3>1. sum[k + 1] \o y = y
      BY <1>4, <1>6, <2>3, ConcatEmptySeq
    <3> QED BY <1>10, <2>1, <2>2, <2>3, <3>1
  <2>4. CASE k # m
    <3>1. k + 1 \in 1..m
      BY <1>3, <2>4
    <3> QED BY <1>8, <2>1, <2>2, <3>1
  <2> QED BY <2>3, <2>4
<1>12. ASSUME NEW k \in m + 1..m + n PROVE h[k] = st[k] \o h[k + 1]
  <2>1. k - m \in 1..n /\ k \in m + 1..m + n + 1 /\ k + 1 \in m + 1..m + n + 1 /\ (k + 1) - m = (k - m) + 1
    BY <1>3
  <2>2. g[k - m] = t[k - m] \o g[(k - m) + 1]
    BY <1>5, <2>1
  <2> QED BY <1>3, <1>8, <2>1, <2>2
<1>13. \A k \in 1..m + n : k \in 1..m \/ k \in m + 1..m + n
  BY <1>3
<1>14. IsJoin(h, st)
  BY <1>3, <1>7, <1>10, <1>11, <1>12, <1>13 DEF IsJoin
<1>15. h[1] = x \o y
  <2>1. CASE m = 0
    <3>1. h[1] = y /\ x = <<>>
      BY <1>1, <1>4, <1>10, <2>1
    <3> QED BY <1>6, <3>1, ConcatEmptySeq
  <2>2. CASE m # 0
    <3>1. 1 \in 1..m
      BY <1>3, <2>2
    <3> QED BY <1>1, <1>8, <3>1
  <2> QED BY <2>1, <2>2
<1> QED BY <1>14, <1>15 DEF Joined, st

(* The first of them comes first.                                           *)
LEMMA JoinedFirst ==
  ASSUME NEW s \in Seq(Seq(Byte)), s # <<>>, NEW x, Joined(s, x)
  PROVE  \E y \in Seq(Byte) : Joined(Tail(s), y) /\ x = Head(s) \o y
<1>1. PICK sum : IsJoin(sum, s) /\ sum[1] = x
  BY DEF Joined
<1> DEFINE m == Len(s)
           t == Tail(s)
           g == [k \in 1..m |-> sum[k + 1]]
<1>2. m \in Nat /\ m >= 1 /\ Len(t) = m - 1 /\ Head(s) = s[1] /\ \A k \in 1..m - 1 : t[k] = s[k + 1]
  OBVIOUS
<1>3. sum \in [1..m + 1 -> Seq(Byte)] /\ sum[m + 1] = <<>> /\ \A k \in 1..m : sum[k] = s[k] \o sum[k + 1]
  BY <1>1 DEF IsJoin
<1> HIDE DEF m, t
<1>4. \A k \in 1..m : g[k] = sum[k + 1] /\ k + 1 \in 1..m + 1 /\ sum[k + 1] \in Seq(Byte)
  BY <1>2, <1>3
<1>5. g \in [1..m -> Seq(Byte)]
  BY <1>4
<1> HIDE DEF g
<1>6. g[m] = <<>> /\ g[1] = sum[2] /\ m \in 1..m /\ 1 \in 1..m
  BY <1>2, <1>3, <1>4
<1>7. ASSUME NEW k \in 1..m - 1 PROVE g[k] = t[k] \o g[k + 1]
  <2>1. k \in 1..m /\ k + 1 \in 1..m
    BY <1>2
  <2>2. sum[k + 1] = s[k + 1] \o sum[(k + 1) + 1]
    BY <1>3, <2>1
  <2>3. g[k] = sum[k + 1] /\ g[k + 1] = sum[(k + 1) + 1]
    BY <1>4, <2>1
  <2> QED BY <1>2, <2>2, <2>3
<1>8. IsJoin(g, t)
  <2>1. Len(t) + 1 = m
    BY <1>2
  <2> QED BY <1>2, <1>5, <1>6, <1>7, <2>1 DEF IsJoin
<1>9. x = s[1] \o g[1]
  <2>1. sum[1] = s[1] \o sum[1 + 1]
    BY <1>3, <1>6
  <2> QED BY <1>1, <1>6, <2>1
<1> QED BY <1>2, <1>5, <1>6, <1>8, <1>9 DEF Joined, t

LEMMA Couple ==
  ASSUME NEW S, NEW a \in S, NEW b \in S
  PROVE  <<a>> \in Seq(S) /\ <<a, b>> \in Seq(S) /\ <<a>> \o <<b>> = <<a, b>>
<1> DEFINE s == <<a>>
           t == <<b>>
           c == <<a, b>>
<1>1. s \in Seq(S) /\ t \in Seq(S) /\ Len(s) = 1 /\ Len(t) = 1 /\ s[1] = a /\ t[1] = b
  OBVIOUS
<1>2. c \in Seq(S) /\ Len(c) = 2 /\ c[1] = a /\ c[2] = b
  OBVIOUS
<1> HIDE DEF s, t, c
<1>3. s \o t \in Seq(S) /\ Len(s \o t) = 2 /\ (s \o t)[1] = a /\ (s \o t)[2] = b
  <2>1. /\ s \o t \in Seq(S) /\ Len(s \o t) = Len(s) + Len(t)
        /\ \A i \in 1..Len(s) + Len(t) : (s \o t)[i] = IF i <= Len(s) THEN s[i] ELSE t[i - Len(s)]
    BY <1>1, ConcatProperties
  <2>2. Len(s) + Len(t) = 2 /\ 1 \in 1..2 /\ 2 \in 1..2 /\ 1 <= Len(s) /\ ~(2 <= Len(s)) /\ 2 - Len(s) = 1
    BY <1>1
  <2> QED BY <1>1, <2>1, <2>2
<1>4. s \o t = c
  BY <1>2, <1>3
<1> QED BY <1>1, <1>2, <1>4 DEF s, t, c

LEMMA AppendJoins ==
  ASSUME NEW S, NEW s \in Seq(S), NEW p \in S
  PROVE  Append(s, p) = s \o <<p>>
OBVIOUS

LEMMA NextPacket ==
  ASSUME NEW d \in Seq(Packets), NEW p \in Packets, NEW t \in Seq(Packets)
  PROVE  d \o (<<p>> \o t) = Append(d, p) \o t /\ Append(d, p) \in Seq(Packets)
<1> DEFINE u == <<p>>
<1>1. u \in Seq(Packets) /\ Append(d, p) = d \o u /\ Append(d, p) \in Seq(Packets)
  OBVIOUS
<1> HIDE DEF u
<1>2. d \o (u \o t) = (d \o u) \o t
  OBVIOUS
<1> QED BY <1>1, <1>2 DEF u

LEMMA PacketsAreLists == Seq(Packets) \subseteq Seq(Seq(Byte)) /\ Seq(Records) \subseteq Seq(Seq(Byte))
<1>1. Packets \subseteq Seq(Byte) /\ Records \subseteq Seq(Byte)
  BY DEF Packets, Records
<1> QED BY <1>1

LEMMA PacketsSent ==
  ASSUME NEW len \in Byte, NEW value \in Byte
  PROVE  Packet(len, value) \in Packets
<1>1. Packet(len, value) \in Records /\ len \in Nat
  BY PacketTyped, ByteAssumption
<1> DEFINE a == <<len>>
           b == [i \in 1..len |-> value]
<1>2. a \in Seq(Byte) /\ b \in Seq(Byte) /\ Len(a) = 1 /\ Len(b) = len /\ a[1] = len
  BY <1>1
<1>3. Packet(len, value) = a \o b
  BY DEF Packet
<1> HIDE DEF a, b
<1>4. Len(a \o b) = 1 + len
  <2>1. Len(a \o b) = Len(a) + Len(b)
    BY <1>2, ConcatProperties, Zenon
  <2> QED BY <1>2, <2>1
<1>5. (a \o b)[1] = len
  <2>1. 1 \in 1..Len(a) + Len(b) /\ 1 <= Len(a)
    BY <1>1, <1>2
  <2> QED BY <1>2, <2>1, ConcatProperties
<1> DEFINE p == a \o b
<1> HIDE DEF p
<1>6. p \in Records /\ Len(p) = 1 + len /\ p[1] = len
  BY <1>1, <1>3, <1>4, <1>5 DEF p
<1>7. p \in Packets
  BY <1>1, <1>6 DEF Packets
<1> QED BY <1>3, <1>7 DEF p

(* What is sent comes behind what was sent, in packets and in records.      *)
LEMMA SendsKeep ==
  ASSUME FramingInv, OrderInv, NEW more \in Seq(Packets), NEW new \in Seq(Records), NEW x \in Seq(Byte),
         Joined(more, x), Joined(new, x), sent' = sent \o more, records' = records \o new,
         UNCHANGED <<readDataCunks, dispatched, sessions>>
  PROVE  OrderInv'
<1>1. CASE sessions # 1
  BY <1>1 DEF OrderInv
<1>2. CASE sessions = 1
  <2>1. PICK rest \in Seq(Packets), left \in Seq(Byte), unread \in Seq(Byte) :
               /\ sent = dispatched \o rest
               /\ Joined(rest, left) /\ Joined(records, unread)
               /\ left = readDataCunks \o unread
    BY <1>2 DEF OrderInv
  <2>2. dispatched \in Seq(Packets) /\ sessions \in Nat \ {0}
    BY <1>2 DEF OrderInv
  <2>3. sent' = dispatched \o (rest \o more) /\ rest \o more \in Seq(Packets)
    <3>1. PICK d \in Seq(Packets) : d = dispatched
      BY <2>2
    <3>2. (d \o rest) \o more = d \o (rest \o more)
      OBVIOUS
    <3>3. rest \o more \in Seq(Packets)
      OBVIOUS
    <3>4. sent' = (d \o rest) \o more
      BY <2>1, <3>1
    <3> QED BY <3>1, <3>2, <3>3, <3>4
  <2>4. /\ Joined(rest \o more, left \o x) /\ left \o x \in Seq(Byte)
        /\ Joined(records', unread \o x) /\ unread \o x \in Seq(Byte)
    <3>1. rest \in Seq(Seq(Byte)) /\ more \in Seq(Seq(Byte)) /\ records \in Seq(Seq(Byte)) /\ new \in Seq(Seq(Byte))
      BY PacketsAreLists DEF FramingInv
    <3> QED BY <2>1, <3>1, JoinedMore
  <2>5. left \o x = readDataCunks' \o (unread \o x)
    BY <2>1, Associative DEF FramingInv
  <2> QED BY <2>2, <2>3, <2>4, <2>5 DEF OrderInv
<1> QED BY <1>1, <1>2

LEMMA SendKeepsOrder ==
  ASSUME FramingInv, OrderInv, SendWhole \/ SendLengthFirst \/ SendTogether
  PROVE  OrderInv'
<1>0. records \in Seq(Records)
  BY DEF FramingInv
<1>1. CASE SendWhole
  <2>1. PICK len \in Byte, value \in Byte :
           Sends(<<Packet(len, value)>>) /\ records' = Append(records, Packet(len, value))
    BY <1>1 DEF SendWhole
  <2>2. Packet(len, value) \in Packets /\ Packet(len, value) \in Records /\ Packet(len, value) \in Seq(Byte)
    BY PacketsSent DEF Packets, Records
  <2> DEFINE p == Packet(len, value)
  <2> HIDE DEF p
  <2>3. p \in Packets /\ p \in Records /\ p \in Seq(Byte) /\ sent' = sent \o <<p>> /\ records' = records \o <<p>>
        /\ UNCHANGED <<readDataCunks, dispatched, sessions>>
    BY <1>0, <2>1, <2>2 DEF p, Sends
  <2>4. <<p>> \in Seq(Packets) /\ <<p>> \in Seq(Records) /\ Joined(<<p>>, p)
    BY <2>3, JoinedOne
  <2> QED BY <2>3, <2>4, SendsKeep
<1>2. CASE SendLengthFirst
  <2>1. PICK len \in Byte, value \in Byte :
           /\ len > 0
           /\ Sends(<<Packet(len, value)>>)
           /\ records' = records \o <<<<len>>, [i \in 1..len |-> value]>>
    BY <1>2 DEF SendLengthFirst
  <2> DEFINE p == Packet(len, value)
             a == <<len>>
             b == [i \in 1..len |-> value]
  <2>2. p \in Packets /\ p = a \o b
    BY PacketsSent DEF Packet
  <2>3. a \in Records /\ b \in Records
    BY <2>1, PacketTyped
  <2>4. sent' = sent \o <<p>> /\ records' = records \o <<a, b>> /\ UNCHANGED <<readDataCunks, dispatched, sessions>>
    BY <2>1 DEF Sends
  <2> HIDE DEF p, a, b
  <2>5. p \in Seq(Byte) /\ a \in Seq(Byte) /\ b \in Seq(Byte)
    BY <2>2, <2>3 DEF Packets, Records
  <2>6. <<p>> \in Seq(Packets) /\ <<a, b>> \in Seq(Records) /\ Joined(<<p>>, p)
    <3>1. <<p>> \in Seq(Packets)
      BY <2>2, Couple
    <3>2. <<a, b>> \in Seq(Records)
      BY <2>3, Couple
    <3> QED BY <2>5, <3>1, <3>2, JoinedOne
  <2>7. Joined(<<a, b>>, a \o b)
    <3>1. Joined(<<a>>, a) /\ Joined(<<b>>, b) /\ <<a>> \in Seq(Seq(Byte)) /\ <<b>> \in Seq(Seq(Byte))
      BY <2>5, JoinedOne
    <3>2. <<a>> \o <<b>> = <<a, b>>
      BY <2>5, Couple
    <3> QED BY <3>1, <3>2, JoinedMore
  <2> QED BY <2>2, <2>4, <2>5, <2>6, <2>7, SendsKeep
<1>3. CASE SendTogether
  <2>1. PICK len1, value1, len2, value2 \in Byte :
        /\ Sends(<<Packet(len1, value1), Packet(len2, value2)>>)
        /\ records' = Append(records, Packet(len1, value1) \o Packet(len2, value2))
    BY <1>3 DEF SendTogether
  <2> DEFINE p == Packet(len1, value1)
             q == Packet(len2, value2)
  <2>2. p \in Packets /\ q \in Packets
    BY PacketsSent
  <2>3. sent' = sent \o <<p, q>> /\ records' = Append(records, p \o q) /\ UNCHANGED <<readDataCunks, dispatched, sessions>>
    BY <2>1 DEF Sends
  <2> HIDE DEF p, q
  <2>4. p \in Seq(Byte) /\ q \in Seq(Byte) /\ Len(p) > 0
    BY <2>2 DEF Packets, Records
  <2>5. p \o q \in Records /\ p \o q \in Seq(Byte)
    BY <2>4 DEF Records
  <2> DEFINE pq == p \o q
  <2> HIDE DEF pq
  <2>6. records' = records \o <<pq>> /\ <<pq>> \in Seq(Records) /\ Joined(<<pq>>, pq)
    <3>1. pq \in Records /\ pq \in Seq(Byte) /\ records' = Append(records, pq)
      BY <2>3, <2>5 DEF pq
    <3>2. Append(records, pq) = records \o <<pq>>
      BY <1>0, <3>1, AppendJoins
    <3>3. <<pq>> \in Seq(Records)
      BY <3>1, Couple
    <3> QED BY <3>1, <3>2, <3>3, JoinedOne
  <2>7. <<p, q>> \in Seq(Packets)
    BY <2>2
  <2>8. Joined(<<p, q>>, pq)
    <3>1. Joined(<<p>>, p) /\ Joined(<<q>>, q) /\ <<p>> \in Seq(Seq(Byte)) /\ <<q>> \in Seq(Seq(Byte))
      BY <2>4, JoinedOne
    <3>2. <<p>> \o <<q>> = <<p, q>>
      BY <2>4, Couple
    <3> QED BY <3>1, <3>2, JoinedMore DEF pq
  <2>9. pq \in Seq(Byte)
    BY <2>5 DEF pq
  <2> QED BY <2>3, <2>6, <2>7, <2>8, <2>9, SendsKeep
<1> QED BY <1>1, <1>2, <1>3

(* Two ways to cut a list that cut off as much are the same.                *)
LEMMA SameCut ==
  ASSUME NEW a \in Seq(Byte), NEW b \in Seq(Byte), NEW x \in Seq(Byte), NEW y \in Seq(Byte),
         Len(a) = Len(b), a \o x = b \o y
  PROVE  a = b /\ x = y
<1>1. /\ Len(a \o x) = Len(a) + Len(x) /\ Len(b \o y) = Len(b) + Len(y)
      /\ \A k \in 1..Len(a) + Len(x) : (a \o x)[k] = IF k <= Len(a) THEN a[k] ELSE x[k - Len(a)]
      /\ \A k \in 1..Len(b) + Len(y) : (b \o y)[k] = IF k <= Len(b) THEN b[k] ELSE y[k - Len(b)]
  BY ConcatProperties
<1>2. Len(a) \in Nat /\ Len(x) \in Nat /\ Len(y) = Len(x)
  BY <1>1
<1>3. ASSUME NEW k \in 1..Len(a) PROVE a[k] = b[k]
  <2>1. k \in 1..Len(a) + Len(x) /\ k \in 1..Len(b) + Len(y) /\ k <= Len(a) /\ k <= Len(b)
    BY <1>2
  <2> QED BY <1>1, <2>1
<1>4. ASSUME NEW k \in 1..Len(x) PROVE x[k] = y[k]
  <2>1. PICK j : j = k + Len(a)
    OBVIOUS
  <2>2. j \in 1..Len(a) + Len(x) /\ j \in 1..Len(b) + Len(y) /\ ~(j <= Len(a)) /\ j - Len(a) = k /\ j - Len(b) = k
    BY <1>2, <2>1
  <2>3. (a \o x)[j] = x[k] /\ (b \o y)[j] = y[k]
    BY <1>1, <2>2
  <2> QED BY <2>3
<1>5. a = b
  BY <1>3
<1>6. x = y
  BY <1>2, <1>4
<1> QED BY <1>5, <1>6

(* What is read of the first record and what is left of it                  *)
LEMMA ReadJoins ==
  ASSUME NEW record \in Records
  PROVE  \E y \in Seq(Byte) : Joined(Rest(record), y) /\ record = Chunk(record) \o y
<1>0. Len(record) \in Nat /\ Len(record) > 0 /\ record \in Seq(Byte) /\ ReadSize \in Nat \ {0}
  BY ReadSizeAssumption DEF Records
<1>1. CASE Len(record) <= ReadSize
  <2>1. Rest(record) = <<>> /\ Chunk(record) = record
    BY <1>1 DEF Rest, Chunk
  <2>2. record = record \o <<>> /\ <<>> \in Seq(Byte)
    BY <1>0
  <2> QED BY <2>1, <2>2, JoinedNone
<1>2. CASE Len(record) > ReadSize
  <2> DEFINE y == SubSeq(record, ReadSize + 1, Len(record))
  <2>1. Rest(record) = <<y>> /\ Chunk(record) = SubSeq(record, 1, ReadSize)
    BY <1>0, <1>2 DEF Rest, Chunk
  <2>2. y \in Seq(Byte) /\ SubSeq(record, 1, ReadSize) \in Seq(Byte)
    BY <1>0, <1>2
  <2>3. SubSeq(record, 1, ReadSize) \o y = record
    <3>1. 1 \in 1..Len(record) + 1 /\ ReadSize \in (1 - 1)..Len(record) /\ Len(record) \in ReadSize..Len(record)
      BY <1>0, <1>2
    <3>2. SubSeq(record, 1, ReadSize) \o y = SubSeq(record, 1, Len(record))
      BY <1>0, <3>1, ConcatAdjacentSubSeq
    <3>3. SubSeq(record, 1, Len(record)) = record
      BY <1>0
    <3> QED BY <3>2, <3>3
  <2> QED BY <2>1, <2>2, <2>3, JoinedOne
<1> QED BY <1>0, <1>1, <1>2

LEMMA ReadKeepsOrder ==
  ASSUME FramingInv, FramingInv', OrderInv, Read
  PROVE  OrderInv'
<1>1. CASE sessions # 1
  BY <1>1 DEF OrderInv, Read
<1>2. CASE sessions = 1
  <2>1. PICK rest \in Seq(Packets), left \in Seq(Byte), unread \in Seq(Byte) :
               /\ sent = dispatched \o rest
               /\ Joined(rest, left) /\ Joined(records, unread)
               /\ left = readDataCunks \o unread
    BY <1>2 DEF OrderInv
  <2>2. dispatched \in Seq(Packets) /\ sessions \in Nat \ {0} /\ sessions' = sessions /\ sent' = sent
    BY <1>2 DEF OrderInv, Read
  <2> DEFINE r == Head(records)
             others == Tail(records)
             c == Chunk(r)
             buffer == readDataCunks \o c
  <2>3. records \in Seq(Records) /\ records # <<>> /\ r \in Records /\ others \in Seq(Records)
        /\ records' = Rest(r) \o others /\ readDataCunks \in Seq(Byte)
    BY DEF FramingInv, Read
  <2>4. c \in Records /\ Rest(r) \in Seq(Records) /\ c \in Seq(Byte) /\ buffer \in Seq(Byte)
    BY <2>3, ReadTyped DEF Records
  <2>5. PICK z \in Seq(Byte) : Joined(others, z) /\ unread = r \o z
    <3>1. records \in Seq(Seq(Byte))
      BY <2>3, PacketsAreLists
    <3> QED BY <2>1, <2>3, <3>1, JoinedFirst
  <2>6. PICK y \in Seq(Byte) : Joined(Rest(r), y) /\ r = c \o y
    BY <2>3, ReadJoins
  <2>7. Joined(records', y \o z) /\ y \o z \in Seq(Byte)
    <3>1. Rest(r) \in Seq(Seq(Byte)) /\ others \in Seq(Seq(Byte))
      BY <2>3, <2>4, PacketsAreLists
    <3>2. Joined(Rest(r) \o others, y \o z)
      BY <2>5, <2>6, <3>1, JoinedMore
    <3>3. y \o z \in Seq(Byte)
      OBVIOUS
    <3> QED BY <2>3, <3>2, <3>3
  <2>8. Dispatch(buffer)
    BY DEF Read
  <2> HIDE DEF r, others, c
  <2>9. left = buffer \o (y \o z)
    <3>1. unread = c \o (y \o z)
      <4>1. PICK d \in Seq(Byte) : d = c
        BY <2>4
      <4>2. (d \o y) \o z = d \o (y \o z)
        BY Associative
      <4>3. unread = (d \o y) \o z
        BY <2>5, <2>6, <4>1
      <4> QED BY <4>1, <4>2, <4>3
    <3>2. readDataCunks \o (c \o (y \o z)) = (readDataCunks \o c) \o (y \o z)
      <4>1. PICK yz \in Seq(Byte) : yz = y \o z
        BY <2>7
      <4>2. PICK d \in Seq(Byte) : d = c
        BY <2>4
      <4>3. PICK b \in Seq(Byte) : b = readDataCunks
        BY <2>3
      <4>4. b \o (d \o yz) = (b \o d) \o yz
        BY Associative
      <4> QED BY <4>1, <4>2, <4>3, <4>4
    <3> QED BY <2>1, <3>1, <3>2
  <2> HIDE DEF buffer
  <2>10. CASE ~IsWhole(buffer)
    <3>1. readDataCunks' = buffer /\ dispatched' = dispatched
      BY <2>8, <2>10 DEF Dispatch
    <3> QED BY <2>1, <2>2, <2>7, <2>9, <3>1 DEF OrderInv
  <2>11. CASE IsWhole(buffer)
    <3>1. readDataCunks' = <<>> /\ dispatched' = Append(dispatched, buffer)
      BY <2>8, <2>11 DEF Dispatch
    <3>2. buffer # <<>> /\ Len(buffer) \in Nat /\ Len(buffer) > 0 /\ buffer[1] = Len(buffer) - 1
      BY <2>4, <2>11 DEF IsWhole
    <3>3. rest # <<>>
      <4>1. Len(left) > 0
        BY <2>4, <2>7, <2>9, <3>2
      <4>2. left # <<>>
        BY <4>1
      <4> QED BY <2>1, <4>2, JoinedNone
    <3> DEFINE p == Head(rest)
               more == Tail(rest)
    <3>4. p \in Packets /\ more \in Seq(Packets) /\ rest = <<p>> \o more
      BY <3>3
    <3>5. PICK w \in Seq(Byte) : Joined(more, w) /\ left = p \o w
      <4>1. rest \in Seq(Seq(Byte))
        BY PacketsAreLists
      <4> QED BY <2>1, <3>3, <4>1, JoinedFirst
    <3> HIDE DEF p, more
    <3>6. p \in Seq(Byte) /\ Len(p) \in Nat /\ Len(p) > 0 /\ p[1] = Len(p) - 1
      BY <3>4 DEF Packets, Records
    <3>7. left[1] = buffer[1] /\ left[1] = p[1]
      <4>1. left[1] = buffer[1]
        BY <2>4, <2>7, <2>9, <3>2
      <4>2. left[1] = p[1]
        BY <3>5, <3>6
      <4> QED BY <4>1, <4>2
    <3>8. buffer = p /\ y \o z = w
      <4>1. Len(buffer) = Len(p)
        BY <3>2, <3>6, <3>7
      <4> QED BY <2>4, <2>7, <2>9, <3>5, <3>6, <4>1, SameCut
    <3>9. sent = Append(dispatched, p) \o more /\ Append(dispatched, p) \in Seq(Packets)
      <4>1. dispatched \o (<<p>> \o more) = Append(dispatched, p) \o more /\ Append(dispatched, p) \in Seq(Packets)
        <5>1. PICK d \in Seq(Packets) : d = dispatched
          BY <2>2
        <5>2. PICK q \in Packets : q = p
          BY <3>4
        <5>3. PICK t \in Seq(Packets) : t = more
          BY <3>4
        <5>4. d \o (<<q>> \o t) = Append(d, q) \o t /\ Append(d, q) \in Seq(Packets)
          BY NextPacket
        <5> QED BY <5>1, <5>2, <5>3, <5>4
      <4> QED BY <2>1, <3>4, <4>1
    <3>10. <<>> \o w = w /\ w \in Seq(Byte)
      OBVIOUS
    <3> QED BY <2>2, <2>7, <3>1, <3>4, <3>5, <3>8, <3>9, <3>10 DEF OrderInv
  <2> QED BY <2>10, <2>11
<1> QED BY <1>1, <1>2

(* Until a session is lost the packets are handed on in the order in which  *)
(* they were sent, whole and once, for every size of a read, every set of   *)
(* bytes and every way to cut the stream into records.                      *)
THEOREM PacketsInOrder == Spec => []InOrder
<1>1. Init => OrderInv
  <2> SUFFICES ASSUME Init PROVE OrderInv
    OBVIOUS
  <2> DEFINE none == <<>>
  <2>1. none \in Seq(Packets) /\ none \in Seq(Byte) /\ none \o none = none
    OBVIOUS
  <2>2. sent = none /\ dispatched = none /\ records = none /\ readDataCunks = none /\ sessions = 1
    BY DEF Init
  <2>3. Joined(none, none)
    BY JoinedNone
  <2> HIDE DEF none
  <2> QED BY <2>1, <2>2, <2>3 DEF OrderInv
<1>2. FramingInv /\ FramingInv' /\ OrderInv /\ [Next]_vars => OrderInv'
  <2> SUFFICES ASSUME FramingInv, FramingInv', OrderInv, [Next]_vars PROVE OrderInv'
    OBVIOUS
  <2>1. CASE SendWhole \/ SendLengthFirst \/ SendTogether
    BY <2>1, SendKeepsOrder
  <2>2. CASE SessionLost
    <3>1. sessions \in Nat \ {0} /\ sessions' = sessions + 1
      BY <2>2 DEF SessionLost, OrderInv
    <3>2. sessions' \in Nat \ {0} /\ sessions' # 1
      BY <3>1
    <3> QED BY <3>2 DEF OrderInv
  <2>3. CASE Read
    BY <2>3, ReadKeepsOrder
  <2>4. CASE UNCHANGED vars
    BY <2>4 DEF vars, OrderInv
  <2> QED BY <2>1, <2>2, <2>3, <2>4 DEF Next
<1>3. OrderInv => InOrder
  <2> SUFFICES ASSUME OrderInv, sessions = 1 PROVE IsPrefix(dispatched, sent)
    BY DEF InOrder
  <2>1. PICK rest \in Seq(Packets) : dispatched \in Seq(Packets) /\ sent = dispatched \o rest
    BY DEF OrderInv
  <2> QED BY <2>1 DEF IsPrefix
<1> QED BY <1>1, <1>2, <1>3, FramingInvariance, PTL DEF Spec

-----------------------------------------------------------------------------
(* PairingEncoding for every length of the two names                        *)

(* The message fits its buffer exactly when the request is short.           *)
LEMMA EncodesIffShort ==
  ASSUME NEW service \in Nat, NEW name \in Nat
  PROVE  Encodes(service, name) <=> RequestSize(service, name) < 128
<1> DEFINE vs == VarintSize(service)
           vn == VarintSize(name)
           size == 2 + vs + service + vn + name
<1>1. vs \in 1..5 /\ vn \in 1..5 /\ (vs = 1 <=> service < 128) /\ (vn = 1 <=> name < 128)
  BY DEF VarintSize
<1>2. RequestSize(service, name) = size
  BY <1>1 DEF RequestSize, FieldSize
<1>3. size \in Nat
  BY <1>1
<1>4. VarintSize(size) \in 1..5 /\ (VarintSize(size) = 1 <=> size < 128)
  BY <1>3 DEF VarintSize
<1>5. Encodes(service, name) <=> 6 + VarintSize(size) + size <= service + name + 11
  BY <1>2, <1>3, <1>4 DEF Encodes, MessageSize, FieldSize, BufferSize
<1>6. Encodes(service, name) <=> VarintSize(size) + vs + vn <= 3
  BY <1>1, <1>3, <1>4, <1>5
<1> QED
  BY <1>1, <1>2, <1>3, <1>4, <1>6

(* No message that fits needs more than one byte for its length.            *)
LEMMA LengthFitsByte ==
  ASSUME NEW service \in Nat, NEW name \in Nat, Encodes(service, name)
  PROVE  MessageSize(service, name) \in 1..255
<1>1. RequestSize(service, name) < 128
  BY EncodesIffShort
<1>2. RequestSize(service, name) \in Nat
  BY DEF RequestSize, FieldSize, VarintSize
<1> QED
  BY <1>1, <1>2 DEF MessageSize, FieldSize, VarintSize

(* A run of n bytes is a sequence of length n.                              *)
LEMMA RunOfBytes ==
  ASSUME NEW n \in Nat
  PROVE  /\ [i \in 1..n |-> Data] \in Seq({Data})
         /\ Len([i \in 1..n |-> Data]) = n
  OBVIOUS

(* What encodeMessegToSend returns for a message of at most 255 bytes.      *)
LEMMA EncodedPacket ==
  ASSUME NEW data \in Seq({Data}), Len(data) \in 1..255
  PROVE  /\ encodeMessegToSend(data) = <<Len(data)>> \o data
         /\ encodeMessegToSend(data) \in Seq(0..255)
         /\ Len(encodeMessegToSend(data)) = Len(data) + 1
         /\ encodeMessegToSend(data)[1] = Len(data)
<1> DEFINE n == Len(data)
           long == <<n>> \o Append(data, 0)
           whole == <<n>> \o data
<1>1. n \in 1..255 /\ n \in 0..255 /\ n \in Nat
  OBVIOUS
<1>2. n % 256 = n
  <2>1. \A k \in 0..255 : k % 256 = k
    OBVIOUS
  <2> QED
    BY <1>1, <2>1
<1>3. data \in Seq(0..255) /\ Append(data, 0) \in Seq(0..255) /\ Len(Append(data, 0)) = n + 1
  BY DEF Data
<1>4. <<n>> \in Seq(0..255) /\ Len(<<n>>) = 1
  BY <1>1
<1>5. long \in Seq(0..255) /\ Len(long) = n + 2
  BY <1>1, <1>3, <1>4, ConcatProperties
<1>6. whole \in Seq(0..255) /\ Len(whole) = n + 1 /\ whole[1] = n
  BY <1>1, <1>3, <1>4, ConcatProperties
<1>7. \A i \in 1..n + 1 : long[i] = whole[i]
  BY <1>1, <1>3
<1>8. encodeMessegToSend(data) = SubSeq(long, 1, n + 1)
  BY <1>2 DEF encodeMessegToSend
<1> HIDE DEF long, whole
<1>9. /\ SubSeq(long, 1, n + 1) \in Seq(0..255)
      /\ Len(SubSeq(long, 1, n + 1)) = n + 1
      /\ \A i \in 1..n + 1 : SubSeq(long, 1, n + 1)[i] = long[i]
  BY <1>1, <1>5
<1>10. SubSeq(long, 1, n + 1) = whole
  BY <1>6, <1>7, <1>9, SeqEqual
<1> QED
  BY <1>6, <1>8, <1>10 DEF whole

EncodingInv ==
    /\ client \in Nat
    /\ stage \in {"create", "encoded", "packed"}
    /\ message \in Seq({Data})
    /\ stage = "create" => packet = <<>>
    /\ stage = "encoded" => /\ packet = <<>>
                         /\ RequestSize(ServiceName, client) < 128
                         /\ Len(message) \in 1..255
    /\ stage = "packed" /\ packet # <<>> =>
         /\ RequestSize(ServiceName, client) < 128
         /\ packet = <<Len(message)>> \o message
         /\ packet[1] = Len(packet) - 1
    /\ stage = "packed" /\ packet = <<>> => ~(RequestSize(ServiceName, client) < 128)

LEMMA EncodingInvariance == EncodingSpec => []EncodingInv
<1> USE ServiceNameAssumption, MaxHostnameAssumption
<1>1. EncodingInit => EncodingInv
  BY DEF EncodingInit, EncodingInv
<1>2. EncodingInv /\ [EncodingNext]_encodingVars => EncodingInv'
  <2> SUFFICES ASSUME EncodingInv, [EncodingNext]_encodingVars PROVE EncodingInv'
    OBVIOUS
  <2>1. CASE Encode
    <3>1. CASE Encodes(ServiceName, client)
      <4>1. /\ RequestSize(ServiceName, client) < 128
            /\ MessageSize(ServiceName, client) \in 1..255
        BY <3>1, EncodesIffShort, LengthFitsByte DEF EncodingInv
      <4>2. message' \in Seq({Data}) /\ Len(message') = MessageSize(ServiceName, client)
        <5>1. message' = [i \in 1..MessageSize(ServiceName, client) |-> Data]
          BY <2>1, <3>1 DEF Encode, Bytes
        <5>2. MessageSize(ServiceName, client) \in Nat
          BY <4>1
        <5> QED
          BY <5>1, <5>2, RunOfBytes
      <4> QED
        BY <2>1, <3>1, <4>1, <4>2 DEF Encode, EncodingInv
    <3>2. CASE ~Encodes(ServiceName, client)
      <4>1. ~(RequestSize(ServiceName, client) < 128)
        BY <3>2, EncodesIffShort DEF EncodingInv
      <4> QED
        BY <2>1, <3>2, <4>1 DEF Encode, EncodingInv
    <3> QED
      BY <3>1, <3>2
  <2>2. CASE Pack
    <3>1. /\ packet' = <<Len(message)>> \o message
          /\ Len(packet') = Len(message) + 1
          /\ packet'[1] = Len(message)
          /\ packet' # <<>>
      BY <2>2, EncodedPacket DEF Pack, EncodingInv
    <3>2. /\ client' = client /\ message' = message /\ stage' = "packed"
          /\ RequestSize(ServiceName, client) < 128
      BY <2>2 DEF Pack, EncodingInv
    <3>3. packet'[1] = Len(packet') - 1
      BY <3>1 DEF EncodingInv
    <3> QED
      BY <3>1, <3>2, <3>3 DEF EncodingInv
  <2>3. CASE Again
    BY <2>3 DEF Again, EncodingInv
  <2>4. CASE UNCHANGED encodingVars
    BY <2>4 DEF encodingVars, EncodingInv
  <2> QED
    BY <2>1, <2>2, <2>3, <2>4 DEF EncodingNext
<1> QED
  BY <1>1, <1>2, PTL DEF EncodingSpec

(* For every length of the two names, the length byte holds the length.     *)
THEOREM LengthByteHolds == EncodingSpec => []LengthIsHonest
<1>1. EncodingInv => LengthIsHonest
  BY DEF EncodingInv, LengthIsHonest
<1> QED
  BY <1>1, EncodingInvariance, PTL

(* For every length of the two names, there is a packet exactly when the    *)
(* request takes less than 128 bytes.                                       *)
THEOREM ShortNamesEncode == EncodingSpec => []EncodesShortNames
<1>1. EncodingInv => EncodesShortNames
  BY DEF EncodingInv, EncodesShortNames
<1> QED
  BY <1>1, EncodingInvariance, PTL

-----------------------------------------------------------------------------
(* SelfCertificate for every set of key pairs, every limit of open files    *)
(* and every number of faults.  The inductive invariant adds to the         *)
(* properties what makeNewSelfCertificate holds at each of its steps, and   *)
(* that it only runs while there is no whole private key, so that the key on*)
(* the flash is always younger than the certificate beside it.              *)

HeapInv ==
    /\ pc \notin MakeSteps => heap = {}
    /\ pc = "initRng" => heap \subseteq {"scratch"}
    /\ pc = "initKey" => heap \subseteq {"scratch", "rng"}
    /\ leaked \subseteq {"unmounted"}

Signed == {"signCert", "openCert", "writeCert", "openKey", "writeKey"}

FilesInv ==
    /\ pc \in Signed => pair \in KeyPair
    /\ ~writeFailed /\ ~misjudged =>
          /\ pc \in MakeSteps \cup {"make"} => ~Complete(priKey)
          /\ pc \in {"openKey", "writeKey"} => cert = pair
          /\ Complete(priKey) => cert = priKey

CertificateInv == CertificateTypeOK /\ HeapInv /\ FilesInv

(* The counters stay within their bounds.                                   *)
LEMMA FaultTyped == faults \in 0..MaxFaults /\ Fault => faults' \in 0..MaxFaults
  BY MaxFaultsAssumption DEF Fault

LEMMA NoneTyped == 0 \in 0..MaxOpenFiles /\ 0 \in 0..MaxFaults
  BY MaxOpenFilesAssumption, MaxFaultsAssumption

(* The initial state satisfies the inductive invariant.                     *)
LEMMA InitCertificateInv == CertificateInit => CertificateInv
<1> SUFFICES ASSUME CertificateInit PROVE CertificateInv
  OBVIOUS
<1>1. CertificateTypeOK
  BY NoneTyped DEF CertificateInit, CertificateTypeOK, Contents, PCs
<1>2. HeapInv /\ FilesInv
  BY KeyPairAssumption DEF CertificateInit, HeapInv, FilesInv, MakeSteps, Signed, Complete
<1> QED
  BY <1>1, <1>2 DEF CertificateInv

(* A failure of any callee of makeNewSelfCertificate keeps the invariant.   *)
LEMMA MakeFailsStep ==
  ASSUME CertificateInv,
         \/ MakeFails("initRng", {"scratch"})
         \/ MakeFails("initKey", {"scratch", "rng"})
         \/ \E step \in {"setNonBlock", "makeRsaKey", "signCert", "openCert", "openKey"} :
                MakeFails(step, HeapObjects)
  PROVE  CertificateInv'
<1>1. heap' = {} /\ leaked' \subseteq {"unmounted"}
  BY DEF CertificateInv, CertificateTypeOK, HeapInv, MakeFails, Frees, HeapObjects
<1>2. pc' = "loadCert" /\ Fault
  BY DEF MakeFails, MakeReturns
<1>3. UNCHANGED <<files, mounted, openFiles, ctx, pair, misjudged>>
  BY DEF MakeFails
<1>4. CertificateTypeOK'
  BY <1>1, <1>2, <1>3, FaultTyped DEF CertificateInv, CertificateTypeOK, files, Contents, PCs
<1>5. HeapInv'
  BY <1>1, <1>2 DEF HeapInv, MakeSteps
<1>6. FilesInv'
  BY <1>2, <1>3 DEF CertificateInv, FilesInv, MakeSteps, Signed, files, Complete
<1> QED
  BY <1>4, <1>5, <1>6 DEF CertificateInv

(* One step keeps the inductive invariant.                                  *)
LEMMA NextCertificateInv == CertificateInv /\ [CertificateNext]_certificateVars => CertificateInv'
<1> SUFFICES ASSUME CertificateInv, [CertificateNext]_certificateVars PROVE CertificateInv'
  OBVIOUS
<1> USE KeyPairAssumption, MaxOpenFilesAssumption, MaxFaultsAssumption
<1> USE DEF CertificateInv, CertificateTypeOK, HeapInv, FilesInv, Contents, PCs, MakeSteps, Signed, HeapObjects,
            files, memory, Complete, HasContents, NoFault
<1>1. CASE BeginCtx
  <2>1. CertificateTypeOK'
    BY <1>1, FaultTyped, NoneTyped DEF BeginCtx
  <2>2. HeapInv'
    BY <1>1 DEF BeginCtx
  <2>3. FilesInv'
    BY <1>1 DEF BeginCtx
  <2> QED
    BY <2>1, <2>2, <2>3
<1>2. CASE haveSelfCertificate
  <2>1. CertificateTypeOK'
    BY <1>2, FaultTyped DEF haveSelfCertificate, FilesSeen, FilesFound
  <2>2. HeapInv'
    BY <1>2 DEF haveSelfCertificate, FilesSeen, FilesFound
  <2>3. pc' \in {"loadCert", "make"}
    BY <1>2 DEF haveSelfCertificate, FilesSeen, FilesFound
  <2>4. ASSUME ~writeFailed', ~misjudged'
        PROVE  /\ pc' = "make" => ~Complete(priKey')
               /\ Complete(priKey') => cert' = priKey'
    <3>1. CASE UNCHANGED <<cert, priKey>>
      BY <1>2, <2>4, <3>1 DEF haveSelfCertificate
    <3>2. CASE cert' = "absent" /\ priKey' = "absent"
      BY <3>2
    <3> QED
      BY <1>2, <3>1, <3>2 DEF haveSelfCertificate, FilesSeen
  <2> QED
    BY <2>1, <2>2, <2>3, <2>4
<1>3. CASE MakeBegin
  <2>1. CertificateTypeOK'
    <3>1. heap' \subseteq HeapObjects /\ leaked' \subseteq HeapObjects \cup {"unmounted"}
      BY <1>3 DEF MakeBegin
    <3>2. pc' \in {"initRng", "loadCert"} /\ mounted' \in BOOLEAN
      BY <1>3 DEF MakeBegin, MakeReturns
    <3>3. faults' \in 0..MaxFaults
      BY <1>3, FaultTyped DEF MakeBegin
    <3> QED
      BY <1>3, <3>1, <3>2, <3>3 DEF MakeBegin
  <2>2. HeapInv'
    BY <1>3 DEF MakeBegin, MakeReturns
  <2>3. FilesInv'
    BY <1>3 DEF MakeBegin, MakeReturns
  <2> QED
    BY <2>1, <2>2, <2>3
<1>4. CASE InitRng
  BY <1>4 DEF InitRng, MakeStep
<1>5. CASE InitKey
  BY <1>5 DEF InitKey, MakeStep
<1>6. CASE SetNonBlock
  BY <1>6 DEF SetNonBlock, MakeStep
<1>7. CASE MakeRsaKey
  BY <1>7 DEF MakeRsaKey, MakeStep
<1>8. CASE SignCert
  BY <1>8 DEF SignCert, MakeStep
<1>9. CASE OpenCert
  BY <1>9 DEF OpenCert, MakeStep
<1>10. CASE WriteCert
  BY <1>10 DEF WriteCert, MakeStep
<1>11. CASE OpenKey
  BY <1>11 DEF OpenKey, MakeStep
<1>12. CASE WriteKey
  BY <1>12 DEF WriteKey, KeyWritten, Frees, MakeReturns
<1>13. CASE WriteCertFails
  BY <1>13, FaultTyped DEF WriteCertFails
<1>14. CASE WriteKeyFails
  BY <1>14, FaultTyped DEF WriteKeyFails, KeyWritten, Frees, MakeReturns
<1>15. CASE RngFails \/ KeyInitFails \/ LateStepFails
  BY <1>15, MakeFailsStep DEF RngFails, KeyInitFails, LateStepFails
<1>16. CASE LoadCert
  BY <1>16, FaultTyped DEF LoadCert, CanOpen, Loadable
<1>17. CASE LoadKey
  BY <1>17, FaultTyped DEF LoadKey
<1>18. CASE PowerCut
  <2>1. CertificateTypeOK'
    BY <1>18, FaultTyped, NoneTyped DEF PowerCut
  <2>2. HeapInv'
    BY <1>18 DEF PowerCut
  <2>3. FilesInv'
    BY <1>18 DEF PowerCut
  <2> QED
    BY <2>1, <2>2, <2>3
<1>19. CASE UNCHANGED certificateVars
  BY <1>19 DEF certificateVars
<1> QED
  BY <1>1, <1>2, <1>3, <1>4, <1>5, <1>6, <1>7, <1>8, <1>9, <1>10, <1>11, <1>12,
     <1>13, <1>14, <1>15, <1>16, <1>17, <1>18, <1>19
     DEF CertificateNext, Call, Make, CalleeFails

(* The inductive invariant holds in every reachable state.                  *)
LEMMA CertificateInvariance == CertificateSpec => []CertificateInv
  BY InitCertificateInv, NextCertificateInv, PTL DEF CertificateSpec

(* Every variable keeps its type.                                           *)
THEOREM TypeCorrect == CertificateSpec => []CertificateTypeOK
<1>1. CertificateInv => CertificateTypeOK
  BY DEF CertificateInv
<1> QED
  BY <1>1, CertificateInvariance, PTL

(* No exit of makeNewSelfCertificate but the one on a failed mount leaves   *)
(* anything allocated, for every sequence of failures.                      *)
THEOREM EveryExitFrees == CertificateSpec => []ExitsFree
<1>1. CertificateInv => ExitsFree
  BY DEF CertificateInv, HeapInv, ExitsFree
<1> QED
  BY <1>1, CertificateInvariance, PTL

(* Without a failed write and without a pair taken for missing, two whole   *)
(* files belong together after every sequence of power cuts.                *)
THEOREM FilesMatch == CertificateSpec => []PairMatches
<1>1. CertificateInv => PairMatches
  BY DEF CertificateInv, FilesInv, PairMatches
<1> QED
  BY <1>1, CertificateInvariance, PTL

-----------------------------------------------------------------------------
(* Discovery for every network: any hosts, addresses, names and bounds      *)

Answers == TvAnswers \cup CastAnswers

ScanInv ==
    /\ tvList \in Seq(DiscoveredTv)
    /\ OneEntryPerIp
    /\ query = "start" => tvList = <<>>
    /\ answers \in Seq(Answers)
    /\ query = "tv" => answers \in Seq(TvAnswers)
    /\ query = "cast" => answers \in Seq(CastAnswers)

LEMMA BoundedSeqIsSeq ==
  ASSUME NEW S, NEW n \in Nat
  PROVE  BoundedSeq(S, n) \subseteq Seq(S)
<1> SUFFICES ASSUME NEW m \in 0..n, NEW s \in [1..m -> S]
             PROVE  s \in Seq(S)
  BY DEF BoundedSeq, SeqOf
<1> QED
  BY IsASeq

(* A new entry goes to the end, and only when its address is new.           *)
LEMMA AddTvStep ==
  ASSUME ScanInv, NEW tv \in DiscoveredTv
  PROVE  /\ AddTv(tv) \in Seq(DiscoveredTv)
         /\ \A i, j \in DOMAIN AddTv(tv) : AddTv(tv)[i].ip = AddTv(tv)[j].ip => i = j
         /\ tvList # <<>> => AddTv(tv) # <<>> /\ AddTv(tv)[1] = tvList[1]
<1>1. CASE Listed(tv)
  BY <1>1 DEF AddTv, ScanInv, OneEntryPerIp
<1>2. CASE ~Listed(tv)
  <2> DEFINE n == Len(tvList)
             more == Append(tvList, tv)
  <2>1. n \in Nat /\ DOMAIN tvList = 1..n
    BY DEF ScanInv
  <2>2. more \in Seq(DiscoveredTv) /\ Len(more) = n + 1 /\ DOMAIN more = 1..n + 1
    BY DEF ScanInv
  <2>3. more[n + 1] = tv /\ \A i \in 1..n : more[i] = tvList[i]
    BY <2>1 DEF ScanInv
  <2>4. ASSUME NEW i \in 1..n + 1, NEW j \in 1..n + 1, more[i].ip = more[j].ip
        PROVE  i = j
    <3>1. CASE i \in 1..n /\ j \in 1..n
      BY <2>1, <2>3, <2>4, <3>1 DEF ScanInv, OneEntryPerIp
    <3>2. CASE i = n + 1 /\ j = n + 1
      BY <3>2
    <3>3. CASE i \in 1..n /\ j = n + 1
      BY <1>2, <2>1, <2>3, <2>4, <3>3 DEF Listed
    <3>4. CASE i = n + 1 /\ j \in 1..n
      BY <1>2, <2>1, <2>3, <2>4, <3>4 DEF Listed
    <3> QED
      BY <2>1, <3>1, <3>2, <3>3, <3>4
  <2>5. tvList # <<>> => 1 \in 1..n
    BY <2>1 DEF ScanInv
  <2>6. more # <<>>
    BY <2>1, <2>2
  <2>7. AddTv(tv) = more
    BY <1>2 DEF AddTv
  <2> HIDE DEF more
  <2> QED
    BY <2>2, <2>3, <2>4, <2>5, <2>6, <2>7
<1> QED
  BY <1>1, <1>2

(* A step keeps the invariant, and the first entry while a scan runs.       *)
FirstStays == tvList' # <<>> /\ tvList'[1].ip = tvList[1].ip
                             /\ tvList'[1].hostName = tvList[1].hostName

LEMMA Step ==
  ASSUME ScanInv, [ScanNext]_scanVars
  PROVE  ScanInv' /\ (tvList # <<>> /\ query # "done" => FirstStays)
<1>1. CASE scanForTvs
  BY <1>1 DEF scanForTvs, ScanInv, OneEntryPerIp
<1>2. CASE BrowseTv
  <2>1. answers' \in Seq(TvAnswers) /\ answers' \in Seq(Answers)
    BY <1>2, BoundedSeqIsSeq, BoundsAssumption DEF BrowseTv, Answers
  <2> QED
    BY <1>2, <2>1 DEF BrowseTv, ScanInv, OneEntryPerIp, FirstStays
<1>3. CASE BrowseCast
  <2>1. answers' \in Seq(CastAnswers) /\ answers' \in Seq(Answers)
    BY <1>3, BoundedSeqIsSeq, BoundsAssumption DEF BrowseCast, Answers
  <2> QED
    BY <1>3, <2>1 DEF BrowseCast, ScanInv, OneEntryPerIp, FirstStays
<1>4. CASE ResolveTv
  <2>1. answers \in Seq(TvAnswers) /\ answers # <<>>
    BY <1>4 DEF ResolveTv, ScanInv
  <2>2. Head(answers) \in TvAnswers
    BY <2>1
  <2>3. PICK found \in BOOLEAN, foundAfterProbe \in BOOLEAN :
           tvList' = AddTv([hostName |-> Head(answers).hostName, ip |-> Head(answers).ip,
                            ipMac |-> getMacFromIp(found, foundAfterProbe),
                            friendlyName |-> NoName])
    BY <1>4 DEF ResolveTv
  <2>4. [hostName |-> Head(answers).hostName, ip |-> Head(answers).ip,
         ipMac |-> getMacFromIp(found, foundAfterProbe), friendlyName |-> NoName] \in DiscoveredTv
    BY <2>2 DEF TvAnswers, DiscoveredTv, getMacFromIp
  <2>5. answers' \in Seq(TvAnswers) /\ answers' \in Seq(Answers)
    BY <1>4, <2>1 DEF ResolveTv, Answers
  <2>6. /\ tvList' \in Seq(DiscoveredTv)
        /\ OneEntryPerIp'
        /\ tvList # <<>> => tvList' # <<>> /\ tvList'[1] = tvList[1]
    BY <2>3, <2>4, AddTvStep DEF OneEntryPerIp
  <2> QED
    BY <1>4, <2>5, <2>6 DEF ResolveTv, ScanInv, FirstStays
<1>5. CASE ResolveCast
  <2>1. answers \in Seq(CastAnswers) /\ answers # <<>>
    BY <1>5 DEF ResolveCast, ScanInv
  <2>2. Head(answers) \in CastAnswers
    BY <2>1
  <2>3. answers' \in Seq(CastAnswers) /\ answers' \in Seq(Answers)
    BY <1>5, <2>1 DEF ResolveCast, Answers
  <2>4. tvList' = [i \in DOMAIN tvList |->
                     IF i \in FirstWithIp(Head(answers).ip) /\ Head(answers).friendlyName # NoName
                     THEN [tvList[i] EXCEPT !.friendlyName = Head(answers).friendlyName]
                     ELSE tvList[i]]
    BY <1>5 DEF ResolveCast
  <2>5. DOMAIN tvList = 1..Len(tvList) /\ Len(tvList) \in Nat
    BY DEF ScanInv
  <2>6. DOMAIN tvList' = DOMAIN tvList
    BY <2>4
  <2>7. \A i \in DOMAIN tvList : /\ tvList'[i] \in DiscoveredTv
                                 /\ tvList'[i].ip = tvList[i].ip
                                 /\ tvList'[i].hostName = tvList[i].hostName
    <3> SUFFICES ASSUME NEW i \in DOMAIN tvList
                 PROVE  /\ tvList'[i] \in DiscoveredTv
                        /\ tvList'[i].ip = tvList[i].ip
                        /\ tvList'[i].hostName = tvList[i].hostName
      OBVIOUS
    <3>1. tvList[i] \in DiscoveredTv
      BY <2>5 DEF ScanInv
    <3>2. \/ tvList'[i] = tvList[i]
          \/ tvList'[i] = [tvList[i] EXCEPT !.friendlyName = Head(answers).friendlyName]
      BY <2>4
    <3> QED
      BY <2>2, <3>1, <3>2 DEF DiscoveredTv, CastAnswers
  <2>8. tvList' \in Seq(DiscoveredTv) /\ Len(tvList') = Len(tvList)
    BY <2>4, <2>5, <2>6, <2>7, IsASeq
  <2>9. OneEntryPerIp'
    BY <2>6, <2>7 DEF ScanInv, OneEntryPerIp
  <2>10. tvList # <<>> => FirstStays
    BY <2>5, <2>7, <2>8 DEF ScanInv, FirstStays
  <2> QED
    BY <1>5, <2>3, <2>8, <2>9, <2>10 DEF ResolveCast, ScanInv
<1>6. CASE NextQuery
  BY <1>6 DEF NextQuery, ScanInv, OneEntryPerIp, FirstStays
<1>7. CASE UNCHANGED scanVars
  BY <1>7 DEF scanVars, ScanInv, OneEntryPerIp, FirstStays
<1> QED
  BY <1>1, <1>2, <1>3, <1>4, <1>5, <1>6, <1>7 DEF ScanNext

LEMMA ScanInvariance == ScanSpec => []ScanInv
<1>1. ScanInit => ScanInv
  BY DEF ScanInit, ScanInv, OneEntryPerIp
<1> QED
  BY <1>1, Step, PTL DEF ScanSpec

(* No address is ever listed twice.                                         *)
THEOREM NoDuplicates == ScanSpec => []OneEntryPerIp
<1>1. ScanInv => OneEntryPerIp
  BY DEF ScanInv
<1> QED
  BY <1>1, ScanInvariance, PTL

(* The TV that was found first stays first.                                 *)
THEOREM FirstTvStays == ScanSpec => FirstStaysFirst
<1>1. ScanInv /\ [ScanNext]_scanVars => [tvList # <<>> /\ query # "done" => FirstStays]_scanVars
  BY Step
<1> QED
  BY <1>1, ScanInvariance, PTL DEF ScanSpec, FirstStaysFirst, FirstStays

-----------------------------------------------------------------------------
(* What is listed, against what was heard                                   *)

Entry(i) == [hostName |-> tvList[i].hostName, ip |-> tvList[i].ip]

ListedIp(ip) == \E i \in DOMAIN tvList : tvList[i].ip = ip

(* While a query's answers are looked at, those of them that are left were  *)
(* heard; a TV that was heard is listed or still to be looked at.           *)
HInv ==
    /\ heard \subseteq Answers
    /\ query \notin {"tv", "cast"} => answers = <<>>
    /\ \A k \in DOMAIN answers : answers[k] \in heard
    /\ \A i \in DOMAIN tvList : Entry(i) \in heard
    /\ \A a \in heard \cap TvAnswers :
          ListedIp(a.ip) \/ (query = "tv" /\ \E k \in DOMAIN answers : answers[k] = a)
    /\ NameFollowsIp

LEMMA KindsDiffer == TvAnswers \cap CastAnswers = {}
<1> SUFFICES ASSUME NEW a \in TvAnswers, a \in CastAnswers PROVE FALSE
  OBVIOUS
<1>1. DOMAIN a = {"hostName", "ip"}
  BY DEF TvAnswers
<1>2. DOMAIN a = {"ip", "friendlyName"}
  BY DEF CastAnswers
<1> QED BY <1>1, <1>2

LEMMA QueryHears ==
  ASSUME ScanInv, HInv, BrowseTv \/ BrowseCast
  PROVE  HInv'
<1>1. CASE BrowseTv
  <2>1. answers' \in Seq(TvAnswers)
    BY <1>1, BoundedSeqIsSeq, BoundsAssumption DEF BrowseTv
  <2>2. \A k \in DOMAIN answers' : answers'[k] \in TvAnswers
    BY <2>1
  <2>3. heard' = heard \cup {answers'[i] : i \in DOMAIN answers'} /\ tvList' = tvList
        /\ query' = "tv" /\ query = "browseTv"
    BY <1>1 DEF BrowseTv
  <2>4. heard' \subseteq Answers
    BY <2>2, <2>3 DEF HInv, Answers
  <2>5. \A a \in heard' \cap TvAnswers :
          ListedIp(a.ip)' \/ (query' = "tv" /\ \E k \in DOMAIN answers' : answers'[k] = a)
    BY <2>3 DEF HInv, ListedIp
  <2> QED BY <2>3, <2>4, <2>5 DEF HInv, Entry, NameFollowsIp
<1>2. CASE BrowseCast
  <2>1. answers' \in Seq(CastAnswers)
    BY <1>2, BoundedSeqIsSeq, BoundsAssumption DEF BrowseCast
  <2>2. \A k \in DOMAIN answers' : answers'[k] \in CastAnswers
    BY <2>1
  <2>3. heard' = heard \cup {answers'[i] : i \in DOMAIN answers'} /\ tvList' = tvList
        /\ query' = "cast" /\ query = "browseCast"
    BY <1>2 DEF BrowseCast
  <2>4. heard' \subseteq Answers
    BY <2>2, <2>3 DEF HInv, Answers
  <2>5. heard' \cap TvAnswers = heard \cap TvAnswers
    BY <2>2, <2>3, KindsDiffer
  <2>6. \A a \in heard' \cap TvAnswers : ListedIp(a.ip)'
    BY <2>3, <2>5 DEF HInv, ListedIp
  <2> QED BY <2>3, <2>4, <2>6 DEF HInv, Entry, NameFollowsIp
<1> QED BY <1>1, <1>2

(* The rest of the answers                                                  *)
LEMMA TailIsHeard ==
  ASSUME NEW s \in Seq(Answers), s # <<>>
  PROVE  /\ \A k \in DOMAIN Tail(s) : \E j \in DOMAIN s : s[j] = Tail(s)[k]
         /\ \A k \in DOMAIN s : s[k] = Head(s) \/ \E j \in DOMAIN Tail(s) : Tail(s)[j] = s[k]
         /\ 1 \in DOMAIN s /\ s[1] = Head(s)
<1>1. Len(s) \in Nat /\ Len(s) >= 1 /\ DOMAIN s = 1..Len(s)
  OBVIOUS
<1>2. DOMAIN Tail(s) = 1..Len(s) - 1 /\ \A j \in 1..Len(s) - 1 : Tail(s)[j] = s[j + 1]
  BY <1>1
<1>3. \A k \in 2..Len(s) : k - 1 \in 1..Len(s) - 1 /\ Tail(s)[k - 1] = s[k]
  BY <1>1, <1>2
<1>4. \A j \in 1..Len(s) - 1 : j + 1 \in 1..Len(s)
  BY <1>1
<1>5. \A k \in 1..Len(s) : k = 1 \/ k \in 2..Len(s)
  BY <1>1
<1>6. s[1] = Head(s) /\ 1 \in 1..Len(s)
  BY <1>1
<1> QED BY <1>1, <1>2, <1>3, <1>4, <1>5, <1>6

LEMMA ResolveLists ==
  ASSUME ScanInv, HInv, ResolveTv
  PROVE  HInv'
<1> DEFINE a == Head(answers)
<1>1. /\ answers \in Seq(TvAnswers) /\ answers \in Seq(Answers) /\ answers # <<>>
      /\ answers' = Tail(answers) /\ query = "tv" /\ query' = "tv" /\ heard' = heard
  BY DEF ResolveTv, ScanInv
<1>2. a \in TvAnswers /\ a \in heard
  BY <1>1, TailIsHeard DEF HInv
<1>3. PICK found \in BOOLEAN, foundAfterProbe \in BOOLEAN :
         tvList' = AddTv([hostName |-> a.hostName, ip |-> a.ip,
                          ipMac |-> getMacFromIp(found, foundAfterProbe), friendlyName |-> NoName])
  BY DEF ResolveTv
<1> DEFINE tv == [hostName |-> a.hostName, ip |-> a.ip,
                  ipMac |-> getMacFromIp(found, foundAfterProbe), friendlyName |-> NoName]
<1>4. /\ tv.ip = a.ip /\ tv.friendlyName = NoName
      /\ [hostName |-> tv.hostName, ip |-> tv.ip] = a
  BY <1>2 DEF TvAnswers
<1> HIDE DEF a, tv
<1>5. tvList' = AddTv(tv)
  BY <1>3 DEF tv
<1>6. /\ \A k \in DOMAIN answers' : answers'[k] \in heard
      /\ \A k \in DOMAIN answers : answers[k] = a \/ \E j \in DOMAIN answers' : answers'[j] = answers[k]
  BY <1>1, TailIsHeard DEF HInv, a
<1>7. /\ \A i \in DOMAIN tvList : i \in DOMAIN tvList' /\ tvList'[i] = tvList[i]
      /\ \A i \in DOMAIN tvList' : i \in DOMAIN tvList \/ tvList'[i] = tv
      /\ \E i \in DOMAIN tvList' : tvList'[i].ip = a.ip
  <2>1. CASE Listed(tv)
    BY <1>4, <1>5, <2>1 DEF AddTv, Listed
  <2>2. CASE ~Listed(tv)
    <3>1. tvList' = Append(tvList, tv) /\ tvList \in Seq(DiscoveredTv)
      BY <1>5, <2>2 DEF AddTv, ScanInv
    <3>2. Len(tvList) \in Nat /\ DOMAIN tvList = 1..Len(tvList) /\ DOMAIN tvList' = 1..Len(tvList) + 1
      BY <3>1
    <3>3. tvList'[Len(tvList) + 1] = tv /\ \A i \in 1..Len(tvList) : tvList'[i] = tvList[i]
      BY <3>1
    <3> QED BY <1>4, <3>2, <3>3
  <2> QED BY <2>1, <2>2
<1>8. \A i \in DOMAIN tvList' : Entry(i)' \in heard
  BY <1>2, <1>4, <1>7 DEF HInv, Entry
<1>9. NameFollowsIp'
  BY <1>1, <1>4, <1>7 DEF HInv, NameFollowsIp
<1>10. \A b \in heard \cap TvAnswers :
          ListedIp(b.ip)' \/ \E k \in DOMAIN answers' : answers'[k] = b
  BY <1>6, <1>7 DEF HInv, ListedIp
<1> QED BY <1>1, <1>6, <1>8, <1>9, <1>10 DEF HInv

LEMMA ResolveNames ==
  ASSUME ScanInv, HInv, ResolveCast
  PROVE  HInv'
<1> DEFINE a == Head(answers)
<1>1. /\ answers \in Seq(CastAnswers) /\ answers \in Seq(Answers) /\ answers # <<>>
      /\ answers' = Tail(answers) /\ query = "cast" /\ query' = "cast" /\ heard' = heard
  BY DEF ResolveCast, ScanInv
<1>2. a \in CastAnswers /\ a \in heard
  BY <1>1, TailIsHeard DEF HInv
<1>3. a = [ip |-> a.ip, friendlyName |-> a.friendlyName]
  BY <1>2 DEF CastAnswers
<1>4. tvList' = [i \in DOMAIN tvList |->
                   IF i \in FirstWithIp(a.ip) /\ a.friendlyName # NoName
                   THEN [tvList[i] EXCEPT !.friendlyName = a.friendlyName]
                   ELSE tvList[i]]
  BY DEF ResolveCast
<1> HIDE DEF a
<1>5. \A k \in DOMAIN answers' : answers'[k] \in heard
  BY <1>1, TailIsHeard DEF HInv
<1>6. DOMAIN tvList' = DOMAIN tvList
  BY <1>4
<1>7. ASSUME NEW i \in DOMAIN tvList
      PROVE  /\ tvList'[i].ip = tvList[i].ip /\ tvList'[i].hostName = tvList[i].hostName
             /\ \/ tvList'[i].friendlyName = tvList[i].friendlyName
                \/ tvList'[i].friendlyName = a.friendlyName /\ tvList[i].ip = a.ip
  <2>1. tvList[i] \in DiscoveredTv
    BY DEF ScanInv
  <2>2. \/ tvList'[i] = tvList[i]
        \/ tvList'[i] = [tvList[i] EXCEPT !.friendlyName = a.friendlyName] /\ tvList[i].ip = a.ip
    BY <1>4 DEF FirstWithIp
  <2> QED BY <2>1, <2>2 DEF DiscoveredTv
<1>8. \A i \in DOMAIN tvList' : Entry(i)' \in heard
  BY <1>6, <1>7 DEF HInv, Entry
<1>9. NameFollowsIp'
  BY <1>1, <1>2, <1>3, <1>6, <1>7 DEF HInv, NameFollowsIp
<1>10. \A b \in heard \cap TvAnswers : ListedIp(b.ip)'
  BY <1>1, <1>6, <1>7 DEF HInv, ListedIp
<1> QED BY <1>1, <1>5, <1>8, <1>9, <1>10 DEF HInv

LEMMA HStep ==
  ASSUME ScanInv, HInv, [ScanNext]_scanVars
  PROVE  HInv'
<1>1. CASE scanForTvs
  BY <1>1 DEF scanForTvs, HInv, NameFollowsIp
<1>2. CASE NextQuery
  BY <1>2 DEF NextQuery, HInv, Entry, ListedIp, NameFollowsIp
<1>3. CASE UNCHANGED scanVars
  BY <1>3 DEF scanVars, HInv, Entry, ListedIp, NameFollowsIp
<1> QED
  BY <1>1, <1>2, <1>3, QueryHears, ResolveLists, ResolveNames DEF ScanNext

LEMMA HInvariance == ScanSpec => [](ScanInv /\ HInv)
<1>1. ScanInit => HInv
  BY DEF ScanInit, HInv, NameFollowsIp
<1> QED
  BY <1>1, HStep, ScanInvariance, PTL DEF ScanSpec

(* When a scan is done, the addresses in the list are exactly those from    *)
(* which a TV answered in one of the rounds.                                *)
THEOREM NobodyIsMissed == ScanSpec => []HeardIsListed
<1>1. ASSUME ScanInv, HInv, query = "done" PROVE HeardIsListed
  <2> DEFINE entries == {Entry(i) : i \in DOMAIN tvList}
  <2>1. ASSUME NEW i \in DOMAIN tvList
        PROVE  Entry(i) \in heard \cap TvAnswers /\ Entry(i).ip = tvList[i].ip
    <3>1. tvList[i] \in DiscoveredTv
      BY <1>1 DEF ScanInv
    <3>2. Entry(i) \in TvAnswers /\ Entry(i).ip = tvList[i].ip
      BY <3>1 DEF Entry, DiscoveredTv, TvAnswers
    <3> QED BY <1>1, <3>2 DEF HInv
  <2>2. \A b \in heard \cap TvAnswers : ListedIp(b.ip)
    BY <1>1 DEF HInv
  <2>3. {b.ip : b \in heard \cap TvAnswers} = {e.ip : e \in entries}
    BY <2>1, <2>2 DEF ListedIp
  <2>4. entries \subseteq heard
    BY <2>1
  <2> QED BY <2>3, <2>4 DEF HeardIsListed, Entry
<1>2. ScanInv /\ HInv => HeardIsListed
  BY <1>1 DEF HeardIsListed
<1> QED BY <1>2, HInvariance, PTL

(* A friendly name is never put to an address it was not announced for.     *)
THEOREM NamesAreRight == ScanSpec => []NameFollowsIp
<1>1. HInv => NameFollowsIp
  BY DEF HInv
<1> QED BY <1>1, HInvariance, PTL
=============================================================================
