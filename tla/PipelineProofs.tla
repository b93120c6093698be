--------------------------- MODULE PipelineProofs ---------------------------
(***************************************************************************)
(* The safety properties of Pipeline, proved for every length of the       *)
(* segment, every size of a request and every choice of the stages that    *)
(* may panic.  IInv says what is in flight: the packets between two stages *)
(* continue each other without a gap, what ends a stream is its last       *)
(* packet, no buffer is counted twice, and a stage that left had a cause.  *)
(***************************************************************************)
EXTENDS Pipeline, SequenceTheorems, TLAPS

-----------------------------------------------------------------------------
(* A stream of packets.                                                      *)

\* The last unit of a data packet.
LastUnit(p) == p.from + p.count - 1

IsData(p) == p.kind = "data"

\* The stream is closed by a mark.
Ended(s) == s # << >> /\ ~IsData(s[Len(s)])

\* How many buffers the stream holds: all its packets but a closing mark.
Buffers(s) == IF Ended(s) THEN Len(s) - 1 ELSE Len(s)

\* The packets continue each other from unit lo + 1, none beyond hi; only the
\* last one may be a mark.
Flows(s, lo, hi) ==
    /\ lo <= hi
    /\ \A i \in 1 .. Len(s) : IsData(s[i]) =>
         lo < s[i].from /\ s[i].count >= 1 /\ LastUnit(s[i]) <= hi
    /\ \A i \in 1 .. Len(s) : i < Len(s) => IsData(s[i])
    /\ \A i, j \in 1 .. Len(s) : i < j /\ IsData(s[j]) => LastUnit(s[i]) < s[j].from
    /\ \A i \in 1 .. Len(s) : i > 1 /\ IsData(s[i]) => s[i].from = LastUnit(s[i - 1]) + 1
    /\ s # << >> /\ IsData(s[1]) => s[1].from = lo + 1

\* Together they reach hi.
Reaches(s, lo, hi) == IF Buffers(s) = 0 THEN lo = hi ELSE LastUnit(s[Buffers(s)]) = hi

-----------------------------------------------------------------------------
(* The inductive invariant.                                                  *)

Running == writer \in {"loop", "recv", "write"}

\* What the writer took, what left the hash stage, what left the reader.
Taken    == Len(dest) + (IF writer = "write" THEN current.count ELSE 0)
HashedTo == Len(digest) - (IF hasher = "send" THEN atHash.count ELSE 0)
ReadTo   == read - inHand.count

\* Every stage's packet is the one its position calls for.
HandInv ==
    /\ IF reader = "send" THEN inHand.kind \in {"data", "eof", "failed"} ELSE inHand = NoPacket
    /\ inHand.kind = "data" => inHand.count >= 1 /\ inHand.from = ReadTo + 1
    /\ hasher \in {"recv", "exited"} => atHash = NoPacket
    /\ hasher = "send" => atHash.kind # "none"
    /\ hasher = "panicked" => IsData(atHash)
    /\ hasher = "send" /\ IsData(atHash) => atHash.count >= 1 /\ atHash.from = HashedTo + 1
    /\ \A i \in 1 .. Len(filled) : filled[i].kind # "none"
    /\ \A i \in 1 .. Len(hashed) : hashed[i].kind # "none"
    /\ writer = "write" => IsData(current) /\ current.from = Len(dest) + 1
    /\ ~Staged => hasher = "exited" /\ hashed = << >>

\* The streams between the stages.
StreamInv ==
    /\ ~Staged => Len(digest) = read
    /\ ~Staged /\ Running => Flows(filled, Taken, ReadTo)
    /\ Staged /\ Running => Flows(hashed, Taken, HashedTo)
    /\ Staged /\ hasher \in {"recv", "send"} => Flows(filled, Len(digest), ReadTo)

\* While its sender is there, or has closed it, a stream is complete.
WholeInv ==
    /\ ~Staged /\ Running /\ (~Gone(reader) \/ Ended(filled)) => Reaches(filled, Taken, ReadTo)
    /\ Staged /\ Running /\ (~Gone(hasher) \/ Ended(hashed)) => Reaches(hashed, Taken, HashedTo)
    /\ Staged /\ hasher \in {"recv", "send"} /\ (~Gone(reader) \/ Ended(filled))
         => Reaches(filled, Len(digest), ReadTo)

\* A mark is only sent for its cause.
MarkOk(p) ==
    /\ p.kind = "done" => read = Length
    /\ p.kind \in {"eof", "failed"} => read < Length

MarkInv ==
    /\ MarkOk(inHand) /\ MarkOk(atHash)
    /\ \A i \in 1 .. Len(filled) : MarkOk(filled[i])
    /\ \A i \in 1 .. Len(hashed) : MarkOk(hashed[i])
    /\ \A i \in 1 .. Len(filled) : ~IsData(filled[i]) => reader = "exited"
    /\ \A i \in 1 .. Len(hashed) : ~IsData(hashed[i]) =>
         reader = "exited" /\ hasher = "exited" /\ Len(digest) = read
    /\ hasher = "send" /\ ~IsData(atHash) => reader = "exited" /\ Len(digest) = read /\ filled = << >>
    /\ reader \in {"free", "read"} => read < Length
    /\ reader = "done" \/ (reader = "after" /\ ~stopped) => read = Length

\* Why a stage left, and why the call ended.
CauseInv ==
    /\ stopped /\ writer \in {"loop", "recv", "write", "stop"} => canceled
    /\ Running => result = "ok"
    /\ ~Running /\ result = "ok" => Len(dest) = Length
    /\ result \in {"read", "unexpected_eof"} => reader = "exited" /\ read < Length
    /\ Running /\ Gone(reader) => \/ canceled \/ "panicked" \in {reader, hasher}
                                  \/ Ended(filled) \/ Ended(hashed)
                                  \/ hasher = "send" /\ ~IsData(atHash)
    /\ Staged /\ Running /\ hasher = "exited" =>
         canceled \/ reader = "panicked" \/ Ended(hashed)

\* Every buffer is in one place, or lost with a stage that left.
AtReader == IF reader = "read" \/ IsData(inHand) THEN 1 ELSE 0
AtHasher == IF IsData(atHash) THEN 1 ELSE 0
AtWriter == IF writer = "write" THEN 1 ELSE 0
BufferInv == free + AtReader + Buffers(filled) + AtHasher + Buffers(hashed) + AtWriter <= depth

IInv == /\ TypeOK /\ OrderedPrefixes /\ HandInv /\ StreamInv /\ WholeInv
        /\ MarkInv /\ CauseInv /\ BufferInv /\ FailureHasItsCause

-----------------------------------------------------------------------------
(* Packets and streams.                                                      *)

\* What a packet is made of: a mark carries no units.
LEMMA PacketType ==
  ASSUME NEW p \in Packets
  PROVE  /\ p.kind \in {"none", "data", "eof", "failed", "done"}
         /\ p.from \in Nat /\ p.count \in Nat /\ p.count <= Request
         /\ IsData(p) => p.from >= 1
         /\ ~IsData(p) => p.count = 0
         /\ p.kind = "none" => p = NoPacket
BY PipelineAssumption DEF Packets, Packet, Data, Mark, NoPacket, IsData

\* The packets the stages build are packets.
LEMMA MakePacket ==
  /\ \A k \in {"none", "eof", "failed", "done"} : Mark(k) \in Packets /\ Mark(k).kind = k
  /\ NoPacket \in Packets /\ NoPacket.kind = "none" /\ NoPacket.count = 0
  /\ \A f \in 1 .. Length + 1, c \in 0 .. Request :
       /\ Data(f, c) \in Packets /\ IsData(Data(f, c))
       /\ Data(f, c).from = f /\ Data(f, c).count = c
<1>1. \A k \in {"none", "eof", "failed", "done"} : Mark(k) \in Packets /\ Mark(k).kind = k
  BY DEF Packets, NoPacket, Mark, Packet
<1>2. NoPacket \in Packets /\ NoPacket.kind = "none" /\ NoPacket.count = 0
  BY DEF Packets, NoPacket, Mark, Packet
<1>3. ASSUME NEW f \in 1 .. Length + 1, NEW c \in 0 .. Request
      PROVE  /\ Data(f, c) \in Packets /\ IsData(Data(f, c))
             /\ Data(f, c).from = f /\ Data(f, c).count = c
  <2>1. Data(f, c) \in Packets
    BY DEF Packets
  <2> QED
    BY <2>1 DEF Data, Packet, IsData
<1> QED
  BY <1>1, <1>2, <1>3

\* An empty stream flows between any two units and reaches only its start.
LEMMA EmptyStream ==
  ASSUME NEW lo \in Nat, NEW hi \in Nat
  PROVE  /\ lo <= hi => Flows(<< >>, lo, hi)
         /\ Reaches(<< >>, lo, hi) <=> lo = hi
         /\ ~Ended(<< >>) /\ Buffers(<< >>) = 0
BY DEF Flows, Reaches, Ended, Buffers

\* The stages hold what their positions bound from above.
LEMMA StreamFacts ==
  ASSUME NEW s \in Seq(Packets), NEW lo \in Nat, NEW hi \in Nat, Flows(s, lo, hi)
  PROVE  /\ Buffers(s) \in 0 .. Len(s) /\ Len(s) \in Nat
         /\ \A i \in 1 .. Len(s) : s[i] \in Packets
         /\ \A h \in Nat : hi <= h => Flows(s, lo, h)
<1>1. Len(s) \in Nat /\ \A i \in 1 .. Len(s) : s[i] \in Packets
  BY ElementOfSeq, LenProperties
<1>2. \A i \in 1 .. Len(s) : LastUnit(s[i]) \in Int
  BY <1>1, PacketType DEF LastUnit
<1> QED
  BY <1>1, <1>2 DEF Flows, Buffers, Ended

\* A packet that continues a complete stream is sent.
LEMMA AppendData ==
  ASSUME NEW s \in Seq(Packets), NEW lo \in Nat, NEW hi \in Nat, NEW p \in Packets,
         Flows(s, lo, hi), Reaches(s, lo, hi), ~Ended(s),
         IsData(p), p.from = hi + 1, p.count >= 1
  PROVE  /\ Flows(Append(s, p), lo, hi + p.count)
         /\ Reaches(Append(s, p), lo, hi + p.count)
         /\ ~Ended(Append(s, p))
         /\ Buffers(Append(s, p)) = Buffers(s) + 1
<1> DEFINE t == Append(s, p)
           n == Len(s)
<1>1. n \in Nat /\ \A i \in 1 .. n : s[i] \in Packets
  BY ElementOfSeq, LenProperties
<1>2. /\ t \in Seq(Packets) /\ Len(t) = n + 1 /\ t # << >>
      /\ \A i \in 1 .. n : t[i] = s[i]
      /\ t[n + 1] = p
  BY AppendProperties
<1>3. \A i \in 1 .. n : s[i].from \in Nat /\ s[i].count \in Nat /\ LastUnit(s[i]) \in Int
  BY <1>1, PacketType DEF LastUnit
<1>4. p.count \in Nat /\ LastUnit(p) = hi + p.count
  BY PacketType DEF LastUnit
<1>5. n = 0 <=> s = << >>
  BY EmptySeq, <1>1
<1>6. \A i \in 1 .. n : IsData(s[i]) /\ LastUnit(s[i]) <= hi /\ lo < s[i].from
  BY <1>1, <1>5 DEF Ended, Flows
<1>7. n > 0 => LastUnit(s[n]) = hi
  BY <1>1, <1>5 DEF Reaches, Buffers
<1>8. n = 0 => lo = hi
  BY <1>1, <1>5 DEF Reaches, Buffers
<1>9. ~Ended(t) /\ Buffers(t) = n + 1
  BY <1>2, <1>1 DEF Ended, Buffers
<1>10. Buffers(s) = n
  BY <1>1 DEF Buffers
<1>11. Reaches(t, lo, hi + p.count)
  BY <1>9, <1>2, <1>4, <1>1 DEF Reaches
<1>12. Flows(t, lo, hi + p.count)
  <2> lo <= hi
    BY DEF Flows
  <2>1. \A i \in 1 .. Len(t) : IsData(t[i]) => lo < t[i].from /\ t[i].count >= 1 /\ LastUnit(t[i]) <= hi + p.count
    BY <1>1, <1>2, <1>3, <1>4, <1>6 DEF Flows
  <2>2. \A i \in 1 .. Len(t) : i < Len(t) => IsData(t[i])
    BY <1>1, <1>2, <1>6
  <2>3. \A i, j \in 1 .. Len(t) : i < j /\ IsData(t[j]) => LastUnit(t[i]) < t[j].from
    <3> SUFFICES ASSUME NEW i \in 1 .. Len(t), NEW j \in 1 .. Len(t), i < j, IsData(t[j])
                 PROVE  LastUnit(t[i]) < t[j].from
      OBVIOUS
    <3>1. i \in 1 .. n /\ t[i] = s[i]
      BY <1>1, <1>2
    <3>2. CASE j = n + 1
      BY <3>1, <3>2, <1>1, <1>2, <1>3, <1>6
    <3>3. CASE j \in 1 .. n
      BY <3>1, <3>3, <1>2 DEF Flows
    <3> QED
      BY <3>2, <3>3, <1>1, <1>2
  <2>4. \A i \in 1 .. Len(t) : i > 1 /\ IsData(t[i]) => t[i].from = LastUnit(t[i - 1]) + 1
    <3> SUFFICES ASSUME NEW i \in 1 .. Len(t), i > 1, IsData(t[i])
                 PROVE  t[i].from = LastUnit(t[i - 1]) + 1
      OBVIOUS
    <3>1. CASE i = n + 1
      BY <3>1, <1>1, <1>2, <1>7
    <3>2. CASE i <= n
      BY <3>2, <1>1, <1>2 DEF Flows
    <3> QED
      BY <3>1, <3>2, <1>1, <1>2
  <2>5. t # << >> /\ IsData(t[1]) => t[1].from = lo + 1
    BY <1>1, <1>2, <1>5, <1>8 DEF Flows
  <2> QED
    <3>1. lo <= hi + p.count
      BY <1>4
    <3> HIDE DEF t
    <3> QED
      BY <3>1, <2>1, <2>2, <2>3, <2>4, <2>5 DEF Flows
<1> QED
  BY <1>9, <1>10, <1>11, <1>12

\* A complete stream is closed by a mark.
LEMMA AppendMark ==
  ASSUME NEW s \in Seq(Packets), NEW lo \in Nat, NEW hi \in Nat, NEW p \in Packets,
         Flows(s, lo, hi), Reaches(s, lo, hi), ~Ended(s), ~IsData(p)
  PROVE  /\ Flows(Append(s, p), lo, hi)
         /\ Reaches(Append(s, p), lo, hi)
         /\ Ended(Append(s, p))
         /\ Buffers(Append(s, p)) = Buffers(s)
<1> DEFINE t == Append(s, p)
           n == Len(s)
<1>1. n \in Nat /\ \A i \in 1 .. n : s[i] \in Packets
  BY ElementOfSeq, LenProperties
<1>2. /\ t \in Seq(Packets) /\ Len(t) = n + 1 /\ t # << >>
      /\ \A i \in 1 .. n : t[i] = s[i]
      /\ t[n + 1] = p
  BY AppendProperties
<1>3. n = 0 <=> s = << >>
  BY EmptySeq, <1>1
<1>4. Ended(t) /\ Buffers(t) = n /\ Buffers(s) = n
  BY <1>2, <1>1 DEF Ended, Buffers
<1>5. Reaches(t, lo, hi)
  BY <1>4, <1>2, <1>1 DEF Reaches
<1>6. \A i \in 1 .. n : IsData(s[i])
  BY <1>1, <1>3 DEF Ended, Flows
<1>7. Flows(t, lo, hi)
  <2>1. lo <= hi
    BY DEF Flows
  <2>2. \A i \in 1 .. Len(t) : IsData(t[i]) => lo < t[i].from /\ t[i].count >= 1 /\ LastUnit(t[i]) <= hi
    BY <1>1, <1>2 DEF Flows
  <2>3. \A i \in 1 .. Len(t) : i < Len(t) => IsData(t[i])
    BY <1>1, <1>2, <1>6
  <2>4. \A i, j \in 1 .. Len(t) : i < j /\ IsData(t[j]) => LastUnit(t[i]) < t[j].from
    BY <1>1, <1>2 DEF Flows
  <2>5. \A i \in 1 .. Len(t) : i > 1 /\ IsData(t[i]) => t[i].from = LastUnit(t[i - 1]) + 1
    BY <1>1, <1>2 DEF Flows
  <2>6. t # << >> /\ IsData(t[1]) => t[1].from = lo + 1
    BY <1>1, <1>2, <1>3 DEF Flows
  <2> QED
    BY <2>1, <2>2, <2>3, <2>4, <2>5, <2>6 DEF Flows
<1> QED
  BY <1>4, <1>5, <1>7

\* Taking the first data packet moves the start of the stream behind it.
LEMMA TakeData ==
  ASSUME NEW s \in Seq(Packets), NEW lo \in Nat, NEW hi \in Nat,
         Flows(s, lo, hi), s # << >>, IsData(Head(s))
  PROVE  /\ Head(s).from = lo + 1 /\ Head(s).count \in Nat /\ Head(s).count >= 1
         /\ lo + Head(s).count <= hi
         /\ Flows(Tail(s), lo + Head(s).count, hi)
         /\ Reaches(s, lo, hi) => Reaches(Tail(s), lo + Head(s).count, hi)
         /\ Ended(Tail(s)) <=> Ended(s)
         /\ Buffers(Tail(s)) = Buffers(s) - 1
<1> DEFINE t == Tail(s)
           n == Len(s)
           p == Head(s)
<1>1. n \in Nat /\ \A i \in 1 .. n : s[i] \in Packets
  BY ElementOfSeq, LenProperties
<1>2. /\ t \in Seq(Packets) /\ Len(t) = n - 1
      /\ \A i \in 1 .. Len(t) : t[i] = s[i + 1]
  BY HeadTailProperties
<1>3. n > 0 /\ p = s[1]
  BY EmptySeq, <1>1
<1>4. \A i \in 1 .. n : s[i].from \in Nat /\ s[i].count \in Nat /\ LastUnit(s[i]) \in Int
  BY <1>1, PacketType DEF LastUnit
<1>5. /\ p.from = lo + 1 /\ p.count >= 1 /\ p.count \in Nat
      /\ LastUnit(p) = lo + p.count /\ lo + p.count <= hi
  <2>1. 1 \in 1 .. n /\ IsData(s[1])
    BY <1>1, <1>3
  <2>2. s[1].from = lo + 1 /\ s[1].count >= 1 /\ LastUnit(s[1]) <= hi
    BY <2>1 DEF Flows
  <2>3. s[1].from \in Nat /\ s[1].count \in Nat
    BY <2>1, <1>4
  <2>4. LastUnit(s[1]) = lo + s[1].count
    BY <2>2, <2>3 DEF LastUnit
  <2> HIDE DEF p
  <2> QED
    BY <2>2, <2>3, <2>4, <1>3
<1>6. t = << >> <=> n = 1
  <2> HIDE DEF t
  <2>1. t = << >> => Len(t) = 0
    BY EmptySeq
  <2>2. t # << >> => Len(t) # 0
    BY EmptySeq, <1>2
  <2> QED
    BY <2>1, <2>2, <1>1, <1>2
<1>7. Ended(t) <=> Ended(s)
  <2>1. CASE n = 1
    BY <2>1, <1>6, <1>3 DEF Ended
  <2>2. CASE n # 1
    <3>1. t[Len(t)] = s[n]
      BY <2>2, <1>1, <1>2, <1>3
    <3> QED
      BY <3>1, <2>2, <1>6 DEF Ended
  <2> QED
    BY <2>1, <2>2
<1>8. Buffers(t) = Buffers(s) - 1
  BY <1>7, <1>2, <1>1 DEF Buffers
<1>9. Buffers(s) \in 1 .. n
  BY <1>1, <1>3 DEF Buffers, Ended
<1>10. ASSUME Reaches(s, lo, hi) PROVE Reaches(t, lo + p.count, hi)
  <2>1. LastUnit(s[Buffers(s)]) = hi
    BY <1>9, <1>10 DEF Reaches
  <2>2. CASE Buffers(s) = 1
    BY <2>2, <2>1, <1>8, <1>3, <1>5 DEF Reaches
  <2>3. CASE Buffers(s) # 1
    BY <2>1, <2>3, <1>8, <1>9, <1>2, <1>1 DEF Reaches
  <2> QED
    BY <2>2, <2>3
<1>11. Flows(t, lo + p.count, hi)
  <2> DEFINE lo1 == lo + p.count
  <2>2. \A i \in 1 .. Len(t) : IsData(t[i]) => lo1 < t[i].from /\ t[i].count >= 1 /\ LastUnit(t[i]) <= hi
    BY <1>1, <1>2, <1>3, <1>4, <1>5 DEF Flows
  <2>3. \A i \in 1 .. Len(t) : i < Len(t) => IsData(t[i])
    BY <1>1, <1>2 DEF Flows
  <2>4. \A i, j \in 1 .. Len(t) : i < j /\ IsData(t[j]) => LastUnit(t[i]) < t[j].from
    BY <1>1, <1>2 DEF Flows
  <2>5. \A i \in 1 .. Len(t) : i > 1 /\ IsData(t[i]) => t[i].from = LastUnit(t[i - 1]) + 1
    BY <1>1, <1>2 DEF Flows
  <2>6. t # << >> /\ IsData(t[1]) => t[1].from = lo1 + 1
    BY <1>1, <1>2, <1>3, <1>5, <1>6 DEF Flows
  <2> QED
    BY <2>2, <2>3, <2>4, <2>5, <2>6, <1>5 DEF Flows
<1> QED
  BY <1>5, <1>7, <1>8, <1>10, <1>11

\* A mark is the last packet, and closes a stream that reached its start.
LEMMA TakeMark ==
  ASSUME NEW s \in Seq(Packets), NEW lo \in Nat, NEW hi \in Nat,
         Flows(s, lo, hi), s # << >>, ~IsData(Head(s))
  PROVE  /\ Tail(s) = << >> /\ Ended(s) /\ Buffers(s) = 0
         /\ Reaches(s, lo, hi) => lo = hi
<1>1. Len(s) \in Nat /\ Len(s) > 0 /\ Head(s) = s[1]
  BY EmptySeq, LenProperties
<1>2. Len(s) = 1
  <2>1. 1 \in 1 .. Len(s) /\ ~IsData(s[1])
    BY <1>1
  <2>2. Len(s) <= 1
    BY <2>1, <1>1 DEF Flows
  <2> DEFINE n == Len(s)
  <2>3. n \in Nat /\ n > 0 /\ n <= 1
    BY <2>2, <1>1
  <2>4. n = 1
    <3> HIDE DEF n
    <3> QED
      BY <2>3
  <2> QED
    BY <2>4
<1>3. Len(Tail(s)) = 0 /\ Tail(s) \in Seq(Packets)
  BY <1>2, HeadTailProperties
<1>4. Ended(s) /\ Buffers(s) = 0
  BY <1>1, <1>2 DEF Ended, Buffers
<1>5. Tail(s) = << >>
  BY <1>3, EmptySeq
<1> QED
  BY <1>4, <1>5 DEF Reaches

\* Contiguous units are appended in order.
LEMMA AppendUnits ==
  ASSUME NEW s \in Seq(1 .. Length), InOrder(s), NEW c \in Nat, Len(s) + c <= Length
  PROVE  /\ s \o Units(Data(Len(s) + 1, c)) \in Seq(1 .. Length)
         /\ InOrder(s \o Units(Data(Len(s) + 1, c)))
         /\ Len(s \o Units(Data(Len(s) + 1, c))) = Len(s) + c
<1> DEFINE u == Units(Data(Len(s) + 1, c))
           n == Len(s)
<1>1. n \in Nat /\ Length \in Nat
  BY LenProperties, PipelineAssumption
<1>2. u = [i \in 1 .. c |-> n + i]
  <2>1. u = [i \in 1 .. c |-> n + 1 + i - 1]
    BY DEF Units, Data, Packet
  <2>2. \A i \in 1 .. c : n + 1 + i - 1 = n + i
    BY <1>1
  <2> QED
    BY <2>1, <2>2
<1>3. u \in Seq(1 .. Length) /\ Len(u) = c /\ \A i \in 1 .. c : u[i] = n + i
  BY <1>1, <1>2
<1>4. /\ s \o u \in Seq(1 .. Length) /\ Len(s \o u) = n + c
      /\ \A i \in 1 .. n + c : (s \o u)[i] = IF i <= n THEN s[i] ELSE u[i - n]
  <2>1. /\ s \o u \in Seq(1 .. Length) /\ Len(s \o u) = Len(s) + Len(u)
        /\ \A i \in 1 .. Len(s) + Len(u) : (s \o u)[i] = IF i <= Len(s) THEN s[i] ELSE u[i - Len(s)]
    <3> HIDE DEF u
    <3> QED
      BY <1>3, ConcatProperties
  <2> QED
    BY <2>1, <1>3
<1>5. \A i \in 1 .. n : s[i] = i
  BY DEF InOrder
<1>6. \A i \in 1 .. n + c : (s \o u)[i] = i
  BY <1>1, <1>3, <1>4, <1>5
<1>7. s \o u = [i \in 1 .. n + c |-> i]
  <2>1. s \o u \in [1 .. n + c -> 1 .. Length]
    BY <1>4, LenProperties
  <2> QED
    BY <2>1, <1>6
<1> QED
  BY <1>4, <1>7 DEF InOrder

\* A mark adds nothing.
LEMMA AppendNothing ==
  ASSUME NEW s \in Seq(1 .. Length), NEW p \in Packets, ~IsData(p)
  PROVE  s \o Units(p) = s
<1>1. p.count = 0
  BY PacketType
<1>2. Units(p) = << >>
  BY <1>1 DEF Units
<1> QED
  BY <1>2, ConcatEmptySeq

-----------------------------------------------------------------------------
(* Every step keeps the invariant.                                           *)

\* Lengths and positions are numbers.
LEMMA Positions ==
  ASSUME IInv
  PROVE  /\ Len(dest) \in Nat /\ Len(digest) \in Nat /\ Len(filled) \in Nat /\ Len(hashed) \in Nat
         /\ Length \in Nat /\ read \in Nat /\ read <= Length /\ free \in Nat
         /\ Len(dest) <= Len(digest) /\ Len(digest) <= read
         /\ inHand.count \in Nat /\ atHash.count \in Nat /\ current.count \in Nat
         /\ Taken \in Nat /\ HashedTo \in Nat /\ ReadTo \in Nat
         /\ Buffers(filled) \in Nat /\ Buffers(hashed) \in Nat
         /\ AtReader \in 0 .. 1 /\ AtHasher \in 0 .. 1 /\ AtWriter \in 0 .. 1
         /\ NoPacket.kind = "none" /\ NoPacket.count = 0 /\ ~IsData(NoPacket)
         /\ (Ended(filled) => reader = "exited")
         /\ (Ended(hashed) => reader = "exited" /\ hasher = "exited" /\ Len(digest) = read)
         /\ depth \in Nat /\ (Staged <=> depth = 3) /\ (~Staged <=> depth = 2)
<1>1. /\ Len(dest) \in Nat /\ Len(digest) \in Nat /\ Len(filled) \in Nat /\ Len(hashed) \in Nat
      /\ Length \in Nat /\ read \in Nat /\ read <= Length /\ free \in Nat
      /\ Len(dest) <= Len(digest) /\ Len(digest) <= read
  BY LenProperties, PipelineAssumption
     DEF IInv, TypeOK, OrderedPrefixes, PIPELINE_BUFFERS, LOCAL_PIPELINE_BUFFERS
<1>2. \A p \in {inHand, atHash, current} : p.count \in Nat /\ p.from \in Nat
                                            /\ (IsData(p) => p.from >= 1) /\ (~IsData(p) => p.count = 0)
  BY PacketType DEF IInv, TypeOK
<1>3. NoPacket.kind = "none" /\ NoPacket.count = 0 /\ ~IsData(NoPacket)
  BY MakePacket DEF IsData
<1>4. Taken \in Nat
  BY <1>1, <1>2 DEF Taken
<1>5. HashedTo \in Nat
  BY <1>1, <1>2 DEF HashedTo, IInv, HandInv
<1>6. ReadTo \in Nat
  BY <1>1, <1>2 DEF ReadTo, IInv, HandInv, IsData
<1>7. \A s \in {filled, hashed} : Ended(s) => Len(s) > 0
  BY EmptySeq DEF Ended, IInv, TypeOK
<1>8. Buffers(filled) \in Nat /\ Buffers(hashed) \in Nat
  BY <1>1, <1>7 DEF Buffers
<1>9. depth \in Nat /\ (Staged <=> depth = 3) /\ (~Staged <=> depth = 2)
  BY DEF IInv, TypeOK, Staged, PIPELINE_BUFFERS, LOCAL_PIPELINE_BUFFERS
<1>10. \A s \in {filled, hashed} : Ended(s) => Len(s) \in 1 .. Len(s) /\ ~IsData(s[Len(s)])
  BY <1>1, <1>7 DEF Ended
<1>11. /\ Ended(filled) => reader = "exited"
       /\ Ended(hashed) => reader = "exited" /\ hasher = "exited" /\ Len(digest) = read
  BY <1>10 DEF IInv, MarkInv
<1>12. AtReader \in 0 .. 1 /\ AtHasher \in 0 .. 1 /\ AtWriter \in 0 .. 1
  BY DEF AtReader, AtHasher, AtWriter
<1> QED
  BY <1>1, <1>2, <1>3, <1>4, <1>5, <1>6, <1>8, <1>9, <1>11, <1>12

\* The positions are numbers in the order of the stages.
LEMMA Bounds ==
  ASSUME IInv
  PROVE  /\ Length \in Nat /\ read \in Nat /\ Len(dest) \in Nat /\ Len(digest) \in Nat
         /\ inHand.count \in Nat /\ ReadTo \in Nat /\ Taken \in Nat
         /\ atHash.count \in Nat /\ HashedTo \in Nat
         /\ Len(dest) <= Len(digest) /\ Len(digest) <= read /\ read <= Length /\ ReadTo <= read
<1>1. ReadTo <= read
  BY Positions, SMTT(60) DEF ReadTo
<1> QED
  BY <1>1, Positions

\* The buffers are counted in numbers.
LEMMA Counts ==
  ASSUME IInv
  PROVE  /\ free \in Nat /\ AtReader \in 0 .. 1 /\ Buffers(filled) \in Nat /\ AtHasher \in 0 .. 1
         /\ Buffers(hashed) \in Nat /\ AtWriter \in 0 .. 1 /\ depth \in Nat
         /\ free + AtReader + Buffers(filled) + AtHasher + Buffers(hashed) + AtWriter <= depth
BY Positions DEF IInv, BufferInv

\* The reader tests its loop condition and the flags.
LEMMA ReaderLoopStep == ASSUME IInv, ReaderLoop PROVE IInv'
<1>1. TypeOK'
  <2>1. /\ UNCHANGED <<depth, canceled, free, filled, hashed, read, inHand, hasherVars, writerVars>>
        /\ reader' \in {"free", "after"}
    BY DEF ReaderLoop
  <2>2. stopped' \in BOOLEAN
    BY Zenon DEF IInv, TypeOK, ReaderLoop
  <2> QED
    BY <2>1, <2>2, Positions DEF IInv, TypeOK, hasherVars, writerVars
<1>2. OrderedPrefixes'
  BY Positions
     DEF IInv, OrderedPrefixes, ReaderLoop, flagVars, readerVars, hasherVars, writerVars
<1>3. HandInv'
  BY Positions
     DEF IInv, HandInv, ReadTo, HashedTo, Staged, ReaderLoop, flagVars, readerVars, hasherVars,
         writerVars
<1>4. StreamInv'
  BY Positions
     DEF IInv, StreamInv, Running, Staged, Taken, HashedTo, ReadTo, ReaderLoop, flagVars,
         readerVars, hasherVars, writerVars
<1>5. WholeInv'
  BY Positions
     DEF IInv, WholeInv, Gone, Running, Staged, Taken, HashedTo, ReadTo, ReaderLoop, flagVars,
         readerVars, hasherVars, writerVars
<1>6. MarkInv'
  BY Positions
     DEF IInv, MarkInv, MarkOk, ReaderLoop, flagVars, readerVars, hasherVars, writerVars
<1>7. CauseInv'
  BY Positions, SMTT(60)
     DEF IInv, CauseInv, Running, Gone, Staged, ReaderLoop, flagVars, readerVars, hasherVars,
         writerVars
<1>8. BufferInv'
  BY Positions
     DEF IInv, BufferInv, AtReader, AtHasher, AtWriter, ReaderLoop, flagVars, readerVars,
         hasherVars, writerVars
<1>9. FailureHasItsCause'
  BY Positions
     DEF IInv, FailureHasItsCause, CauseInv, ReaderLoop, flagVars, readerVars, hasherVars,
         writerVars
<1> QED
  BY <1>1, <1>2, <1>3, <1>4, <1>5, <1>6, <1>7, <1>8, <1>9 DEF IInv

\* The reader takes a free buffer, or gives up.
LEMMA ReaderTakesBufferStep == ASSUME IInv, ReaderTakesBuffer PROVE IInv'
<1>1. TypeOK'
  BY Positions, SMTT(60) DEF IInv, TypeOK, ReaderTakesBuffer, flagVars, readerVars, hasherVars, writerVars
<1>2. OrderedPrefixes'
  BY Positions
     DEF IInv, OrderedPrefixes, ReaderTakesBuffer, flagVars, readerVars, hasherVars, writerVars
<1>3. HandInv'
  BY Positions
     DEF IInv, HandInv, ReadTo, HashedTo, Staged, ReaderTakesBuffer, flagVars, readerVars,
         hasherVars, writerVars
<1>4. StreamInv'
  BY Positions
     DEF IInv, StreamInv, Running, Staged, Taken, HashedTo, ReadTo, ReaderTakesBuffer, flagVars,
         readerVars, hasherVars, writerVars
<1>5. WholeInv'
  BY Positions
     DEF IInv, WholeInv, Gone, Running, Staged, Taken, HashedTo, ReadTo, ReaderTakesBuffer,
         flagVars, readerVars, hasherVars, writerVars
<1>6. MarkInv'
  BY Positions
     DEF IInv, MarkInv, MarkOk, ReaderTakesBuffer, flagVars, readerVars, hasherVars, writerVars
<1>7. CauseInv'
  BY Positions
     DEF IInv, CauseInv, Running, Gone, Staged, ReaderTakesBuffer, flagVars, readerVars,
         hasherVars, writerVars
<1>8. BufferInv'
  <2>1. AtReader = 0 /\ AtReader' = IF reader' = "read" THEN 1 ELSE 0
    BY Positions DEF ReaderTakesBuffer, AtReader, IInv, HandInv, readerVars
  <2>2. AtHasher' = AtHasher /\ AtWriter' = AtWriter /\ Buffers(filled)' = Buffers(filled)
        /\ Buffers(hashed)' = Buffers(hashed) /\ depth' = depth
    BY DEF ReaderTakesBuffer, AtHasher, AtWriter, hasherVars, writerVars
  <2>3. free' + (IF reader' = "read" THEN 1 ELSE 0) = free /\ free' \in Nat
    BY Positions, SMTT(60) DEF ReaderTakesBuffer
  <2> QED
    BY <2>1, <2>2, <2>3, Counts DEF BufferInv
<1>9. FailureHasItsCause'
  BY Positions
     DEF IInv, FailureHasItsCause, CauseInv, ReaderTakesBuffer, flagVars, readerVars,
         hasherVars, writerVars
<1> QED
  BY <1>1, <1>2, <1>3, <1>4, <1>5, <1>6, <1>7, <1>8, <1>9 DEF IInv

\* The reader leaves its loop.
LEMMA ReaderAfterStep == ASSUME IInv, ReaderAfter PROVE IInv'
<1>1. TypeOK'
  BY Positions DEF IInv, TypeOK, ReaderAfter, flagVars, readerVars, hasherVars, writerVars
<1>2. OrderedPrefixes'
  BY Positions
     DEF IInv, OrderedPrefixes, ReaderAfter, flagVars, readerVars, hasherVars, writerVars
<1>3. HandInv'
  BY Positions
     DEF IInv, HandInv, ReadTo, HashedTo, Staged, ReaderAfter, flagVars, readerVars, hasherVars,
         writerVars
<1>4. StreamInv'
  BY Positions
     DEF IInv, StreamInv, Running, Staged, Taken, HashedTo, ReadTo, ReaderAfter, flagVars,
         readerVars, hasherVars, writerVars
<1>5. WholeInv'
  BY Positions
     DEF IInv, WholeInv, Gone, Running, Staged, Taken, HashedTo, ReadTo, ReaderAfter, flagVars,
         readerVars, hasherVars, writerVars
<1>6. MarkInv'
  BY Positions
     DEF IInv, MarkInv, MarkOk, ReaderAfter, flagVars, readerVars, hasherVars, writerVars
<1>7. CauseInv'
  BY Positions
     DEF IInv, CauseInv, Running, Gone, Staged, ReaderAfter, flagVars, readerVars, hasherVars,
         writerVars
<1>8. BufferInv'
  BY Positions
     DEF IInv, BufferInv, AtReader, AtHasher, AtWriter, ReaderAfter, flagVars, readerVars,
         hasherVars, writerVars
<1>9. FailureHasItsCause'
  BY Positions
     DEF IInv, FailureHasItsCause, CauseInv, ReaderAfter, flagVars, readerVars, hasherVars,
         writerVars
<1> QED
  BY <1>1, <1>2, <1>3, <1>4, <1>5, <1>6, <1>7, <1>8, <1>9 DEF IInv

\* The writer tests its loop condition and the probe.
LEMMA WriterLoopStep == ASSUME IInv, WriterLoop PROVE IInv'
<1>1. TypeOK'
  BY Positions, SMTT(60) DEF IInv, TypeOK, Ends, WriterLoop, flagVars, readerVars, hasherVars, writerVars
<1>2. OrderedPrefixes'
  BY Positions
     DEF IInv, OrderedPrefixes, Ends, WriterLoop, flagVars, readerVars, hasherVars, writerVars
<1>3. HandInv'
  BY Positions
     DEF IInv, HandInv, ReadTo, HashedTo, Staged, Ends, WriterLoop, flagVars, readerVars,
         hasherVars, writerVars
<1>4. StreamInv'
  BY Positions
     DEF IInv, StreamInv, Running, Staged, Taken, HashedTo, ReadTo, Ends, WriterLoop, flagVars,
         readerVars, hasherVars, writerVars
<1>5. WholeInv'
  BY Positions
     DEF IInv, WholeInv, Gone, Running, Staged, Taken, HashedTo, ReadTo, Ends, WriterLoop,
         flagVars, readerVars, hasherVars, writerVars
<1>6. MarkInv'
  BY Positions
     DEF IInv, MarkInv, MarkOk, Ends, WriterLoop, flagVars, readerVars, hasherVars, writerVars
<1>7. CauseInv'
  BY Positions
     DEF IInv, CauseInv, Running, Gone, Staged, Ends, WriterLoop, flagVars, readerVars,
         hasherVars, writerVars
<1>8. BufferInv'
  BY Positions
     DEF IInv, BufferInv, AtReader, AtHasher, AtWriter, Ends, WriterLoop, flagVars, readerVars,
         hasherVars, writerVars
<1>9. FailureHasItsCause'
  BY Positions
     DEF IInv, FailureHasItsCause, CauseInv, Ends, WriterLoop, flagVars, readerVars, hasherVars,
         writerVars
<1> QED
  BY <1>1, <1>2, <1>3, <1>4, <1>5, <1>6, <1>7, <1>8, <1>9 DEF IInv

\* The writer raises the stop flag.
LEMMA WriterStopsStep == ASSUME IInv, WriterStops PROVE IInv'
<1>1. TypeOK'
  BY Positions DEF IInv, TypeOK, WriterStops, flagVars, readerVars, hasherVars, writerVars
<1>2. OrderedPrefixes'
  BY Positions
     DEF IInv, OrderedPrefixes, WriterStops, flagVars, readerVars, hasherVars, writerVars
<1>3. HandInv'
  BY Positions
     DEF IInv, HandInv, ReadTo, HashedTo, Staged, WriterStops, flagVars, readerVars, hasherVars,
         writerVars
<1>4. StreamInv'
  BY Positions
     DEF IInv, StreamInv, Running, Staged, Taken, HashedTo, ReadTo, WriterStops, flagVars,
         readerVars, hasherVars, writerVars
<1>5. WholeInv'
  BY Positions
     DEF IInv, WholeInv, Gone, Running, Staged, Taken, HashedTo, ReadTo, WriterStops, flagVars,
         readerVars, hasherVars, writerVars
<1>6. MarkInv'
  BY Positions
     DEF IInv, MarkInv, MarkOk, WriterStops, flagVars, readerVars, hasherVars, writerVars
<1>7. CauseInv'
  BY Positions
     DEF IInv, CauseInv, Running, Gone, Staged, WriterStops, flagVars, readerVars, hasherVars,
         writerVars
<1>8. BufferInv'
  BY Positions
     DEF IInv, BufferInv, AtReader, AtHasher, AtWriter, WriterStops, flagVars, readerVars,
         hasherVars, writerVars
<1>9. FailureHasItsCause'
  BY Positions
     DEF IInv, FailureHasItsCause, CauseInv, WriterStops, flagVars, readerVars, hasherVars,
         writerVars
<1> QED
  BY <1>1, <1>2, <1>3, <1>4, <1>5, <1>6, <1>7, <1>8, <1>9 DEF IInv

\* The writer joins the other threads.
LEMMA WriterJoinsStep == ASSUME IInv, WriterJoins PROVE IInv'
<1>1. TypeOK'
  BY Positions DEF IInv, TypeOK, WriterJoins, flagVars, readerVars, hasherVars, writerVars
<1>2. OrderedPrefixes'
  BY Positions
     DEF IInv, OrderedPrefixes, WriterJoins, flagVars, readerVars, hasherVars, writerVars
<1>3. HandInv'
  BY Positions
     DEF IInv, HandInv, ReadTo, HashedTo, Staged, WriterJoins, flagVars, readerVars, hasherVars,
         writerVars
<1>4. StreamInv'
  BY Positions
     DEF IInv, StreamInv, Running, Staged, Taken, HashedTo, ReadTo, WriterJoins, flagVars,
         readerVars, hasherVars, writerVars
<1>5. WholeInv'
  BY Positions
     DEF IInv, WholeInv, Gone, Running, Staged, Taken, HashedTo, ReadTo, WriterJoins, flagVars,
         readerVars, hasherVars, writerVars
<1>6. MarkInv'
  BY Positions
     DEF IInv, MarkInv, MarkOk, WriterJoins, flagVars, readerVars, hasherVars, writerVars
<1>7. CauseInv'
  BY Positions
     DEF IInv, CauseInv, Running, Gone, Staged, WriterJoins, flagVars, readerVars, hasherVars,
         writerVars
<1>8. BufferInv'
  BY Positions
     DEF IInv, BufferInv, AtReader, AtHasher, AtWriter, WriterJoins, flagVars, readerVars,
         hasherVars, writerVars
<1>9. FailureHasItsCause'
  BY Positions
     DEF IInv, FailureHasItsCause, CauseInv, WriterJoins, flagVars, readerVars, hasherVars,
         writerVars
<1> QED
  BY <1>1, <1>2, <1>3, <1>4, <1>5, <1>6, <1>7, <1>8, <1>9 DEF IInv

\* The caller cancels.
LEMMA CancelStep == ASSUME IInv, Cancel PROVE IInv'
<1>1. TypeOK'
  BY Positions DEF IInv, TypeOK, Cancel, flagVars, readerVars, hasherVars, writerVars
<1>2. OrderedPrefixes'
  BY Positions DEF IInv, OrderedPrefixes, Cancel, flagVars, readerVars, hasherVars, writerVars
<1>3. HandInv'
  BY Positions
     DEF IInv, HandInv, ReadTo, HashedTo, Staged, Cancel, flagVars, readerVars, hasherVars,
         writerVars
<1>4. StreamInv'
  BY Positions
     DEF IInv, StreamInv, Running, Staged, Taken, HashedTo, ReadTo, Cancel, flagVars,
         readerVars, hasherVars, writerVars
<1>5. WholeInv'
  BY Positions
     DEF IInv, WholeInv, Gone, Running, Staged, Taken, HashedTo, ReadTo, Cancel, flagVars,
         readerVars, hasherVars, writerVars
<1>6. MarkInv'
  BY Positions DEF IInv, MarkInv, MarkOk, Cancel, flagVars, readerVars, hasherVars, writerVars
<1>7. CauseInv'
  BY Positions
     DEF IInv, CauseInv, Running, Gone, Staged, Cancel, flagVars, readerVars, hasherVars,
         writerVars
<1>8. BufferInv'
  BY Positions
     DEF IInv, BufferInv, AtReader, AtHasher, AtWriter, Cancel, flagVars, readerVars,
         hasherVars, writerVars
<1>9. FailureHasItsCause'
  BY Positions
     DEF IInv, FailureHasItsCause, CauseInv, Cancel, flagVars, readerVars, hasherVars,
         writerVars
<1> QED
  BY <1>1, <1>2, <1>3, <1>4, <1>5, <1>6, <1>7, <1>8, <1>9 DEF IInv

\* A read, of whatever outcome.
LEMMA ReaderReadsStep == ASSUME IInv, ReaderReads PROVE IInv'
<1>1. /\ reader = "read" /\ inHand = NoPacket /\ read < Length /\ ~Gone(reader) /\ ReadTo = read
      /\ ~Ended(filled) /\ ~Ended(hashed) /\ ~(hasher = "send" /\ ~IsData(atHash))
      /\ UNCHANGED <<depth, flagVars, free, filled, hashed, hasher, atHash, writerVars>>
  BY Positions DEF ReaderReads, IInv, HandInv, MarkInv, Gone, ReadTo
<1>2. ASSUME NEW count \in 1 .. Request, count <= Length - read,
             inHand' = Data(read + 1, count), read' = read + count, reader' = "send",
             digest' = IF Staged THEN digest ELSE digest \o Units(Data(read + 1, count))
      PROVE  IInv'
  <2>1. /\ inHand' \in Packets /\ IsData(inHand') /\ inHand'.from = read + 1 /\ inHand'.count = count
        /\ inHand'.kind = "data" /\ count \in Nat /\ count >= 1
    <3>1. read + 1 \in 1 .. Length + 1 /\ count \in 0 .. Request
      BY <1>1, Positions, PipelineAssumption, SMTT(60)
    <3> QED
      BY <3>1, <1>2, MakePacket DEF IsData
  <2>2. /\ digest' \in Seq(1 .. Length) /\ InOrder(digest')
        /\ Len(digest') = IF Staged THEN Len(digest) ELSE read + count
    <3>1. CASE Staged
      BY <3>1, <1>2 DEF IInv, TypeOK, OrderedPrefixes
    <3>2. CASE ~Staged
      <4>1. Len(digest) = read /\ read + count <= Length /\ count \in Nat
        BY <3>2, Positions, <1>2, SMTT(60) DEF IInv, StreamInv
      <4>2. digest \in Seq(1 .. Length) /\ InOrder(digest)
        BY DEF IInv, TypeOK, OrderedPrefixes
      <4> QED
        BY <3>2, <4>1, <4>2, <1>2, AppendUnits
    <3> QED
      BY <3>1, <3>2
  <2>3. /\ ReadTo' = ReadTo /\ Taken' = Taken /\ (Staged' <=> Staged) /\ (Running' <=> Running)
        /\ HashedTo' = IF Staged THEN HashedTo ELSE Len(digest')
    <3>1. ReadTo' = ReadTo
      <4>1. ReadTo' = (read + count) - count
        BY <1>2, <2>1 DEF ReadTo
      <4> QED
        BY <4>1, <1>1, <2>1, Positions
    <3>2. Taken' = Taken /\ (Staged' <=> Staged) /\ (Running' <=> Running)
      BY <1>1 DEF Taken, Staged, Running, writerVars
    <3>3. CASE Staged
      BY <3>1, <3>2, <3>3, <1>1, <1>2, <2>2 DEF HashedTo
    <3>4. CASE ~Staged
      <4>1. hasher' = "exited" /\ Len(digest') \in Nat
        BY <3>4, <1>1, <2>1, <2>2, Positions DEF IInv, HandInv
      <4> QED
        BY <3>1, <3>2, <3>4, <4>1 DEF HashedTo
    <3> QED
      BY <3>3, <3>4
  <2>4. TypeOK'
    BY <1>1, <1>2, <2>1, <2>2, <2>3, Positions, SMTT(60)
       DEF IInv, TypeOK, flagVars, readerVars, hasherVars, writerVars
  <2>5. OrderedPrefixes'
    BY <1>1, <1>2, <2>1, <2>2, <2>3, Positions, SMTT(60)
       DEF IInv, OrderedPrefixes, flagVars, readerVars, hasherVars, writerVars
  <2>6. HandInv'
    BY <1>1, <1>2, <2>1, <2>2, <2>3, Positions
       DEF IInv, HandInv, flagVars, readerVars, hasherVars, writerVars
  <2>7. StreamInv'
    BY <1>1, <1>2, <2>1, <2>2, <2>3, Positions
       DEF IInv, StreamInv, flagVars, readerVars, hasherVars, writerVars
  <2>8. WholeInv'
    BY <1>1, <1>2, <2>1, <2>2, <2>3, Positions
       DEF IInv, WholeInv, Gone, flagVars, readerVars, hasherVars, writerVars
  <2>9. MarkInv'
    <3>1. IsData(atHash) \/ atHash = NoPacket
      BY <1>1 DEF IInv, TypeOK, HandInv
    <3>2. MarkOk(atHash)' /\ MarkOk(inHand)'
      BY <3>1, <1>1, <2>1, Positions DEF MarkOk, IsData
    <3>3. \A i \in 1 .. Len(filled) : IsData(filled[i])
      BY <1>1 DEF IInv, MarkInv
    <3>4. \A i \in 1 .. Len(hashed) : IsData(hashed[i])
      BY <1>1 DEF IInv, MarkInv
    <3>5. \A i \in 1 .. Len(filled)' : MarkOk(filled[i])'
      BY <3>3, <1>1 DEF MarkOk, IsData
    <3>6. \A i \in 1 .. Len(hashed)' : MarkOk(hashed[i])'
      BY <3>4, <1>1 DEF MarkOk, IsData
    <3> QED
      BY <3>2, <3>3, <3>4, <3>5, <3>6, <1>1, <1>2 DEF MarkInv
  <2>10. CauseInv'
    BY <1>1, <1>2, <2>1, <2>2, <2>3, Positions
       DEF IInv, CauseInv, Running, Gone, Staged, flagVars, readerVars, hasherVars, writerVars
  <2>11. BufferInv'
    <3>1. AtReader' = AtReader
      BY <1>1, <1>2, <2>1 DEF AtReader
    <3>2. AtHasher' = AtHasher /\ AtWriter' = AtWriter /\ UNCHANGED <<free, filled, hashed, depth>>
      BY <1>1 DEF AtHasher, AtWriter, hasherVars, writerVars
    <3> QED
      BY <3>1, <3>2, Counts DEF BufferInv
  <2>12. FailureHasItsCause'
    BY <1>1, <1>2, <2>1, <2>2, <2>3, Positions
       DEF IInv, FailureHasItsCause, CauseInv, flagVars, readerVars, hasherVars, writerVars
  <2> QED
    BY <2>4, <2>5, <2>6, <2>7, <2>8, <2>9, <2>10, <2>11, <2>12 DEF IInv
<1>3. ASSUME inHand' \in {Mark("eof"), Mark("failed")}, reader' = "send", UNCHANGED <<read, digest>>
      PROVE  IInv'
  <2>1. /\ inHand' \in Packets /\ ~IsData(inHand') /\ inHand'.kind \in {"eof", "failed"}
        /\ inHand'.count = 0
    BY <1>3, MakePacket, PacketType DEF IsData
  <2>2. /\ ReadTo' = ReadTo /\ Taken' = Taken /\ HashedTo' = HashedTo
        /\ (Staged' <=> Staged) /\ (Running' <=> Running)
    BY <1>1, <1>3, <2>1, Positions DEF ReadTo, Taken, HashedTo, Staged, Running, writerVars
  <2>3. TypeOK'
    BY <1>1, <1>3, <2>1, <2>2, Positions
       DEF IInv, TypeOK, flagVars, readerVars, hasherVars, writerVars
  <2>4. OrderedPrefixes'
    BY <1>1, <1>3, <2>1, <2>2, Positions
       DEF IInv, OrderedPrefixes, flagVars, readerVars, hasherVars, writerVars
  <2>5. HandInv'
    BY <1>1, <1>3, <2>1, <2>2, Positions
       DEF IInv, HandInv, IsData, flagVars, readerVars, hasherVars, writerVars
  <2>6. StreamInv'
    BY <1>1, <1>3, <2>1, <2>2, Positions
       DEF IInv, StreamInv, flagVars, readerVars, hasherVars, writerVars
  <2>7. WholeInv'
    BY <1>1, <1>3, <2>1, <2>2, Positions
       DEF IInv, WholeInv, Gone, flagVars, readerVars, hasherVars, writerVars
  <2>8. MarkInv'
    BY <1>1, <1>3, <2>1, <2>2, Positions
       DEF IInv, MarkInv, MarkOk, flagVars, readerVars, hasherVars, writerVars
  <2>9. CauseInv'
    BY <1>1, <1>3, <2>1, <2>2, Positions
       DEF IInv, CauseInv, Running, Gone, Staged, flagVars, readerVars, hasherVars, writerVars
  <2>10. BufferInv'
    <3>1. AtReader' = AtReader \/ AtReader' = 0
      BY <1>1, <1>3, <2>1 DEF AtReader
    <3>2. AtHasher' = AtHasher /\ AtWriter' = AtWriter /\ UNCHANGED <<free, filled, hashed, depth>>
      BY <1>1 DEF AtHasher, AtWriter, hasherVars, writerVars
    <3> QED
      BY <3>1, <3>2, Counts DEF BufferInv
  <2>11. FailureHasItsCause'
    BY <1>1, <1>3, <2>1, <2>2, Positions
       DEF IInv, FailureHasItsCause, CauseInv, flagVars, readerVars, hasherVars, writerVars
  <2> QED
    BY <2>3, <2>4, <2>5, <2>6, <2>7, <2>8, <2>9, <2>10, <2>11 DEF IInv
<1>4. ASSUME canceled \/ stopped \/ reader' = "panicked", reader' \in {"exited", "panicked"},
             UNCHANGED <<read, inHand, digest>>
      PROVE  IInv'
  <2>1. Running => canceled \/ reader' = "panicked"
    BY <1>4 DEF IInv, CauseInv, Running
  <2>2. TypeOK'
    BY <1>1, <1>4, <2>1, Positions
       DEF IInv, TypeOK, flagVars, readerVars, hasherVars, writerVars
  <2>3. OrderedPrefixes'
    BY <1>1, <1>4, <2>1, Positions
       DEF IInv, OrderedPrefixes, flagVars, readerVars, hasherVars, writerVars
  <2>4. HandInv'
    BY <1>1, <1>4, <2>1, Positions
       DEF IInv, HandInv, ReadTo, HashedTo, Staged, flagVars, readerVars, hasherVars, writerVars
  <2>5. StreamInv'
    BY <1>1, <1>4, <2>1, Positions
       DEF IInv, StreamInv, Running, Staged, Taken, HashedTo, ReadTo, flagVars, readerVars,
           hasherVars, writerVars
  <2>6. WholeInv'
    BY <1>1, <1>4, <2>1, Positions
       DEF IInv, WholeInv, Gone, Running, Staged, Taken, HashedTo, ReadTo, flagVars, readerVars,
           hasherVars, writerVars
  <2>7. MarkInv'
    BY <1>1, <1>4, <2>1, Positions
       DEF IInv, MarkInv, MarkOk, flagVars, readerVars, hasherVars, writerVars
  <2>8. CauseInv'
    BY <1>1, <1>4, <2>1, Positions
       DEF IInv, CauseInv, Running, Gone, Staged, flagVars, readerVars, hasherVars, writerVars
  <2>9. BufferInv'
    <3>1. AtReader' = AtReader \/ AtReader' = 0
      BY <1>1, <1>4 DEF AtReader
    <3>2. AtHasher' = AtHasher /\ AtWriter' = AtWriter /\ UNCHANGED <<free, filled, hashed, depth>>
      BY <1>1 DEF AtHasher, AtWriter, hasherVars, writerVars
    <3> QED
      BY <3>1, <3>2, Counts DEF BufferInv
  <2>10. FailureHasItsCause'
    BY <1>1, <1>4, <2>1, Positions
       DEF IInv, FailureHasItsCause, CauseInv, flagVars, readerVars, hasherVars, writerVars
  <2> QED
    BY <2>2, <2>3, <2>4, <2>5, <2>6, <2>7, <2>8, <2>9, <2>10 DEF IInv
<1> QED
  BY <1>2, <1>3, <1>4 DEF ReaderReads

\* The reader hands its packet on, or drops it and leaves.
LEMMA ReaderSendsStep == ASSUME IInv, ReaderSends PROVE IInv'
<1>1. /\ reader = "send" /\ ~Gone(reader) /\ ~Ended(filled) /\ ~Ended(hashed)
      /\ inHand.kind \in {"data", "eof", "failed"} /\ inHand \in Packets
      /\ ~(hasher = "send" /\ ~IsData(atHash))
      /\ inHand' = NoPacket /\ NoPacket \in Packets
      /\ UNCHANGED <<depth, flagVars, free, hashed, read, hasherVars, writerVars>>
  BY MakePacket, Positions DEF ReaderSends, IInv, TypeOK, HandInv, MarkInv, Gone
<1>2. /\ Taken' = Taken /\ HashedTo' = HashedTo /\ ReadTo' = read
      /\ (Staged' <=> Staged) /\ (Running' <=> Running)
  BY <1>1, Positions DEF Taken, HashedTo, ReadTo, Staged, Running, hasherVars, writerVars
<1>3. ASSUME Len(filled) < depth, filled' = Append(filled, inHand),
             reader' = IF inHand.kind = "data" THEN "loop" ELSE "exited"
      PROVE  IInv'
  <2>0. filled \in Seq(Packets)
    BY DEF IInv, TypeOK
  <2>1. /\ filled' \in Seq(Packets) /\ Len(filled') = Len(filled) + 1
        /\ filled'[Len(filled) + 1] = inHand
        /\ \A i \in 1 .. Len(filled') : \/ i \in 1 .. Len(filled) /\ filled'[i] = filled[i]
                                        \/ filled'[i] = inHand
    BY <1>1, <1>3, <2>0, AppendProperties, Positions, SMTT(60)
  <2>2. ASSUME NEW lo \in Nat, Flows(filled, lo, ReadTo), Reaches(filled, lo, ReadTo)
        PROVE  Flows(filled', lo, read) /\ Reaches(filled', lo, read)
    <3>1. CASE IsData(inHand)
      <4>1. inHand.from = ReadTo + 1 /\ inHand.count >= 1 /\ ReadTo + inHand.count = read
        BY <3>1, Positions, SMTT(60) DEF IsData, IInv, HandInv, ReadTo
      <4> QED
        BY <3>1, <4>1, <1>1, <1>3, <2>0, <2>2, Positions, AppendData
    <3>2. CASE ~IsData(inHand)
      <4>1. inHand.count = 0
        BY <3>2, <1>1, PacketType
      <4>2. ReadTo = read
        BY <4>1, Positions DEF ReadTo
      <4> QED
        BY <3>2, <4>2, <1>1, <1>3, <2>0, <2>2, Positions, AppendMark
    <3> QED
      BY <3>1, <3>2
  <2>3. /\ Ended(filled') <=> ~IsData(inHand)
        /\ Buffers(filled') = Buffers(filled) + IF IsData(inHand) THEN 1 ELSE 0
    <3>1. Len(filled') > 0 /\ filled'[Len(filled')] = inHand
      BY <2>1, Positions
    <3>2. filled' # << >>
      BY <3>1, EmptySeq
    <3>3. Ended(filled') <=> ~IsData(inHand)
      BY <3>1, <3>2 DEF Ended
    <3> QED
      BY <3>3, <2>1, <1>1, Positions, SMTT(60) DEF Buffers
  <2>4. TypeOK'
    BY <1>1, <1>2, <1>3, <2>1, <2>2, <2>3, Positions
       DEF IInv, TypeOK, flagVars, readerVars, hasherVars, writerVars
  <2>5. OrderedPrefixes'
    BY <1>1, <1>2, <1>3, <2>1, <2>2, <2>3, Positions
       DEF IInv, OrderedPrefixes, flagVars, readerVars, hasherVars, writerVars
  <2>6. HandInv'
    BY <1>1, <1>2, <1>3, <2>1, <2>2, <2>3, Positions
       DEF IInv, HandInv, flagVars, readerVars, hasherVars, writerVars
  <2>7. StreamInv'
    BY <1>1, <1>2, <1>3, <2>1, <2>2, <2>3, Positions
       DEF IInv, StreamInv, WholeInv, flagVars, readerVars, hasherVars, writerVars
  <2>8. WholeInv'
    BY <1>1, <1>2, <1>3, <2>1, <2>2, <2>3, Positions
       DEF IInv, WholeInv, StreamInv, Gone, flagVars, readerVars, hasherVars, writerVars
  <2>9. MarkInv'
    BY <1>1, <1>2, <1>3, <2>1, <2>2, <2>3, Positions
       DEF IInv, MarkInv, MarkOk, IsData, flagVars, readerVars, hasherVars, writerVars
  <2>10. CauseInv'
    BY <1>1, <1>2, <1>3, <2>1, <2>2, <2>3, Positions
       DEF IInv, CauseInv, Running, Gone, Staged, IsData, flagVars, readerVars, hasherVars,
           writerVars
  <2>11. BufferInv'
    BY <1>1, <1>2, <1>3, <2>1, <2>2, <2>3, Positions, SMTT(60)
       DEF IInv, BufferInv, AtReader, AtHasher, AtWriter, flagVars, readerVars, hasherVars,
           writerVars
  <2>12. FailureHasItsCause'
    BY <1>1, <1>2, <1>3, <2>1, <2>2, <2>3, Positions
       DEF IInv, FailureHasItsCause, CauseInv, flagVars, readerVars, hasherVars, writerVars
  <2> QED
    BY <2>4, <2>5, <2>6, <2>7, <2>8, <2>9, <2>10, <2>11, <2>12 DEF IInv
<1>4. ASSUME Len(filled) = depth, stopped, reader' = "exited", UNCHANGED filled
      PROVE  IInv'
  <2>1. Running => canceled
    BY <1>4 DEF IInv, CauseInv, Running
  <2>2. \A lo \in Nat : Flows(filled, lo, ReadTo) => Flows(filled, lo, read)
    <3>1. filled \in Seq(Packets) /\ ReadTo <= read
      BY Positions, SMTT(60) DEF IInv, TypeOK, ReadTo
    <3> QED
      BY <3>1, Positions, StreamFacts
  <2>3. TypeOK'
    BY <1>1, <1>2, <1>4, <2>1, <2>2, Positions
       DEF IInv, TypeOK, flagVars, readerVars, hasherVars, writerVars
  <2>4. OrderedPrefixes'
    BY <1>1, <1>2, <1>4, <2>1, <2>2, Positions
       DEF IInv, OrderedPrefixes, flagVars, readerVars, hasherVars, writerVars
  <2>5. HandInv'
    BY <1>1, <1>2, <1>4, <2>1, <2>2, Positions
       DEF IInv, HandInv, flagVars, readerVars, hasherVars, writerVars
  <2>6. StreamInv'
    BY <1>1, <1>2, <1>4, <2>1, <2>2, Positions
       DEF IInv, StreamInv, flagVars, readerVars, hasherVars, writerVars
  <2>7. WholeInv'
    BY <1>1, <1>2, <1>4, <2>1, <2>2, Positions
       DEF IInv, WholeInv, Gone, flagVars, readerVars, hasherVars, writerVars
  <2>8. MarkInv'
    BY <1>1, <1>2, <1>4, <2>1, <2>2, Positions
       DEF IInv, MarkInv, MarkOk, flagVars, readerVars, hasherVars, writerVars
  <2>9. CauseInv'
    BY <1>1, <1>2, <1>4, <2>1, <2>2, Positions
       DEF IInv, CauseInv, Running, Gone, Staged, flagVars, readerVars, hasherVars, writerVars
  <2>10. BufferInv'
    <3>1. AtReader' = AtReader \/ AtReader' = 0
      BY <1>1, <1>4, Positions DEF AtReader
    <3>2. AtHasher' = AtHasher /\ AtWriter' = AtWriter /\ UNCHANGED <<free, filled, hashed, depth>>
      BY <1>1, <1>4 DEF AtHasher, AtWriter, hasherVars, writerVars
    <3> QED
      BY <3>1, <3>2, Counts DEF BufferInv
  <2>11. FailureHasItsCause'
    BY <1>1, <1>2, <1>4, <2>1, <2>2, Positions
       DEF IInv, FailureHasItsCause, CauseInv, flagVars, readerVars, hasherVars, writerVars
  <2> QED
    BY <2>3, <2>4, <2>5, <2>6, <2>7, <2>8, <2>9, <2>10, <2>11 DEF IInv
<1> QED
  BY <1>1, <1>3, <1>4 DEF ReaderSends

\* The reader closes the stream.
LEMMA ReaderDoneStep == ASSUME IInv, ReaderDone PROVE IInv'
<1> DEFINE m == Mark("done")
<1>1. /\ reader = "done" /\ ~Gone(reader) /\ ~Ended(filled) /\ ~Ended(hashed)
      /\ inHand = NoPacket /\ ReadTo = read /\ read = Length /\ reader' = "exited"
      /\ ~(hasher = "send" /\ ~IsData(atHash))
      /\ Len(filled) < depth /\ filled' = Append(filled, m) /\ filled \in Seq(Packets)
      /\ UNCHANGED <<depth, flagVars, free, hashed, read, inHand, hasherVars, writerVars>>
  BY Positions DEF ReaderDone, IInv, TypeOK, HandInv, MarkInv, Gone, ReadTo
<1>2. m \in Packets /\ m.kind = "done" /\ ~IsData(m)
  BY MakePacket DEF IsData
<1> HIDE DEF m
<1>3. /\ filled' \in Seq(Packets) /\ Len(filled') = Len(filled) + 1
      /\ filled'[Len(filled) + 1] = m
      /\ \A i \in 1 .. Len(filled') : \/ i \in 1 .. Len(filled) /\ filled'[i] = filled[i]
                                      \/ filled'[i] = m
  BY <1>1, <1>2, AppendProperties, Positions, SMTT(60)
<1>4. \A lo \in Nat : Flows(filled, lo, ReadTo) /\ Reaches(filled, lo, ReadTo)
        => Flows(filled', lo, read) /\ Reaches(filled', lo, read)
  BY <1>1, <1>2, AppendMark, Positions
<1>5. Ended(filled') /\ Buffers(filled') = Buffers(filled)
  <2>1. Len(filled') > 0 /\ filled'[Len(filled')] = m
    BY <1>3, Positions
  <2>2. filled' # << >>
    BY <2>1, EmptySeq
  <2>3. Ended(filled')
    BY <1>2, <2>1, <2>2 DEF Ended
  <2> QED
    BY <2>3, <1>3, <1>1, Positions DEF Buffers
<1>6. /\ Taken' = Taken /\ HashedTo' = HashedTo /\ ReadTo' = read
      /\ (Staged' <=> Staged) /\ (Running' <=> Running)
  BY <1>1, Positions DEF Taken, HashedTo, ReadTo, Staged, Running, hasherVars, writerVars
<1>7. TypeOK'
  BY <1>1, <1>2, <1>3, <1>4, <1>5, <1>6, Positions
     DEF IInv, TypeOK, flagVars, readerVars, hasherVars, writerVars
<1>8. OrderedPrefixes'
  BY <1>1, <1>2, <1>3, <1>4, <1>5, <1>6, Positions
     DEF IInv, OrderedPrefixes, flagVars, readerVars, hasherVars, writerVars
<1>9. HandInv'
  BY <1>1, <1>2, <1>3, <1>4, <1>5, <1>6, Positions
     DEF IInv, HandInv, flagVars, readerVars, hasherVars, writerVars
<1>10. StreamInv'
  BY <1>1, <1>2, <1>3, <1>4, <1>5, <1>6, Positions
     DEF IInv, StreamInv, WholeInv, flagVars, readerVars, hasherVars, writerVars
<1>11. WholeInv'
  BY <1>1, <1>2, <1>3, <1>4, <1>5, <1>6, Positions
     DEF IInv, WholeInv, StreamInv, Gone, flagVars, readerVars, hasherVars, writerVars
<1>12. MarkInv'
  BY <1>1, <1>2, <1>3, <1>4, <1>5, <1>6, Positions
     DEF IInv, MarkInv, MarkOk, flagVars, readerVars, hasherVars, writerVars
<1>13. CauseInv'
  BY <1>1, <1>2, <1>3, <1>4, <1>5, <1>6, Positions
     DEF IInv, CauseInv, Running, Gone, Staged, flagVars, readerVars, hasherVars, writerVars
<1>14. BufferInv'
  BY <1>1, <1>2, <1>3, <1>4, <1>5, <1>6, Positions
     DEF IInv, BufferInv, AtReader, AtHasher, AtWriter, flagVars, readerVars, hasherVars,
         writerVars
<1>15. FailureHasItsCause'
  BY <1>1, <1>2, <1>3, <1>4, <1>5, <1>6, Positions
     DEF IInv, FailureHasItsCause, CauseInv, flagVars, readerVars, hasherVars, writerVars
<1> QED
  BY <1>7, <1>8, <1>9, <1>10, <1>11, <1>12, <1>13, <1>14, <1>15 DEF IInv

\* The hash stage takes a packet and consumes it, or leaves.
LEMMA HasherReceivesStep == ASSUME IInv, HasherReceives PROVE IInv'
<1> DEFINE p == Head(filled)
<1>1. /\ hasher = "recv" /\ Staged /\ atHash = NoPacket /\ HashedTo = Len(digest)
      /\ ~Ended(hashed) /\ filled \in Seq(Packets) /\ digest \in Seq(1 .. Length) /\ InOrder(digest)
      /\ Flows(filled, Len(digest), ReadTo)
      /\ ~Gone(reader) \/ Ended(filled) => Reaches(filled, Len(digest), ReadTo)
      /\ UNCHANGED <<depth, flagVars, free, hashed, readerVars, writerVars>>
  BY Positions
     DEF HasherReceives, IInv, TypeOK, OrderedPrefixes, HandInv, StreamInv, WholeInv, MarkInv,
         HashedTo
<1>2. /\ Taken' = Taken /\ ReadTo' = ReadTo /\ (Staged' <=> Staged) /\ (Running' <=> Running)
  BY <1>1 DEF Taken, ReadTo, Staged, Running, readerVars, writerVars
<1>3. ASSUME filled # << >>
      PROVE  /\ p \in Packets /\ p = filled[1] /\ 1 \in 1 .. Len(filled)
             /\ Tail(filled) \in Seq(Packets) /\ Len(Tail(filled)) = Len(filled) - 1
             /\ \A i \in 1 .. Len(Tail(filled)) : i + 1 \in 1 .. Len(filled) /\ Tail(filled)[i] = filled[i + 1]
             /\ p.kind # "none" /\ MarkOk(p) /\ (~IsData(p) => reader = "exited")
  <2>1. /\ p \in Packets /\ p = filled[1] /\ 1 \in 1 .. Len(filled)
    <3>1. Len(filled) > 0
      BY <1>1, <1>3, EmptySeq
    <3> QED
      BY <3>1, <1>1, <1>3, HeadTailProperties, Positions
  <2>2. /\ Tail(filled) \in Seq(Packets) /\ Len(Tail(filled)) = Len(filled) - 1
        /\ \A i \in 1 .. Len(Tail(filled)) : Tail(filled)[i] = filled[i + 1]
    BY <1>1, <1>3, HeadTailProperties
  <2>3. \A i \in 1 .. Len(filled) - 1 : i + 1 \in 1 .. Len(filled)
    BY Positions
  <2>4. p.kind # "none" /\ MarkOk(p) /\ (~IsData(p) => reader = "exited")
    BY <2>1 DEF IInv, HandInv, MarkInv
  <2> QED
    BY <2>1, <2>2, <2>3, <2>4
<1> HIDE DEF p
<1>4. ASSUME filled # << >>, atHash' = p, filled' = Tail(filled),
             digest' = digest \o Units(p), hasher' = "send"
      PROVE  IInv'
  <2>1. CASE IsData(p)
    <3>1. /\ p.from = Len(digest) + 1 /\ p.count \in Nat /\ p.count >= 1
          /\ Len(digest) + p.count <= ReadTo
          /\ Flows(filled', Len(digest) + p.count, ReadTo)
          /\ Reaches(filled, Len(digest), ReadTo) => Reaches(filled', Len(digest) + p.count, ReadTo)
          /\ Ended(filled') <=> Ended(filled)
          /\ Buffers(filled') = Buffers(filled) - 1
      BY <1>1, <1>4, <2>1, TakeData, Positions DEF p
    <3>2. Len(digest) + p.count <= read
      BY <3>1, Bounds
    <3>3. Units(p) = Units(Data(Len(digest) + 1, p.count))
      BY <3>1, <1>3, <1>4, <2>1 DEF Packets, Units, Data, Packet
    <3>4. Len(digest) + p.count <= Length
      BY <3>1, <3>2, Bounds
    <3>5. digest' \in Seq(1 .. Length) /\ InOrder(digest') /\ Len(digest') = Len(digest) + p.count
      BY <3>1, <3>3, <3>4, <1>1, <1>4, AppendUnits
    <3>6. HashedTo' = HashedTo
      <4>1. HashedTo' = (Len(digest) + p.count) - p.count
        BY <3>5, <1>4 DEF HashedTo
      <4> QED
        BY <4>1, <3>1, <1>1, Bounds
    <3>7. TypeOK'
      BY <1>1, <1>2, <1>3, <1>4, <2>1, <3>1, <3>2, <3>5, <3>6, Positions
         DEF IInv, TypeOK, flagVars, readerVars, hasherVars, writerVars
    <3>8. OrderedPrefixes'
      BY <1>1, <1>2, <1>3, <1>4, <2>1, <3>1, <3>2, <3>5, <3>6, Bounds
         DEF IInv, OrderedPrefixes, flagVars, readerVars, hasherVars, writerVars
    <3>9. HandInv'
      BY <1>1, <1>2, <1>3, <1>4, <2>1, <3>1, <3>2, <3>5, <3>6, Positions
         DEF IInv, HandInv, flagVars, readerVars, hasherVars, writerVars
    <3>10. StreamInv'
      BY <1>1, <1>2, <1>3, <1>4, <2>1, <3>1, <3>2, <3>5, <3>6, Positions
         DEF IInv, StreamInv, flagVars, readerVars, hasherVars, writerVars
    <3>11. WholeInv'
      BY <1>1, <1>2, <1>3, <1>4, <2>1, <3>1, <3>2, <3>5, <3>6, Positions
         DEF IInv, WholeInv, StreamInv, Gone, flagVars, readerVars, hasherVars, writerVars
    <3>12. MarkInv'
      BY <1>1, <1>2, <1>3, <1>4, <2>1, <3>1, <3>2, <3>5, <3>6, Positions
         DEF IInv, MarkInv, MarkOk, IsData, flagVars, readerVars, hasherVars, writerVars
    <3>13. CauseInv'
      BY <1>1, <1>2, <1>3, <1>4, <2>1, <3>1, <3>2, <3>5, <3>6, Positions
         DEF IInv, CauseInv, Running, Gone, Staged, flagVars, readerVars, hasherVars, writerVars
    <3>14. BufferInv'
      <4>1. AtReader' = AtReader /\ AtWriter' = AtWriter /\ AtHasher = 0 /\ AtHasher' = 1
        BY <1>1, <1>4, <2>1, Positions DEF AtReader, AtWriter, AtHasher, readerVars, writerVars
      <4>2. Buffers(filled') = Buffers(filled) - 1 /\ UNCHANGED <<free, hashed, depth>>
        BY <1>1, <3>1
      <4> QED
        BY <4>1, <4>2, Counts DEF BufferInv
    <3>15. FailureHasItsCause'
      BY <1>1, <1>2, <1>3, <1>4, <2>1, <3>1, <3>2, <3>5, <3>6, Positions
         DEF IInv, FailureHasItsCause, CauseInv, flagVars, readerVars, hasherVars, writerVars
    <3> QED
      BY <3>7, <3>8, <3>9, <3>10, <3>11, <3>12, <3>13, <3>14, <3>15 DEF IInv
  <2>2. CASE ~IsData(p)
    <3>1. /\ filled' = << >> /\ Ended(filled) /\ Buffers(filled) = 0
          /\ Len(digest) = ReadTo
      BY <1>1, <1>4, <2>2, TakeMark, Positions DEF p
    <3>2. reader = "exited" /\ ReadTo = read
      BY <1>1, <1>3, <1>4, <2>2, Positions DEF IInv, HandInv, ReadTo
    <3>3. digest' = digest
      BY <1>1, <1>3, <1>4, <2>2, AppendNothing
    <3>4. HashedTo' = HashedTo /\ p.count = 0
      BY <3>3, <1>1, <1>3, <1>4, <2>2, PacketType, Positions DEF HashedTo
    <3>5. /\ Flows(filled', Len(digest), ReadTo) /\ Reaches(filled', Len(digest), ReadTo)
          /\ ~Ended(filled') /\ Buffers(filled') = 0 /\ Len(filled') = 0
      BY <3>1, EmptyStream, Positions
    <3>6. TypeOK'
      BY <1>1, <1>2, <1>3, <1>4, <2>2, <3>1, <3>2, <3>3, <3>4, <3>5, Positions
         DEF IInv, TypeOK, flagVars, readerVars, hasherVars, writerVars
    <3>7. OrderedPrefixes'
      BY <1>1, <1>2, <1>3, <1>4, <2>2, <3>1, <3>2, <3>3, <3>4, <3>5, Positions
         DEF IInv, OrderedPrefixes, flagVars, readerVars, hasherVars, writerVars
    <3>8. HandInv'
      BY <1>1, <1>2, <1>3, <1>4, <2>2, <3>1, <3>2, <3>3, <3>4, <3>5, Positions
         DEF IInv, HandInv, flagVars, readerVars, hasherVars, writerVars
    <3>9. StreamInv'
      BY <1>1, <1>2, <1>3, <1>4, <2>2, <3>1, <3>2, <3>3, <3>4, <3>5, Positions
         DEF IInv, StreamInv, flagVars, readerVars, hasherVars, writerVars
    <3>10. WholeInv'
      BY <1>1, <1>2, <1>3, <1>4, <2>2, <3>1, <3>2, <3>3, <3>4, <3>5, Positions
         DEF IInv, WholeInv, StreamInv, Gone, flagVars, readerVars, hasherVars, writerVars
    <3>11. MarkInv'
      BY <1>1, <1>2, <1>3, <1>4, <2>2, <3>1, <3>2, <3>3, <3>4, <3>5, Positions
         DEF IInv, MarkInv, MarkOk, flagVars, readerVars, hasherVars, writerVars
    <3>12. CauseInv'
      BY <1>1, <1>2, <1>3, <1>4, <2>2, <3>1, <3>2, <3>3, <3>4, <3>5, Positions
         DEF IInv, CauseInv, Running, Gone, Staged, flagVars, readerVars, hasherVars, writerVars
    <3>13. BufferInv'
      <4>1. AtReader' = AtReader /\ AtWriter' = AtWriter /\ AtHasher = 0 /\ AtHasher' = 0
        BY <1>1, <1>4, <2>2, Positions DEF AtReader, AtWriter, AtHasher, readerVars, writerVars
      <4>2. Buffers(filled') = Buffers(filled) /\ UNCHANGED <<free, hashed, depth>>
        BY <1>1, <3>1, <3>5
      <4> QED
        BY <4>1, <4>2, Counts DEF BufferInv
    <3>14. FailureHasItsCause'
      BY <1>1, <1>2, <1>3, <1>4, <2>2, <3>1, <3>2, <3>3, <3>4, <3>5, Positions
         DEF IInv, FailureHasItsCause, CauseInv, flagVars, readerVars, hasherVars, writerVars
    <3> QED
      BY <3>6, <3>7, <3>8, <3>9, <3>10, <3>11, <3>12, <3>13, <3>14 DEF IInv
  <2> QED
    BY <2>1, <2>2
<1>5. ASSUME filled # << >>, IsData(p), atHash' = p, filled' = Tail(filled), hasher' = "panicked",
             UNCHANGED digest
      PROVE  IInv'
  <2>1. (Ended(filled') <=> Ended(filled)) /\ Buffers(filled') = Buffers(filled) - 1
    BY <1>1, <1>5, TakeData, Positions DEF p
  <2>2. HashedTo' = HashedTo
    BY <1>1, <1>5, Positions DEF HashedTo
  <2>3. TypeOK'
    BY <1>1, <1>2, <1>3, <1>5, <2>1, <2>2, Positions
       DEF IInv, TypeOK, flagVars, readerVars, hasherVars, writerVars
  <2>4. OrderedPrefixes'
    BY <1>1, <1>2, <1>3, <1>5, <2>1, <2>2, Positions
       DEF IInv, OrderedPrefixes, flagVars, readerVars, hasherVars, writerVars
  <2>5. HandInv'
    BY <1>1, <1>2, <1>3, <1>5, <2>1, <2>2, Positions
       DEF IInv, HandInv, flagVars, readerVars, hasherVars, writerVars
  <2>6. StreamInv'
    BY <1>1, <1>2, <1>3, <1>5, <2>1, <2>2, Positions
       DEF IInv, StreamInv, flagVars, readerVars, hasherVars, writerVars
  <2>7. WholeInv'
    BY <1>1, <1>2, <1>3, <1>5, <2>1, <2>2, Positions
       DEF IInv, WholeInv, StreamInv, Gone, flagVars, readerVars, hasherVars, writerVars
  <2>8. MarkInv'
    BY <1>1, <1>2, <1>3, <1>5, <2>1, <2>2, Positions
       DEF IInv, MarkInv, MarkOk, flagVars, readerVars, hasherVars, writerVars
  <2>9. CauseInv'
    BY <1>1, <1>2, <1>3, <1>5, <2>1, <2>2, Positions
       DEF IInv, CauseInv, Running, Gone, Staged, flagVars, readerVars, hasherVars, writerVars
  <2>10. BufferInv'
    <3>1. AtReader' = AtReader /\ AtWriter' = AtWriter /\ AtHasher = 0 /\ AtHasher' = 1
      BY <1>1, <1>5, Positions DEF AtReader, AtWriter, AtHasher, readerVars, writerVars
    <3>2. Buffers(filled') = Buffers(filled) - 1 /\ UNCHANGED <<free, hashed, depth>>
      BY <1>1, <2>1
    <3> QED
      BY <3>1, <3>2, Counts DEF BufferInv
  <2>11. FailureHasItsCause'
    BY <1>1, <1>2, <1>3, <1>5, <2>1, <2>2, Positions
       DEF IInv, FailureHasItsCause, CauseInv, flagVars, readerVars, hasherVars, writerVars
  <2> QED
    BY <2>3, <2>4, <2>5, <2>6, <2>7, <2>8, <2>9, <2>10, <2>11 DEF IInv
<1>6. ASSUME filled = << >>, Gone(reader) \/ stopped, hasher' = "exited",
             UNCHANGED <<atHash, filled, digest>>
      PROVE  IInv'
  <2>1. HashedTo' = HashedTo /\ ~Ended(filled)
    BY <1>1, <1>6, Positions DEF HashedTo, Ended
  <2>2. Running => canceled \/ reader = "panicked"
    BY <1>1, <1>6, <2>1 DEF IInv, CauseInv, Running
  <2>3. TypeOK'
    BY <1>1, <1>2, <1>6, <2>1, <2>2, Positions
       DEF IInv, TypeOK, flagVars, readerVars, hasherVars, writerVars
  <2>4. OrderedPrefixes'
    BY <1>1, <1>2, <1>6, <2>1, <2>2, Positions
       DEF IInv, OrderedPrefixes, flagVars, readerVars, hasherVars, writerVars
  <2>5. HandInv'
    BY <1>1, <1>2, <1>6, <2>1, <2>2, Positions
       DEF IInv, HandInv, flagVars, readerVars, hasherVars, writerVars
  <2>6. StreamInv'
    BY <1>1, <1>2, <1>6, <2>1, <2>2, Positions
       DEF IInv, StreamInv, flagVars, readerVars, hasherVars, writerVars
  <2>7. WholeInv'
    BY <1>1, <1>2, <1>6, <2>1, <2>2, Positions
       DEF IInv, WholeInv, StreamInv, Gone, flagVars, readerVars, hasherVars, writerVars
  <2>8. MarkInv'
    BY <1>1, <1>2, <1>6, <2>1, <2>2, Positions
       DEF IInv, MarkInv, MarkOk, flagVars, readerVars, hasherVars, writerVars
  <2>9. CauseInv'
    BY <1>1, <1>2, <1>6, <2>1, <2>2, Positions
       DEF IInv, CauseInv, Running, Gone, Staged, flagVars, readerVars, hasherVars, writerVars
  <2>10. BufferInv'
    <3>1. AtReader' = AtReader /\ AtWriter' = AtWriter /\ AtHasher' = AtHasher
      BY <1>1, <1>6 DEF AtReader, AtWriter, AtHasher, readerVars, writerVars
    <3>2. UNCHANGED <<free, filled, hashed, depth>>
      BY <1>1, <1>6
    <3> QED
      BY <3>1, <3>2, Counts DEF BufferInv
  <2>11. FailureHasItsCause'
    BY <1>1, <1>2, <1>6, <2>1, <2>2, Positions
       DEF IInv, FailureHasItsCause, CauseInv, flagVars, readerVars, hasherVars, writerVars
  <2> QED
    BY <2>3, <2>4, <2>5, <2>6, <2>7, <2>8, <2>9, <2>10, <2>11 DEF IInv
<1> QED
  BY <1>4, <1>5, <1>6 DEF HasherReceives, IsData, p

\* The hash stage hands its packet on, or drops it and leaves.
LEMMA HasherSendsStep == ASSUME IInv, HasherSends PROVE IInv'
<1>1. /\ hasher = "send" /\ Staged /\ ~Gone(hasher) /\ ~Ended(hashed) /\ hashed \in Seq(Packets)
      /\ atHash \in Packets /\ atHash.kind # "none" /\ MarkOk(atHash)
      /\ ~IsData(atHash) => reader = "exited" /\ Len(digest) = read
      /\ IsData(atHash) => atHash.count >= 1 /\ atHash.from = HashedTo + 1
      /\ atHash' = NoPacket /\ NoPacket \in Packets
      /\ UNCHANGED <<depth, flagVars, free, filled, digest, readerVars, writerVars>>
  BY Positions, MakePacket DEF HasherSends, IInv, TypeOK, HandInv, MarkInv, Gone
<1>2. /\ HashedTo + atHash.count = Len(digest) /\ HashedTo <= Len(digest)
      /\ ~IsData(atHash) => HashedTo = Len(digest)
  <2>1. HashedTo = Len(digest) - atHash.count
    BY <1>1 DEF HashedTo
  <2>2. ~IsData(atHash) => atHash.count = 0
    BY <1>1, PacketType
  <2> QED
    BY <2>1, <2>2, Bounds
<1>3. /\ Taken' = Taken /\ ReadTo' = ReadTo /\ (Staged' <=> Staged) /\ (Running' <=> Running)
  BY <1>1 DEF Taken, ReadTo, Staged, Running, readerVars, writerVars
<1>4. ASSUME hasher' # "send" PROVE HashedTo' = Len(digest)
  BY <1>1, <1>4, Positions DEF HashedTo
<1>5. ASSUME Len(hashed) < depth, hashed' = Append(hashed, atHash),
             hasher' = IF atHash.kind = "data" THEN "recv" ELSE "exited"
      PROVE  IInv'
  <2>1. /\ hashed' \in Seq(Packets) /\ Len(hashed') = Len(hashed) + 1
        /\ hashed'[Len(hashed) + 1] = atHash
        /\ \A i \in 1 .. Len(hashed') : \/ i \in 1 .. Len(hashed) /\ hashed'[i] = hashed[i]
                                        \/ hashed'[i] = atHash
    BY <1>1, <1>5, AppendProperties, Positions, SMTT(60)
  <2>2. ASSUME Flows(hashed, Taken, HashedTo), Reaches(hashed, Taken, HashedTo)
        PROVE  Flows(hashed', Taken, Len(digest)) /\ Reaches(hashed', Taken, Len(digest))
    <3>1. CASE IsData(atHash)
      <4>1. /\ Flows(hashed', Taken, HashedTo + atHash.count)
            /\ Reaches(hashed', Taken, HashedTo + atHash.count)
        BY <3>1, <1>1, <1>5, <2>2, Bounds, AppendData
      <4> QED
        BY <4>1, <1>2
    <3>2. CASE ~IsData(atHash)
      <4>1. Flows(hashed', Taken, HashedTo) /\ Reaches(hashed', Taken, HashedTo)
        BY <3>2, <1>1, <1>5, <2>2, Bounds, AppendMark
      <4> QED
        BY <4>1, <3>2, <1>2
    <3> QED
      BY <3>1, <3>2
  <2>3. /\ Ended(hashed') <=> ~IsData(atHash)
        /\ Buffers(hashed') = Buffers(hashed) + IF IsData(atHash) THEN 1 ELSE 0
    <3>1. Len(hashed') > 0 /\ hashed'[Len(hashed')] = atHash
      BY <2>1, Positions
    <3>2. hashed' # << >>
      BY <3>1, EmptySeq
    <3>3. Ended(hashed') <=> ~IsData(atHash)
      BY <3>1, <3>2 DEF Ended
    <3> QED
      BY <3>3, <2>1, <1>1, Positions DEF Buffers
  <2>4. HashedTo' = Len(digest) /\ (Gone(hasher') <=> ~IsData(atHash))
    BY <1>4, <1>5 DEF IsData, Gone
  <2>whole. Running => Flows(hashed', Taken, Len(digest)) /\ Reaches(hashed', Taken, Len(digest))
    BY <1>1, <2>2 DEF IInv, StreamInv, WholeInv
  <2>5. TypeOK'
    BY <1>1, <1>2, <1>3, <1>5, <2>1, <2>2, <2>3, <2>4, Positions
       DEF IInv, TypeOK, flagVars, readerVars, hasherVars, writerVars
  <2>6. OrderedPrefixes'
    BY <1>1, <1>2, <1>3, <1>5, <2>1, <2>2, <2>3, <2>4, Positions
       DEF IInv, OrderedPrefixes, flagVars, readerVars, hasherVars, writerVars
  <2>7. HandInv'
    BY <1>1, <1>2, <1>3, <1>5, <2>1, <2>2, <2>3, <2>4, Positions
       DEF IInv, HandInv, IsData, flagVars, readerVars, hasherVars, writerVars
  <2>8. StreamInv'
    BY <1>1, <1>3, <1>5, <2>4, <2>whole, Positions
       DEF IInv, StreamInv, flagVars, readerVars, hasherVars, writerVars
  <2>9. WholeInv'
    BY <1>1, <1>3, <1>5, <2>4, <2>whole, Positions
       DEF IInv, WholeInv, Gone, flagVars, readerVars, hasherVars, writerVars
  <2>10. MarkInv'
    BY <1>1, <1>2, <1>3, <1>5, <2>1, <2>2, <2>3, <2>4, Positions
       DEF IInv, MarkInv, MarkOk, IsData, flagVars, readerVars, hasherVars, writerVars
  <2>11. CauseInv'
    BY <1>1, <1>2, <1>3, <1>5, <2>1, <2>2, <2>3, <2>4, Positions
       DEF IInv, CauseInv, Running, Gone, Staged, IsData, flagVars, readerVars, hasherVars,
           writerVars
  <2>12. BufferInv'
    <3>1. AtReader' = AtReader /\ AtWriter' = AtWriter /\ AtHasher' = 0
      BY <1>1, Positions DEF AtReader, AtWriter, AtHasher, readerVars, writerVars, hasherVars
    <3>2. AtHasher = IF IsData(atHash) THEN 1 ELSE 0
      BY DEF AtHasher
    <3>3. Buffers(hashed') = Buffers(hashed) + AtHasher /\ UNCHANGED <<free, filled, depth>>
      BY <1>1, <2>3, <3>2
    <3> QED
      BY <3>1, <3>2, <3>3, Counts DEF BufferInv
  <2>13. FailureHasItsCause'
    BY <1>1, <1>2, <1>3, <1>5, <2>1, <2>2, <2>3, <2>4, Positions
       DEF IInv, FailureHasItsCause, CauseInv, flagVars, readerVars, hasherVars, writerVars
  <2> QED
    BY <2>5, <2>6, <2>7, <2>8, <2>9, <2>10, <2>11, <2>12, <2>13 DEF IInv
<1>6. ASSUME Len(hashed) = depth, stopped, hasher' = "exited", UNCHANGED hashed
      PROVE  IInv'
  <2>1. Running => canceled
    BY <1>6 DEF IInv, CauseInv, Running
  <2>2. Flows(hashed, Taken, HashedTo) => Flows(hashed, Taken, Len(digest))
    BY <1>1, <1>2, Positions, StreamFacts
  <2>3. HashedTo' = Len(digest)
    BY <1>4, <1>6
  <2>4. TypeOK'
    BY <1>1, <1>2, <1>3, <1>6, <2>1, <2>2, <2>3, Positions
       DEF IInv, TypeOK, flagVars, readerVars, hasherVars, writerVars
  <2>5. OrderedPrefixes'
    BY <1>1, <1>2, <1>3, <1>6, <2>1, <2>2, <2>3, Positions
       DEF IInv, OrderedPrefixes, flagVars, readerVars, hasherVars, writerVars
  <2>6. HandInv'
    BY <1>1, <1>2, <1>3, <1>6, <2>1, <2>2, <2>3, Positions
       DEF IInv, HandInv, flagVars, readerVars, hasherVars, writerVars
  <2>7. StreamInv'
    BY <1>1, <1>2, <1>3, <1>6, <2>1, <2>2, <2>3, Positions
       DEF IInv, StreamInv, flagVars, readerVars, hasherVars, writerVars
  <2>8. WholeInv'
    BY <1>1, <1>2, <1>3, <1>6, <2>1, <2>2, <2>3, Positions
       DEF IInv, WholeInv, StreamInv, Gone, flagVars, readerVars, hasherVars, writerVars
  <2>9. MarkInv'
    BY <1>1, <1>2, <1>3, <1>6, <2>1, <2>2, <2>3, Positions
       DEF IInv, MarkInv, MarkOk, flagVars, readerVars, hasherVars, writerVars
  <2>10. CauseInv'
    BY <1>1, <1>2, <1>3, <1>6, <2>1, <2>2, <2>3, Positions
       DEF IInv, CauseInv, Running, Gone, Staged, flagVars, readerVars, hasherVars, writerVars
  <2>11. BufferInv'
    <3>1. AtReader' = AtReader /\ AtWriter' = AtWriter /\ AtHasher' = 0
      BY <1>1, Positions DEF AtReader, AtWriter, AtHasher, readerVars, writerVars, hasherVars
    <3>2. UNCHANGED <<free, filled, hashed, depth>>
      BY <1>1, <1>6
    <3> QED
      BY <3>1, <3>2, Counts DEF BufferInv
  <2>12. FailureHasItsCause'
    BY <1>1, <1>2, <1>3, <1>6, <2>1, <2>2, <2>3, Positions
       DEF IInv, FailureHasItsCause, CauseInv, flagVars, readerVars, hasherVars, writerVars
  <2> QED
    BY <2>4, <2>5, <2>6, <2>7, <2>8, <2>9, <2>10, <2>11, <2>12 DEF IInv
<1> QED
  BY <1>1, <1>5, <1>6 DEF HasherSends

\* The writer takes a packet, or finds its channel closed.
LEMMA WriterReceivesStep == ASSUME IInv, WriterReceives PROVE IInv'
<1> DEFINE p == Head(Incoming)
           hi == IF Staged THEN HashedTo ELSE ReadTo
<1>1. /\ writer = "recv" /\ Running /\ Taken = Len(dest) /\ result = "ok" /\ hi \in Nat
      /\ Incoming \in Seq(Packets) /\ Flows(Incoming, Taken, hi)
      /\ Ended(Incoming) => Reaches(Incoming, Taken, hi)
      /\ UNCHANGED <<depth, flagVars, free, readerVars, hasherVars, dest>>
  BY Positions, SMTT(60)
     DEF WriterReceives, IInv, TypeOK, StreamInv, WholeInv, CauseInv, Incoming, Running, Taken
<1>2. /\ HashedTo' = HashedTo /\ ReadTo' = ReadTo /\ (Staged' <=> Staged)
  BY <1>1 DEF HashedTo, ReadTo, Staged, readerVars, hasherVars
<1>3. ASSUME Incoming # << >>
      PROVE  /\ p \in Packets /\ p.kind # "none" /\ MarkOk(p)
             /\ ~IsData(p) => reader = "exited" /\ hi = read
             /\ Tail(Incoming) \in Seq(Packets) /\ Len(Tail(Incoming)) = Len(Incoming) - 1
             /\ \A i \in 1 .. Len(Tail(Incoming)) :
                  i + 1 \in 1 .. Len(Incoming) /\ Tail(Incoming)[i] = Incoming[i + 1]
  <2> DEFINE s == Incoming
  <2>1. Len(s) \in Nat /\ Len(s) > 0 /\ p = s[1] /\ p \in Packets
    BY <1>1, <1>3, EmptySeq, HeadTailProperties, LenProperties
  <2>2. /\ Tail(s) \in Seq(Packets) /\ Len(Tail(s)) = Len(s) - 1
        /\ \A i \in 1 .. Len(Tail(s)) : Tail(s)[i] = s[i + 1]
    BY <1>1, <1>3, HeadTailProperties
  <2>3. \A i \in 1 .. Len(s) - 1 : i + 1 \in 1 .. Len(s)
    BY <2>1
  <2>4. 1 \in 1 .. Len(s)
    BY <2>1
  <2>5. p.kind # "none" /\ MarkOk(p)
    <3>1. CASE Staged
      BY <3>1, <2>1, <2>4 DEF IInv, HandInv, MarkInv, Incoming
    <3>2. CASE ~Staged
      BY <3>2, <2>1, <2>4 DEF IInv, HandInv, MarkInv, Incoming
    <3> QED
      BY <3>1, <3>2
  <2>6. ASSUME ~IsData(p) PROVE reader = "exited" /\ hi = read
    <3>1. CASE Staged
      <4>1. reader = "exited" /\ hasher = "exited" /\ Len(digest) = read
        BY <3>1, <2>1, <2>4, <2>6 DEF IInv, MarkInv, Incoming
      <4> QED
        BY <3>1, <4>1, Bounds DEF HashedTo
    <3>2. CASE ~Staged
      <4>1. reader = "exited"
        BY <3>2, <2>1, <2>4, <2>6 DEF IInv, MarkInv, Incoming
      <4> QED
        BY <3>2, <4>1, Positions DEF ReadTo, IInv, HandInv
    <3> QED
      BY <3>1, <3>2
  <2> QED
    BY <2>1, <2>2, <2>3, <2>5, <2>6
<1>4. ASSUME Incoming # << >>, current' = p,
             filled' = IF Staged THEN filled ELSE Tail(filled),
             hashed' = IF Staged THEN Tail(hashed) ELSE hashed
      PROVE  /\ \A i \in 1 .. Len(filled') : \E j \in 1 .. Len(filled) : filled'[i] = filled[j]
             /\ \A i \in 1 .. Len(hashed') : \E j \in 1 .. Len(hashed) : hashed'[i] = hashed[j]
             /\ filled' \in Seq(Packets) /\ Len(filled') <= depth
             /\ hashed' \in Seq(Packets) /\ Len(hashed') <= depth
             /\ p \in Packets
  <2>1. CASE Staged
    <3>1. /\ hashed' = Tail(hashed) /\ filled' = filled
          /\ Tail(hashed) \in Seq(Packets) /\ Len(Tail(hashed)) = Len(hashed) - 1
          /\ \A i \in 1 .. Len(Tail(hashed)) :
               i + 1 \in 1 .. Len(hashed) /\ Tail(hashed)[i] = hashed[i + 1]
      BY <2>1, <1>3, <1>4 DEF Incoming
    <3> QED
      BY <3>1, <1>3, <1>4, Positions, SMTT(60) DEF IInv, TypeOK
  <2>2. CASE ~Staged
    <3>1. /\ filled' = Tail(filled) /\ hashed' = hashed
          /\ Tail(filled) \in Seq(Packets) /\ Len(Tail(filled)) = Len(filled) - 1
          /\ \A i \in 1 .. Len(Tail(filled)) :
               i + 1 \in 1 .. Len(filled) /\ Tail(filled)[i] = filled[i + 1]
      BY <2>2, <1>3, <1>4 DEF Incoming
    <3>2. \A i \in 1 .. Len(filled') : \E j \in 1 .. Len(filled) : filled'[i] = filled[j]
      BY <3>1
    <3>3. \A i \in 1 .. Len(hashed') : \E j \in 1 .. Len(hashed) : hashed'[i] = hashed[j]
      BY <3>1
    <3>4. Len(filled') <= depth /\ Len(hashed') <= depth /\ hashed' \in Seq(Packets)
      BY <3>1, Positions DEF IInv, TypeOK
    <3> QED
      BY <3>1, <3>2, <3>3, <3>4, <1>3, <1>4
  <2> QED
    BY <2>1, <2>2
<1> HIDE DEF p, hi
<1>5. ASSUME Incoming # << >>, current' = p, IsData(p), writer' = "write", UNCHANGED result,
             filled' = IF Staged THEN filled ELSE Tail(filled),
             hashed' = IF Staged THEN Tail(hashed) ELSE hashed
      PROVE  IInv'
  <2>1. /\ p.from = Taken + 1 /\ p.count \in Nat /\ p.count >= 1
        /\ Flows(Tail(Incoming), Taken + p.count, hi)
        /\ Reaches(Incoming, Taken, hi) => Reaches(Tail(Incoming), Taken + p.count, hi)
        /\ Ended(Tail(Incoming)) <=> Ended(Incoming)
        /\ Buffers(Tail(Incoming)) = Buffers(Incoming) - 1
    BY <1>1, <1>5, TakeData, Positions DEF p
  <2>2. Taken' = Taken + p.count /\ (Running' <=> Running)
    BY <1>1, <1>5 DEF Taken, Running
  <2>3. /\ Staged => Incoming = hashed /\ hashed' = Tail(Incoming) /\ filled' = filled /\ hi = HashedTo
        /\ ~Staged => Incoming = filled /\ filled' = Tail(Incoming) /\ hashed' = hashed /\ hi = ReadTo
    BY <1>5 DEF Incoming, hi
  <2>4. TypeOK'
    BY <1>1, <1>2, <1>3, <1>4, <1>5, <2>1, <2>2, <2>3, Positions
       DEF IInv, TypeOK, flagVars, readerVars, hasherVars, writerVars
  <2>5. OrderedPrefixes'
    BY <1>1, <1>2, <1>3, <1>4, <1>5, <2>1, <2>2, <2>3, Positions
       DEF IInv, OrderedPrefixes, flagVars, readerVars, hasherVars, writerVars
  <2>6. HandInv'
    BY <1>1, <1>2, <1>3, <1>4, <1>5, <2>1, <2>2, <2>3, Positions
       DEF IInv, HandInv, flagVars, readerVars, hasherVars, writerVars
  <2>7. StreamInv'
    BY <1>1, <1>2, <1>3, <1>4, <1>5, <2>1, <2>2, <2>3, Positions
       DEF IInv, StreamInv, flagVars, readerVars, hasherVars, writerVars
  <2>8. WholeInv'
    BY <1>1, <1>2, <1>3, <1>4, <1>5, <2>1, <2>2, <2>3, Positions
       DEF IInv, WholeInv, StreamInv, Gone, flagVars, readerVars, hasherVars, writerVars
  <2>9. MarkInv'
    <3>1. /\ \A i \in 1 .. Len(filled') : \E j \in 1 .. Len(filled) : filled'[i] = filled[j]
          /\ \A i \in 1 .. Len(hashed') : \E j \in 1 .. Len(hashed) : hashed'[i] = hashed[j]
      BY <1>4, <1>5, Zenon
    <3>2. /\ UNCHANGED <<stopped, reader, read, inHand, atHash, hasher, digest>>
          /\ filled = <<>> => filled' = <<>>
      BY <1>1, <1>5, <2>3 DEF flagVars, readerVars, hasherVars
    <3>3. MarkInv
      BY DEF IInv
    <3>4. /\ \A i \in 1 .. Len(filled') : /\ MarkOk(filled'[i])
                                          /\ ~IsData(filled'[i]) => reader = "exited"
          /\ \A i \in 1 .. Len(hashed') : /\ MarkOk(hashed'[i])
                                          /\ ~IsData(hashed'[i]) =>
                                               reader = "exited" /\ hasher = "exited"
                                               /\ Len(digest) = read
      BY <3>1, <3>3, Zenon DEF MarkInv
    <3> QED
      BY <3>2, <3>3, <3>4 DEF MarkInv, MarkOk
  <2>10. CauseInv'
    BY <1>1, <1>2, <1>3, <1>4, <1>5, <2>1, <2>2, <2>3, Positions
       DEF IInv, CauseInv, Running, Gone, Staged, flagVars, readerVars, hasherVars, writerVars
  <2>11. BufferInv'
    <3>1. AtReader' = AtReader /\ AtHasher' = AtHasher /\ AtWriter = 0 /\ AtWriter' = 1
      BY <1>1, <1>5 DEF AtReader, AtWriter, AtHasher, readerVars, writerVars, hasherVars
    <3>2. UNCHANGED <<free, depth>>
      BY <1>1
    <3>3. CASE Staged
      <4>1. Buffers(hashed') = Buffers(hashed) - 1 /\ filled' = filled
        BY <3>3, <2>1, <2>3
      <4> QED
        BY <4>1, <3>1, <3>2, Counts DEF BufferInv
    <3>4. CASE ~Staged
      <4>1. Buffers(filled') = Buffers(filled) - 1 /\ hashed' = hashed
        BY <3>4, <2>1, <2>3
      <4> QED
        BY <4>1, <3>1, <3>2, Counts DEF BufferInv
    <3> QED
      BY <3>3, <3>4
  <2>12. FailureHasItsCause'
    BY <1>1, <1>2, <1>3, <1>4, <1>5, <2>1, <2>2, <2>3, Positions
       DEF IInv, FailureHasItsCause, CauseInv, flagVars, readerVars, hasherVars, writerVars
  <2> QED
    BY <2>4, <2>5, <2>6, <2>7, <2>8, <2>9, <2>10, <2>11, <2>12 DEF IInv
<1>6. ASSUME Incoming # << >>, current' = p, ~IsData(p), writer' = "stop",
             p.kind = "failed" => result' = "read",
             p.kind = "eof" => result' = "unexpected_eof",
             p.kind = "done" => result' = IF Len(dest) = Length THEN "ok" ELSE "unexpected_eof",
             filled' = IF Staged THEN filled ELSE Tail(filled),
             hashed' = IF Staged THEN Tail(hashed) ELSE hashed
      PROVE  IInv'
  <2>1. /\ Tail(Incoming) = << >> /\ Ended(Incoming) /\ Buffers(Incoming) = 0 /\ Taken = hi
    BY <1>1, <1>6, TakeMark, Positions DEF p
  <2>2. /\ reader = "exited" /\ Len(dest) = read /\ p.kind \in {"failed", "eof", "done"}
    BY <1>1, <1>3, <1>6, <2>1, PacketType DEF IsData
  <2>3. /\ Staged => Incoming = hashed /\ hashed' = Tail(Incoming) /\ filled' = filled
        /\ ~Staged => Incoming = filled /\ filled' = Tail(Incoming) /\ hashed' = hashed
    BY <1>6 DEF Incoming
  <2>4. ~Ended(<< >>) /\ Buffers(<< >>) = 0
    BY EmptyStream
  <2>5. ~Running'
    BY <1>6 DEF Running
  <2>6. /\ result' \in {"ok", "read", "unexpected_eof"} /\ (result' = "ok" => Len(dest) = Length)
        /\ result' # "ok" => read < Length
    BY <1>3, <1>6, <2>2 DEF MarkOk
  <2>7. TypeOK'
    BY <1>1, <1>2, <1>3, <1>4, <1>6, <2>1, <2>2, <2>3, <2>4, <2>5, <2>6, Positions
       DEF IInv, TypeOK, flagVars, readerVars, hasherVars, writerVars
  <2>8. OrderedPrefixes'
    BY <1>1, <1>2, <1>3, <1>4, <1>6, <2>1, <2>2, <2>3, <2>4, <2>5, <2>6, Positions
       DEF IInv, OrderedPrefixes, flagVars, readerVars, hasherVars, writerVars
  <2>9. HandInv'
    BY <1>1, <1>2, <1>3, <1>4, <1>6, <2>1, <2>2, <2>3, <2>4, <2>5, <2>6, Positions
       DEF IInv, HandInv, flagVars, readerVars, hasherVars, writerVars
  <2>10. StreamInv'
    BY <1>1, <1>2, <1>3, <1>4, <1>6, <2>1, <2>2, <2>3, <2>4, <2>5, <2>6, Positions
       DEF IInv, StreamInv, flagVars, readerVars, hasherVars, writerVars
  <2>11. WholeInv'
    BY <1>1, <1>2, <1>3, <1>4, <1>6, <2>1, <2>2, <2>3, <2>4, <2>5, <2>6, Positions
       DEF IInv, WholeInv, StreamInv, Gone, flagVars, readerVars, hasherVars, writerVars
  <2>12. MarkInv'
    BY <1>1, <1>2, <1>3, <1>4, <1>6, <2>1, <2>2, <2>3, <2>4, <2>5, <2>6, Positions, SMTT(60)
       DEF IInv, MarkInv, MarkOk, flagVars, readerVars, hasherVars, writerVars
  <2>13. CauseInv'
    BY <1>1, <1>2, <1>3, <1>4, <1>6, <2>1, <2>2, <2>3, <2>4, <2>5, <2>6, Positions
       DEF IInv, CauseInv, Running, Gone, Staged, flagVars, readerVars, hasherVars, writerVars
  <2>14. BufferInv'
    <3>1. AtReader' = AtReader /\ AtHasher' = AtHasher /\ AtWriter = 0 /\ AtWriter' = 0
      BY <1>1, <1>6 DEF AtReader, AtWriter, AtHasher, readerVars, writerVars, hasherVars
    <3>2. Buffers(filled') = Buffers(filled) /\ Buffers(hashed') = Buffers(hashed) /\ UNCHANGED <<free, depth>>
      BY <1>1, <2>1, <2>3, <2>4
    <3> QED
      BY <3>1, <3>2, Counts DEF BufferInv
  <2>whole. FailureHasItsCause'
    BY <1>1, <1>2, <1>3, <1>4, <1>6, <2>1, <2>2, <2>3, <2>4, <2>5, <2>6, Positions
       DEF IInv, FailureHasItsCause, CauseInv, flagVars, readerVars, hasherVars, writerVars
  <2> QED
    BY <2>7, <2>8, <2>9, <2>10, <2>11, <2>12, <2>13, <2>14, <2>whole DEF IInv
<1>7. ASSUME Incoming = << >>, UNCHANGED <<current, filled, hashed>>, writer' = "stop",
             \/ Gone(Sender) /\ result' = "reader_panicked"
             \/ canceled /\ result' = "canceled"
      PROVE  IInv'
  <2>1. result' = "reader_panicked" => canceled \/ "panicked" \in {reader, hasher}
    <3>1. CASE Staged
      BY <3>1, <1>1, <1>7, EmptyStream DEF Sender, Incoming, Gone, IInv, CauseInv, Ended
    <3>2. CASE ~Staged
      BY <3>2, <1>1, <1>7, EmptyStream
         DEF Sender, Incoming, Gone, IInv, CauseInv, HandInv, Ended
    <3> QED
      BY <3>1, <3>2
  <2>2. ~Running'
    BY <1>7 DEF Running
  <2>3. TypeOK'
    BY <1>1, <1>2, <1>7, <2>1, <2>2, Positions
       DEF IInv, TypeOK, flagVars, readerVars, hasherVars, writerVars
  <2>4. OrderedPrefixes'
    BY <1>1, <1>2, <1>7, <2>1, <2>2, Positions
       DEF IInv, OrderedPrefixes, flagVars, readerVars, hasherVars, writerVars
  <2>5. HandInv'
    BY <1>1, <1>2, <1>7, <2>1, <2>2, Positions
       DEF IInv, HandInv, flagVars, readerVars, hasherVars, writerVars
  <2>6. StreamInv'
    BY <1>1, <1>2, <1>7, <2>1, <2>2, Positions
       DEF IInv, StreamInv, flagVars, readerVars, hasherVars, writerVars
  <2>7. WholeInv'
    BY <1>1, <1>2, <1>7, <2>1, <2>2, Positions
       DEF IInv, WholeInv, StreamInv, Gone, flagVars, readerVars, hasherVars, writerVars
  <2>8. MarkInv'
    BY <1>1, <1>2, <1>7, <2>1, <2>2, Positions
       DEF IInv, MarkInv, MarkOk, flagVars, readerVars, hasherVars, writerVars
  <2>9. CauseInv'
    BY <1>1, <1>2, <1>7, <2>1, <2>2, Positions
       DEF IInv, CauseInv, Running, Gone, Staged, flagVars, readerVars, hasherVars, writerVars
  <2>10. BufferInv'
    <3>1. AtReader' = AtReader /\ AtHasher' = AtHasher /\ AtWriter = 0 /\ AtWriter' = 0
      BY <1>1, <1>7 DEF AtReader, AtWriter, AtHasher, readerVars, writerVars, hasherVars
    <3>2. UNCHANGED <<free, filled, hashed, depth>>
      BY <1>1, <1>7
    <3> QED
      BY <3>1, <3>2, Counts DEF BufferInv
  <2>11. FailureHasItsCause'
    BY <1>1, <1>2, <1>7, <2>1, <2>2, Positions
       DEF IInv, FailureHasItsCause, CauseInv, flagVars, readerVars, hasherVars, writerVars
  <2> QED
    BY <2>3, <2>4, <2>5, <2>6, <2>7, <2>8, <2>9, <2>10, <2>11 DEF IInv
<1> QED
  <2>1. CASE Incoming # << >>
    <3>1. p.kind \in {"data", "failed", "eof", "done"}
      BY <1>3, <2>1, PacketType
    <3> QED
      BY <3>1, <2>1, <1>5, <1>6 DEF WriterReceives, Ends, IsData, p
  <2>2. CASE Incoming = << >>
    BY <2>2, <1>7 DEF WriterReceives, Ends
  <2> QED
    BY <2>1, <2>2

\* A write call, or its failure.
LEMMA WriterWritesStep == ASSUME IInv, WriterWrites PROVE IInv'
<1>1. /\ writer = "write" /\ Running /\ Taken = Len(dest) + current.count /\ result = "ok"
      /\ IsData(current) /\ current.from = Len(dest) + 1 /\ current \in Packets
      /\ dest \in Seq(1 .. Length) /\ InOrder(dest)
      /\ UNCHANGED <<depth, flagVars, free, filled, hashed, readerVars, hasherVars>>
  BY DEF WriterWrites, IInv, TypeOK, OrderedPrefixes, HandInv, CauseInv, Running, Taken
<1>2. HashedTo' = HashedTo /\ ReadTo' = ReadTo /\ (Staged' <=> Staged)
  BY <1>1 DEF HashedTo, ReadTo, Staged, readerVars, hasherVars
<1>3. Taken <= Len(digest)
  <2>1. CASE Staged
    <3>1. Taken <= HashedTo
      BY <2>1, <1>1 DEF IInv, StreamInv, Flows
    <3>2. HashedTo <= Len(digest)
      BY Bounds DEF HashedTo
    <3> QED
      BY <3>1, <3>2, Bounds
  <2>2. CASE ~Staged
    <3>1. Taken <= ReadTo /\ Len(digest) = read
      BY <2>2, <1>1 DEF IInv, StreamInv, Flows
    <3> QED
      BY <3>1, Bounds
  <2> QED
    BY <2>1, <2>2
<1>4. ASSUME writer' = "stop", UNCHANGED <<dest, current>>,
             \/ canceled /\ result' = "canceled"
             \/ result' = "write"
      PROVE  IInv'
  <2>1. ~Running'
    BY <1>4 DEF Running
  <2>2. TypeOK'
    BY <1>1, <1>2, <1>4, <2>1, Positions
       DEF IInv, TypeOK, flagVars, readerVars, hasherVars, writerVars
  <2>3. OrderedPrefixes'
    BY <1>1, <1>2, <1>4, <2>1, Positions
       DEF IInv, OrderedPrefixes, flagVars, readerVars, hasherVars, writerVars
  <2>4. HandInv'
    BY <1>1, <1>2, <1>4, <2>1, Positions
       DEF IInv, HandInv, flagVars, readerVars, hasherVars, writerVars
  <2>5. StreamInv'
    BY <1>1, <1>2, <1>4, <2>1, Positions
       DEF IInv, StreamInv, flagVars, readerVars, hasherVars, writerVars
  <2>6. WholeInv'
    BY <1>1, <1>2, <1>4, <2>1, Positions
       DEF IInv, WholeInv, StreamInv, Gone, flagVars, readerVars, hasherVars, writerVars
  <2>7. MarkInv'
    BY <1>1, <1>2, <1>4, <2>1, Positions
       DEF IInv, MarkInv, MarkOk, flagVars, readerVars, hasherVars, writerVars
  <2>8. CauseInv'
    BY <1>1, <1>2, <1>4, <2>1, Positions
       DEF IInv, CauseInv, Running, Gone, Staged, flagVars, readerVars, hasherVars, writerVars
  <2>9. BufferInv'
    <3>1. AtReader' = AtReader /\ AtHasher' = AtHasher /\ AtWriter = 1 /\ AtWriter' = 0
      BY <1>1, <1>4 DEF AtReader, AtWriter, AtHasher, readerVars, writerVars, hasherVars
    <3>2. UNCHANGED <<free, filled, hashed, depth>>
      BY <1>1
    <3> QED
      BY <3>1, <3>2, Counts DEF BufferInv
  <2>10. FailureHasItsCause'
    BY <1>1, <1>2, <1>4, <2>1, Positions
       DEF IInv, FailureHasItsCause, CauseInv, flagVars, readerVars, hasherVars, writerVars
  <2> QED
    BY <2>2, <2>3, <2>4, <2>5, <2>6, <2>7, <2>8, <2>9, <2>10 DEF IInv
<1>5. ASSUME NEW count \in 1 .. current.count,
             dest' = dest \o Units(Data(current.from, count)),
             current' = Data(current.from + count, current.count - count),
             UNCHANGED <<writer, result>>
      PROVE  IInv'
  <2>1. /\ count \in Nat /\ count >= 1 /\ count <= current.count /\ current.count \in Nat
        /\ current.count <= Request
    BY <1>1, <1>5, Positions, PacketType, SMTT(60)
  <2>2. Len(dest) + count <= Len(digest) /\ Len(dest) + count <= Length
    BY <1>1, <1>3, <2>1, Bounds
  <2>3. dest' \in Seq(1 .. Length) /\ InOrder(dest') /\ Len(dest') = Len(dest) + count
    BY <1>1, <1>5, <2>1, <2>2, AppendUnits
  <2>4. current.from + count \in 1 .. Length + 1 /\ current.count - count \in 0 .. Request
    <3>1. Request \in Nat /\ Len(dest) \in Nat /\ Length \in Nat
      BY Bounds, PipelineAssumption
    <3>2. current.from + count = Len(dest) + count + 1
      BY <3>1, <1>1, <2>1
    <3>3. current.count - count \in 0 .. Request
      BY <3>1, <2>1
    <3> QED
      BY <3>1, <3>2, <3>3, <2>1, <2>2
  <2>5. /\ current' \in Packets /\ IsData(current') /\ current'.from = Len(dest') + 1
        /\ current'.count = current.count - count
    <3>1. current.from + count = Len(dest') + 1
      BY <1>1, <2>1, <2>3, Bounds
    <3> QED
      BY <3>1, <2>4, <1>5, MakePacket
  <2>6. Taken' = Taken /\ (Running' <=> Running)
    <3>1. Taken' = (Len(dest) + count) + (current.count - count)
      BY <1>1, <1>5, <2>3, <2>5 DEF Taken
    <3>2. Taken' = Taken
      BY <3>1, <2>1, <1>1, Bounds, SMTT(60)
    <3> QED
      BY <3>2, <1>5 DEF Running
  <2>7. TypeOK'
    BY <1>1, <1>2, <1>5, <2>1, <2>2, <2>3, <2>5, <2>6, Positions
       DEF IInv, TypeOK, flagVars, readerVars, hasherVars, writerVars
  <2>8. OrderedPrefixes'
    BY <1>1, <1>2, <1>5, <2>1, <2>2, <2>3, <2>5, <2>6, Positions
       DEF IInv, OrderedPrefixes, flagVars, readerVars, hasherVars, writerVars
  <2>9. HandInv'
    BY <1>1, <1>2, <1>5, <2>1, <2>2, <2>3, <2>5, <2>6, Positions
       DEF IInv, HandInv, flagVars, readerVars, hasherVars, writerVars
  <2>10. StreamInv'
    BY <1>1, <1>2, <1>5, <2>1, <2>2, <2>3, <2>5, <2>6, Positions
       DEF IInv, StreamInv, flagVars, readerVars, hasherVars, writerVars
  <2>11. WholeInv'
    BY <1>1, <1>2, <1>5, <2>1, <2>2, <2>3, <2>5, <2>6, Positions
       DEF IInv, WholeInv, StreamInv, Gone, flagVars, readerVars, hasherVars, writerVars
  <2>12. MarkInv'
    BY <1>1, <1>2, <1>5, <2>1, <2>2, <2>3, <2>5, <2>6, Positions
       DEF IInv, MarkInv, MarkOk, flagVars, readerVars, hasherVars, writerVars
  <2>13. CauseInv'
    BY <1>1, <1>2, <1>5, <2>1, <2>2, <2>3, <2>5, <2>6, Positions
       DEF IInv, CauseInv, Running, Gone, Staged, flagVars, readerVars, hasherVars, writerVars
  <2>14. BufferInv'
    <3>1. AtReader' = AtReader /\ AtHasher' = AtHasher /\ AtWriter' = AtWriter
      BY <1>1, <1>5 DEF AtReader, AtWriter, AtHasher, readerVars, writerVars, hasherVars
    <3>2. UNCHANGED <<free, filled, hashed, depth>>
      BY <1>1
    <3> QED
      BY <3>1, <3>2, Counts DEF BufferInv
  <2>whole. FailureHasItsCause'
    BY <1>1, <1>2, <1>5, <2>1, <2>2, <2>3, <2>5, <2>6, Positions
       DEF IInv, FailureHasItsCause, CauseInv, flagVars, readerVars, hasherVars, writerVars
  <2> QED
    BY <2>7, <2>8, <2>9, <2>10, <2>11, <2>12, <2>13, <2>14, <2>whole DEF IInv
<1> QED
  BY <1>4, <1>5 DEF WriterWrites, Ends

\* The writer gives the empty buffer back.
LEMMA WriterReturnsBufferStep == ASSUME IInv, WriterReturnsBuffer PROVE IInv'
<1>1. /\ writer = "write" /\ Running /\ writer' = "loop" /\ current.count = 0 /\ free' = free + 1
      /\ current' = NoPacket /\ NoPacket \in Packets
      /\ UNCHANGED <<depth, flagVars, filled, hashed, readerVars, hasherVars, dest, result>>
  BY MakePacket DEF WriterReturnsBuffer, Running
<1>2. /\ HashedTo' = HashedTo /\ ReadTo' = ReadTo /\ (Staged' <=> Staged) /\ Running'
      /\ Taken' = Taken
  BY <1>1, Positions DEF HashedTo, ReadTo, Staged, Running, Taken, readerVars, hasherVars
<1>3. AtWriter = 1 /\ AtWriter' = 0 /\ AtReader' = AtReader /\ AtHasher' = AtHasher
  BY <1>1 DEF AtReader, AtHasher, AtWriter, readerVars, hasherVars
<1>4. free' \in 0 .. depth
  BY <1>1, <1>3, Counts
<1>5. TypeOK'
  BY <1>1, <1>2, <1>4, Positions DEF IInv, TypeOK, flagVars, readerVars, hasherVars, writerVars
<1>6. OrderedPrefixes'
  BY <1>1, <1>2, <1>4, Positions
     DEF IInv, OrderedPrefixes, flagVars, readerVars, hasherVars, writerVars
<1>7. HandInv'
  BY <1>1, <1>2, <1>4, Positions DEF IInv, HandInv, flagVars, readerVars, hasherVars, writerVars
<1>8. StreamInv'
  BY <1>1, <1>2, <1>4, Positions
     DEF IInv, StreamInv, flagVars, readerVars, hasherVars, writerVars
<1>9. WholeInv'
  BY <1>1, <1>2, <1>4, Positions
     DEF IInv, WholeInv, StreamInv, Gone, flagVars, readerVars, hasherVars, writerVars
<1>10. MarkInv'
  BY <1>1, <1>2, <1>4, Positions
     DEF IInv, MarkInv, MarkOk, flagVars, readerVars, hasherVars, writerVars
<1>11. CauseInv'
  BY <1>1, <1>2, <1>4, Positions
     DEF IInv, CauseInv, Running, Gone, Staged, flagVars, readerVars, hasherVars, writerVars
<1>12. BufferInv'
  BY <1>1, <1>3, Counts DEF BufferInv
<1>13. FailureHasItsCause'
  BY <1>1, <1>2, <1>4, Positions
     DEF IInv, FailureHasItsCause, CauseInv, flagVars, readerVars, hasherVars, writerVars
<1> QED
  BY <1>5, <1>6, <1>7, <1>8, <1>9, <1>10, <1>11, <1>12, <1>13 DEF IInv

-----------------------------------------------------------------------------
(* The theorems.                                                             *)

\* It holds at the call.
LEMMA InitIInv == ASSUME Init PROVE IInv
<1>1. /\ depth \in {2, 3} /\ Len(filled) = 0 /\ Len(hashed) = 0 /\ Len(digest) = 0 /\ Len(dest) = 0
      /\ (Staged => depth = 3) /\ (~Staged => depth = 2)
  BY DEF Init, PIPELINE_BUFFERS, LOCAL_PIPELINE_BUFFERS, Staged
<1>2. NoPacket \in Packets /\ NoPacket.kind = "none" /\ NoPacket.count = 0 /\ ~IsData(NoPacket)
  BY MakePacket DEF IsData
<1>3. /\ Taken = 0 /\ HashedTo = 0 /\ ReadTo = 0
  BY <1>1, <1>2 DEF Init, Taken, HashedTo, ReadTo
<1>4. Flows(<< >>, 0, 0) /\ Reaches(<< >>, 0, 0) /\ ~Ended(<< >>) /\ Buffers(<< >>) = 0
  BY EmptyStream
<1>5. Length \in Nat /\ Length > 0
  BY PipelineAssumption
<1>6. TypeOK
  <2>1. << >> \in Seq(Packets) /\ << >> \in Seq(1 .. Length)
    OBVIOUS
  <2>2. free \in 0 .. depth
    BY <1>1 DEF Init
  <2>3. hasher \in {"recv", "exited"}
    BY DEF Init
  <2>4. Len(filled) <= depth /\ Len(hashed) <= depth /\ read \in 0 .. Length
    BY <1>1, <1>5 DEF Init
  <2>5. depth \in {PIPELINE_BUFFERS, LOCAL_PIPELINE_BUFFERS}
    BY DEF Init
  <2>6. {inHand, atHash, current} \subseteq Packets
    BY <1>2 DEF Init
  <2> QED
    BY <2>1, <2>2, <2>3, <2>4, <2>5, <2>6 DEF Init, TypeOK
<1>7. OrderedPrefixes
  <2>1. InOrder(<< >>)
    BY DEF InOrder
  <2> QED
    BY <1>1, <2>1 DEF Init, OrderedPrefixes
<1>8. HandInv
  BY <1>1, <1>2 DEF Init, HandInv
<1>9. StreamInv /\ WholeInv
  BY <1>1, <1>3, <1>4 DEF Init, StreamInv, WholeInv
<1>10. MarkInv /\ CauseInv
  BY <1>1, <1>2, <1>5 DEF Init, MarkInv, MarkOk, CauseInv, Running, Gone
<1>11. BufferInv
  BY <1>1, <1>2, <1>4 DEF Init, BufferInv, AtReader, AtHasher, AtWriter
<1>12. FailureHasItsCause
  BY DEF Init, FailureHasItsCause
<1> QED
  BY <1>6, <1>7, <1>8, <1>9, <1>10, <1>11, <1>12 DEF IInv

\* Every step of the three threads and the caller keeps it.
LEMMA NextIInv == ASSUME IInv, [Next]_vars PROVE IInv'
<1>1. CASE Reader
  BY <1>1, ReaderLoopStep, ReaderTakesBufferStep, ReaderReadsStep, ReaderSendsStep,
     ReaderAfterStep, ReaderDoneStep DEF Reader
<1>2. CASE Hasher
  BY <1>2, HasherReceivesStep, HasherSendsStep DEF Hasher
<1>3. CASE Writer
  BY <1>3, WriterLoopStep, WriterReceivesStep, WriterWritesStep, WriterReturnsBufferStep,
     WriterStopsStep, WriterJoinsStep DEF Writer
<1>4. CASE Cancel
  BY <1>4, CancelStep
<1>5. CASE UNCHANGED vars
  BY <1>5 DEF IInv, TypeOK, OrderedPrefixes, HandInv, StreamInv, WholeInv, MarkInv, MarkOk,
     CauseInv, BufferInv, AtReader, AtHasher, AtWriter, FailureHasItsCause, Running, Taken,
     HashedTo, ReadTo, Gone, Staged, vars, flagVars, readerVars, hasherVars, writerVars
<1> QED
  BY <1>1, <1>2, <1>3, <1>4, <1>5 DEF Next

\* The invariant holds of every execution.
THEOREM Invariance == Spec => []IInv
<1>1. Init => IInv
  BY InitIInv
<1>2. IInv /\ [Next]_vars => IInv'
  BY NextIInv
<1> QED
  BY <1>1, <1>2, PTL DEF Spec

\* The channels stay within their capacity, and so do the free buffers: no buffer
\* is returned twice (transfer_pipelined's bounded channels of depth buffers).
THEOREM TypeCorrect == Spec => []TypeOK
<1>1. IInv => TypeOK
  BY DEF IInv
<1> QED
  BY <1>1, Invariance, PTL

\* Destination and digest are exact prefixes of the source, written after hashed
\* after read, in every state of a transfer of any length.
THEOREM PrefixesOrdered == Spec => []OrderedPrefixes
<1>1. IInv => OrderedPrefixes
  BY DEF IInv
<1> QED
  BY <1>1, Invariance, PTL

\* A call that returns Ok wrote and hashed the whole segment.
THEOREM OkExact == Spec => []OkIsExact
<1>1. IInv => OkIsExact
  <2> SUFFICES ASSUME IInv, writer = "returned", result = "ok"
               PROVE  Len(dest) = Length /\ Len(digest) = Length
    BY DEF OkIsExact
  <2>1. Len(dest) = Length
    BY DEF IInv, CauseInv, Running
  <2> QED
    BY <2>1, Bounds
<1> QED
  BY <1>1, Invariance, PTL

\* A failed call names what happened.
THEOREM FailureCaused == Spec => []FailureHasItsCause
<1>1. IInv => FailureHasItsCause
  BY DEF IInv
<1> QED
  BY <1>1, Invariance, PTL
=============================================================================
