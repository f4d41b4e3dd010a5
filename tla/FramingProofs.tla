----------------------------- MODULE FramingProofs ----------------------------
(***************************************************************************)
(* Theorems about the streams of Gateway, for any packets, cut anywhere:   *)
(* what Session::onRecv takes out of a stream is what the client sent.     *)
(*                                                                         *)
(* The argument needs no induction over the stream.  Every part of it      *)
(* tells of which packet it is, and the invariant says of each part what   *)
(* comes behind it: the rest of its packet, and then the next one.         *)
(***************************************************************************)
EXTENDS GatewayProofs, SequenceTheorems

Part == Nat \X Nat
Packet == [cmd : Cmds, len : Lens]
Handled == [cmd : Cmds, body : Seq(Part)]

\* The parts of packet k of those sent.
Size(s, k) == HeaderSize + s[k].len

\* R is made of parts of the packets s.  Behind a part comes the rest of its packet,
\* behind a packet the next one, and behind the last one nothing.
OnWire(s, R) ==
  /\ \A i \in 1..Len(R) : \E k \in 1..Len(s) : \E m \in 1..Size(s, k) : R[i] = <<k, m>>
  /\ \A i \in 1..Len(R), k \in 1..Len(s) : \A m \in 1..Size(s, k) :
       R[i] = <<k, m>> => \A d \in 0..(Size(s, k) - m) : i + d <= Len(R) /\ R[i + d] = <<k, m + d>>
  /\ \A i \in 1..Len(R), k \in 1..Len(s) :
       R[i] = <<k, Size(s, k)>> =>
         IF k = Len(s) THEN i = Len(R) ELSE i + 1 <= Len(R) /\ R[i + 1] = <<k + 1, 1>>

\* R starts with packet k, if there is one.
FirstIs(s, R, k) ==
  \/ k = Len(s) + 1 /\ R = <<>>
  \/ k \in 1..Len(s) /\ R # <<>> /\ R[1] = <<k, 1>>

\* What was handled is what was sent, and R goes on where that ended: with the header of
\* the next packet, or with its body when the header was read.
Flows(s, R, read, head, done) ==
  /\ Len(done) <= Len(s)
  /\ \A i \in 1..Len(done) : done[i] = [cmd |-> s[i].cmd, body |-> Body(i, s[i].len)]
  /\ OnWire(s, R)
  /\ ~read => FirstIs(s, R, Len(done) + 1)
  /\ read => /\ Len(done) < Len(s) /\ head = s[Len(done) + 1]
             /\ head.len = 0 => FirstIs(s, R, Len(done) + 2)
             /\ head.len # 0 => R # <<>> /\ R[1] = <<Len(done) + 1, HeaderSize + 1>>

-------------------------------------------------------------------------------
(* Sequences                                                                 *)

Rest(R, p) == SubSeq(R, p + 1, Len(R))

\* What is left behind the first p parts.
LEMMA RestFacts ==
  ASSUME NEW R \in Seq(Part), NEW p \in 0..Len(R)
  PROVE /\ Rest(R, p) \in Seq(Part) /\ Len(Rest(R, p)) = Len(R) - p
        /\ \A i \in 1..(Len(R) - p) : Rest(R, p)[i] = R[i + p]
<1>1. Len(R) \in Nat /\ \A i \in 1..Len(R) : R[i] \in Part
  BY LenProperties, ElementOfSeq
<1>2. \A i \in (p + 1)..Len(R) : R[i] \in Part
  BY <1>1
<1>3. /\ Rest(R, p) \in Seq(Part)
      /\ Len(Rest(R, p)) = IF p + 1 <= Len(R) THEN Len(R) - (p + 1) + 1 ELSE 0
      /\ \A i \in 1..(Len(R) - (p + 1) + 1) : Rest(R, p)[i] = R[(p + 1) + i - 1]
  BY <1>1, <1>2, SubSeqProperties DEF Rest
<1>4. QED
  BY <1>1, <1>3

\* Taking parts out of the buffer takes them out of the stream.
LEMMA RestOfBuffer ==
  ASSUME NEW b \in Seq(Part), NEW w \in Seq(Part), NEW p \in 0..Len(b)
  PROVE /\ Rest(b, p) \in Seq(Part) /\ Rest(b, p) \o w = Rest(b \o w, p)
        /\ p \in 0..Len(b \o w)
<1>1. Len(b) \in Nat /\ Len(w) \in Nat
  BY LenProperties
<1>2. /\ b \o w \in Seq(Part) /\ Len(b \o w) = Len(b) + Len(w)
      /\ \A i \in 1..(Len(b) + Len(w)) : (b \o w)[i] = IF i <= Len(b) THEN b[i] ELSE w[i - Len(b)]
  BY ConcatProperties
<1>3. /\ Rest(b, p) \in Seq(Part) /\ Len(Rest(b, p)) = Len(b) - p
      /\ \A i \in 1..(Len(b) - p) : Rest(b, p)[i] = b[i + p]
  BY RestFacts
<1>4. p \in 0..Len(b \o w)
  BY <1>1, <1>2
<1>5. /\ Rest(b \o w, p) \in Seq(Part) /\ Len(Rest(b \o w, p)) = Len(b) + Len(w) - p
      /\ \A i \in 1..(Len(b) + Len(w) - p) : Rest(b \o w, p)[i] = (b \o w)[i + p]
  <2> DEFINE R == b \o w
  <2>1. R \in Seq(Part) /\ p \in 0..Len(R) /\ Len(R) = Len(b) + Len(w)
    BY <1>2, <1>4
  <2> HIDE DEF R
  <2>2. /\ Rest(R, p) \in Seq(Part) /\ Len(Rest(R, p)) = Len(R) - p
        /\ \A i \in 1..(Len(R) - p) : Rest(R, p)[i] = R[i + p]
    BY <2>1, RestFacts
  <2>3. /\ Rest(R, p) \in Seq(Part) /\ Len(Rest(R, p)) = Len(b) + Len(w) - p
        /\ \A i \in 1..(Len(b) + Len(w) - p) : Rest(R, p)[i] = R[i + p]
    BY <2>1, <2>2
  <2>4. QED
    BY <2>3 DEF R
<1>6. /\ Rest(b, p) \o w \in Seq(Part) /\ Len(Rest(b, p) \o w) = Len(b) - p + Len(w)
      /\ \A i \in 1..(Len(b) - p + Len(w)) :
           (Rest(b, p) \o w)[i] = IF i <= Len(b) - p THEN Rest(b, p)[i] ELSE w[i - (Len(b) - p)]
  <2> DEFINE q == Rest(b, p)
  <2>1. q \in Seq(Part) /\ Len(q) = Len(b) - p
    BY <1>3
  <2> HIDE DEF q
  <2>2. /\ q \o w \in Seq(Part) /\ Len(q \o w) = Len(q) + Len(w)
        /\ \A i \in 1..(Len(q) + Len(w)) :
             (q \o w)[i] = IF i <= Len(q) THEN q[i] ELSE w[i - Len(q)]
    BY <2>1, ConcatProperties
  <2>3. /\ q \o w \in Seq(Part) /\ Len(q \o w) = Len(b) - p + Len(w)
        /\ \A i \in 1..(Len(b) - p + Len(w)) :
             (q \o w)[i] = IF i <= Len(b) - p THEN q[i] ELSE w[i - (Len(b) - p)]
    BY <2>1, <2>2
  <2>4. QED
    BY <2>3 DEF q
<1>7. ASSUME NEW i \in 1..Len(Rest(b, p) \o w) PROVE (Rest(b, p) \o w)[i] = Rest(b \o w, p)[i]
  <2>1. i \in 1..(Len(b) - p + Len(w)) /\ i + p \in 1..(Len(b) + Len(w)) /\ i \in Int
    BY <1>1, <1>6
  <2>2. CASE i <= Len(b) - p
    <3>1. i \in 1..(Len(b) - p) /\ i + p <= Len(b)
      BY <1>1, <2>1, <2>2
    <3>2. QED
      BY <1>1, <1>2, <1>3, <1>5, <1>6, <2>1, <2>2, <3>1
  <2>3. CASE ~(i <= Len(b) - p)
    <3>1. ~(i + p <= Len(b)) /\ i + p - Len(b) = i - (Len(b) - p)
      BY <1>1, <2>1, <2>3
    <3>2. QED
      BY <1>1, <1>2, <1>5, <1>6, <2>1, <2>3, <3>1, SMTT(40)
  <2>4. QED
    BY <2>2, <2>3
<1>8. Len(Rest(b, p) \o w) = Len(Rest(b \o w, p))
  BY <1>1, <1>5, <1>6
<1>9. QED
  BY <1>3, <1>4, <1>5, <1>6, <1>7, <1>8, SeqEqual

LEMMA Regroup ==
  ASSUME NEW t \in Seq(Part), NEW u \in Seq(Part), NEW v \in Seq(Part)
  PROVE (t \o u) \o v = t \o (u \o v)
  OBVIOUS

\* What arrives only moves from the network to the buffer.
LEMMA Arrival ==
  ASSUME NEW b \in Seq(Part), NEW w \in Seq(Part), NEW n \in 1..Len(w)
  PROVE /\ b \o SubSeq(w, 1, n) \in Seq(Part) /\ SubSeq(w, n + 1, Len(w)) \in Seq(Part)
        /\ (b \o SubSeq(w, 1, n)) \o SubSeq(w, n + 1, Len(w)) = b \o w
<1>1. Len(w) \in Nat /\ \A i \in 1..Len(w) : w[i] \in Part
  BY LenProperties, ElementOfSeq
<1>2. SubSeq(w, n + 1, Len(w)) \in Seq(Part)
  <2>1. n \in 0..Len(w)
    BY <1>1
  <2>2. QED
    BY <2>1, RestFacts DEF Rest
<1>3. SubSeq(w, 1, n) \in Seq(Part)
  <2>1. \A i \in 1..n : w[i] \in Part
    BY <1>1
  <2>2. QED
    BY <2>1, SubSeqProperties
<1>4. SubSeq(w, 1, n) \o SubSeq(w, n + 1, Len(w)) = w
  <2>1. SubSeq(w, 1, n) \o SubSeq(w, n + 1, Len(w)) = SubSeq(w, 1, Len(w))
    <3>1. 1 \in 1..(Len(w) + 1) /\ n \in (1 - 1)..Len(w) /\ Len(w) \in n..Len(w)
      BY <1>1
    <3>2. QED
      BY <3>1, ConcatAdjacentSubSeq
  <2>2. QED
    BY <2>1, SubSeqFull
<1>5. b \o SubSeq(w, 1, n) \in Seq(Part)
  BY <1>3, ConcatProperties
<1>6. ASSUME NEW u \in Seq(Part), NEW v \in Seq(Part) PROVE (b \o u) \o v = b \o (u \o v)
  BY Regroup, SMTT(40)
<1> DEFINE u == SubSeq(w, 1, n)
<1> DEFINE v == SubSeq(w, n + 1, Len(w))
<1>7. u \in Seq(Part) /\ v \in Seq(Part) /\ u \o v = w /\ b \o u \in Seq(Part)
  BY <1>2, <1>3, <1>4, <1>5
<1> HIDE DEF u, v
<1>8. (b \o u) \o v = b \o w
  BY <1>6, <1>7
<1>9. QED
  BY <1>7, <1>8 DEF u, v

-------------------------------------------------------------------------------
(* What the steps of onRecv do to a stream.  The packets s are fixed; R is the   *)
(* buffer with what is still on the network.                                     *)

\* A packet has a header.
LEMMA Sizes ==
  ASSUME NEW s \in Seq(Packet), NEW k \in 1..Len(s)
  PROVE /\ s[k] \in Packet /\ s[k].len \in Nat /\ s[k].len \in Lens
        /\ Size(s, k) \in Nat /\ Size(s, k) = s[k].len + 2
<1>1. s[k] \in Packet
  BY ElementOfSeq
<1>2. s[k].len \in Lens /\ s[k].len \in Nat
  BY <1>1, LensAssumption DEF Packet
<1>3. QED
  BY <1>1, <1>2 DEF Size, HeaderSize

\* What is left of a stream is still one.
LEMMA RestOnWire ==
  ASSUME NEW s \in Seq(Packet), NEW R \in Seq(Part), OnWire(s, R), NEW p \in 0..Len(R)
  PROVE OnWire(s, Rest(R, p))
<1> DEFINE Q == Rest(R, p)
<1>1. /\ Q \in Seq(Part) /\ Len(Q) = Len(R) - p
      /\ \A i \in 1..(Len(R) - p) : Q[i] = R[i + p]
  BY RestFacts
<1>2. Len(R) \in Nat /\ Len(s) \in Nat /\ p \in Nat /\ p <= Len(R)
  BY LenProperties
<1> HIDE DEF Q
<1>3. \A i \in 1..Len(Q) : i + p \in 1..Len(R) /\ Q[i] = R[i + p]
  BY <1>1, <1>2
<1>4. ASSUME NEW i \in 1..Len(Q) PROVE \E k \in 1..Len(s) : \E m \in 1..Size(s, k) : Q[i] = <<k, m>>
  <2>1. i + p \in 1..Len(R) /\ Q[i] = R[i + p]
    BY <1>3
  <2>2. \E k \in 1..Len(s) : \E m \in 1..Size(s, k) : R[i + p] = <<k, m>>
    BY <2>1 DEF OnWire
  <2>3. QED
    BY <2>1, <2>2
<1>5. ASSUME NEW i \in 1..Len(Q), NEW k \in 1..Len(s), NEW m \in 1..Size(s, k), Q[i] = <<k, m>>,
             NEW d \in 0..(Size(s, k) - m)
      PROVE i + d <= Len(Q) /\ Q[i + d] = <<k, m + d>>
  <2>1. i + p \in 1..Len(R) /\ R[i + p] = <<k, m>>
    BY <1>3, <1>5
  <2>2. i + p + d <= Len(R) /\ R[i + p + d] = <<k, m + d>>
    BY <2>1 DEF OnWire
  <2>3. Size(s, k) \in Nat
    BY Sizes
  <2>4. i + d \in 1..Len(Q) /\ i + d <= Len(Q) /\ i + d + p = i + p + d
    BY <1>1, <1>2, <2>2, <2>3
  <2>5. QED
    BY <1>3, <2>2, <2>4
<1>6. ASSUME NEW i \in 1..Len(Q), NEW k \in 1..Len(s), Q[i] = <<k, Size(s, k)>>
      PROVE IF k = Len(s) THEN i = Len(Q) ELSE i + 1 <= Len(Q) /\ Q[i + 1] = <<k + 1, 1>>
  <2>1. i + p \in 1..Len(R) /\ R[i + p] = <<k, Size(s, k)>>
    BY <1>3, <1>6
  <2>2. IF k = Len(s) THEN i + p = Len(R)
        ELSE i + p + 1 <= Len(R) /\ R[i + p + 1] = <<k + 1, 1>>
    BY <2>1 DEF OnWire
  <2>3. CASE k = Len(s)
    <3>1. i + p = Len(R)
      BY <2>2, <2>3
    <3>2. i = Len(Q)
      BY <1>1, <1>2, <3>1
    <3>3. QED
      BY <2>3, <3>2
  <2>4. CASE k # Len(s)
    <3>1. i + p + 1 <= Len(R) /\ R[i + p + 1] = <<k + 1, 1>>
      BY <2>2, <2>4
    <3>2. i + 1 \in 1..Len(Q) /\ i + 1 <= Len(Q) /\ i + 1 + p = i + p + 1
      BY <1>1, <1>2, <3>1, SMTT(40)
    <3>3. QED
      BY <1>3, <2>4, <3>1, <3>2
  <2>5. QED
    BY <2>3, <2>4
<1>7. OnWire(s, Q)
  BY <1>4, <1>5, <1>6 DEF OnWire
<1>8. QED
  BY <1>7 DEF Q

\* Behind the last part of a packet the next one begins, if there is one.
LEMMA NextBegins ==
  ASSUME NEW s \in Seq(Packet), NEW R \in Seq(Part), OnWire(s, R),
         NEW p \in 1..Len(R), NEW k \in 1..Len(s), R[p] = <<k, Size(s, k)>>
  PROVE FirstIs(s, Rest(R, p), k + 1)
<1>1. Len(R) \in Nat /\ Len(s) \in Nat /\ p \in 0..Len(R)
  BY LenProperties
<1>2. /\ Rest(R, p) \in Seq(Part) /\ Len(Rest(R, p)) = Len(R) - p
      /\ \A i \in 1..(Len(R) - p) : Rest(R, p)[i] = R[i + p]
  BY <1>1, RestFacts
<1>3. IF k = Len(s) THEN p = Len(R) ELSE p + 1 <= Len(R) /\ R[p + 1] = <<k + 1, 1>>
  BY DEF OnWire
<1>4. CASE k = Len(s)
  <2>1. Len(Rest(R, p)) = 0
    BY <1>1, <1>2, <1>3, <1>4
  <2>2. Rest(R, p) = <<>>
    BY <1>2, <2>1, EmptySeq
  <2>3. QED
    BY <1>4, <2>2 DEF FirstIs
<1>5. CASE k # Len(s)
  <2>1. 1 \in 1..(Len(R) - p) /\ 1 + p = p + 1
    BY <1>1, <1>3, <1>5
  <2>2. Rest(R, p)[1] = <<k + 1, 1>>
    BY <1>2, <1>3, <1>5, <2>1
  <2>3. Rest(R, p) # <<>>
    BY <1>1, <1>2, <2>1, EmptySeq
  <2>4. k + 1 \in 1..Len(s)
    BY <1>1, <1>5
  <2>5. QED
    BY <2>2, <2>3, <2>4 DEF FirstIs
<1>6. QED
  BY <1>4, <1>5

\* The header of a packet is read.
LEMMA HeaderRead ==
  ASSUME NEW s \in Seq(Packet), NEW R \in Seq(Part), NEW head, NEW done \in Seq(Handled),
         Flows(s, R, FALSE, head, done), NEW k \in 1..Len(s),
         Len(R) >= HeaderSize, R[1] = <<k, 1>>
  PROVE /\ k = Len(done) + 1
        /\ Flows(s, Rest(R, HeaderSize), TRUE, s[k], done)
<1> DEFINE j == Len(done) + 1
<1> DEFINE Q == Rest(R, HeaderSize)
<1>1. /\ Len(R) \in Nat /\ Len(s) \in Nat /\ Len(done) \in Nat
      /\ HeaderSize = 2 /\ 2 \in 0..Len(R) /\ 2 \in 1..Len(R) /\ 1 \in 1..Len(R)
  BY LenProperties DEF HeaderSize
<1>2. k = j
  BY <1>1 DEF Flows, FirstIs
<1>3. OnWire(s, R) /\ OnWire(s, Q)
  BY <1>1, RestOnWire DEF Flows
<1>4. /\ Q \in Seq(Part) /\ Len(Q) = Len(R) - 2
      /\ \A i \in 1..(Len(R) - 2) : Q[i] = R[i + 2]
  BY <1>1, RestFacts
<1>5. /\ s[k].len \in Nat /\ Size(s, k) = s[k].len + 2 /\ 1 \in 1..Size(s, k)
  <2>1. s[k].len \in Nat /\ Size(s, k) = s[k].len + 2
    BY Sizes
  <2>2. QED
    BY <2>1
<1>6. \A d \in 0..(Size(s, k) - 1) : 1 + d <= Len(R) /\ R[1 + d] = <<k, 1 + d>>
  BY <1>1, <1>3, <1>5 DEF OnWire
<1>7. CASE s[k].len = 0
  <2>1. R[2] = <<k, Size(s, k)>>
    <3>1. 1 \in 0..(Size(s, k) - 1) /\ 1 + 1 = 2 /\ Size(s, k) = 2
      BY <1>5, <1>7
    <3>2. R[1 + 1] = <<k, 1 + 1>>
      BY <1>6, <3>1
    <3>3. QED
      BY <3>1, <3>2
  <2>2. FirstIs(s, Q, k + 1)
    BY <1>1, <1>3, <2>1, NextBegins
  <2>3. k + 1 = Len(done) + 2 /\ Len(done) < Len(s)
    BY <1>1, <1>2
  <2>4. QED
    BY <1>2, <1>3, <1>7, <2>2, <2>3 DEF Flows
<1>8. CASE s[k].len # 0
  <2>1. 2 \in 0..(Size(s, k) - 1)
    BY <1>5, <1>8
  <2>2. 1 + 2 <= Len(R) /\ R[1 + 2] = <<k, 1 + 2>>
    BY <1>6, <2>1
  <2>3. Q # <<>> /\ Q[1] = <<k, 3>>
    <3>1. 1 \in 1..(Len(R) - 2) /\ 1 + 2 = 3
      BY <1>1, <2>2
    <3>2. Q[1] = R[3] /\ Len(Q) # 0
      BY <1>1, <1>4, <3>1
    <3>3. QED
      BY <2>2, <3>1, <3>2, EmptySeq
  <2>4. HeaderSize + 1 = 3 /\ Len(done) < Len(s)
    BY <1>1, <1>2
  <2>5. QED
    BY <1>2, <1>3, <1>8, <2>3, <2>4 DEF Flows
<1>9. QED
  BY <1>2, <1>7, <1>8

\* A whole packet is handed on.
LEMMA PacketRead ==
  ASSUME NEW s \in Seq(Packet), NEW R \in Seq(Part), NEW head \in Packet,
         NEW done \in Seq(Handled), Flows(s, R, TRUE, head, done), head.len <= Len(R)
  PROVE /\ SubSeq(R, 1, head.len) = Body(Len(done) + 1, head.len)
        /\ Flows(s, Rest(R, head.len), FALSE, head,
                 Append(done, [cmd |-> head.cmd, body |-> SubSeq(R, 1, head.len)]))
<1> DEFINE k == Len(done) + 1
<1> DEFINE n == head.len
<1> DEFINE Q == Rest(R, n)
<1>1. /\ Len(R) \in Nat /\ Len(s) \in Nat /\ Len(done) \in Nat /\ n \in Nat
      /\ k \in 1..Len(s) /\ head = s[k] /\ HeaderSize = 2 /\ n \in 0..Len(R)
  <2>1. Len(R) \in Nat /\ Len(s) \in Nat /\ Len(done) \in Nat
    BY LenProperties
  <2>2. Len(done) < Len(s) /\ head = s[k]
    BY DEF Flows
  <2>3. n \in Nat
    BY LensAssumption DEF Packet
  <2>4. QED
    BY <2>1, <2>2, <2>3 DEF HeaderSize
<1>2. OnWire(s, R) /\ OnWire(s, Q)
  BY <1>1, RestOnWire DEF Flows
<1>3. Size(s, k) = n + 2
  BY <1>1, Sizes
<1>4. n # 0 => \A d \in 0..(n - 1) : R[1 + d] = <<k, 3 + d>>
  <2> SUFFICES ASSUME n # 0, NEW d \in 0..(n - 1) PROVE R[1 + d] = <<k, 3 + d>>
    OBVIOUS
  <2>1. R # <<>> /\ R[1] = <<k, 3>>
    BY <1>1 DEF Flows
  <2>2. 1 \in 1..Len(R) /\ 3 \in 1..Size(s, k) /\ d \in 0..(Size(s, k) - 3)
    BY <1>1, <1>3
  <2>3. QED
    BY <1>1, <1>2, <2>1, <2>2 DEF OnWire
<1>5. SubSeq(R, 1, n) = Body(k, n)
  <2>1. \A i \in 1..n : R[i] = <<k, HeaderSize + i>>
    <3>1. ASSUME NEW i \in 1..n PROVE R[i] = <<k, HeaderSize + i>>
      <4>1. i - 1 \in 0..(n - 1) /\ 1 + (i - 1) = i /\ 3 + (i - 1) = HeaderSize + i /\ n # 0
        BY <1>1
      <4>2. R[1 + (i - 1)] = <<k, 3 + (i - 1)>>
        BY <1>4, <4>1
      <4>3. QED
        BY <4>1, <4>2
    <3>2. QED
      BY <3>1
  <2>2. /\ SubSeq(R, 1, n) \in Seq(Part) /\ Len(SubSeq(R, 1, n)) = n
        /\ \A i \in 1..n : SubSeq(R, 1, n)[i] = R[i]
    <3>1. \A i \in 1..n : R[i] \in Part
      BY <1>1, ElementOfSeq
    <3>2. /\ SubSeq(R, 1, n) \in Seq(Part)
          /\ Len(SubSeq(R, 1, n)) = IF 1 <= n THEN n - 1 + 1 ELSE 0
          /\ \A i \in 1..(n - 1 + 1) : SubSeq(R, 1, n)[i] = R[1 + i - 1]
      BY <1>1, <3>1, SubSeqProperties
    <3>3. QED
      BY <1>1, <3>2
  <2>3. Body(k, n) \in Seq(Part) /\ Len(Body(k, n)) = n
    <3>1. \A i \in 1..n : <<k, HeaderSize + i>> \in Part
      BY <1>1, SMTT(40) DEF Part
    <3>2. Body(k, n) \in [1..n -> Part] /\ DOMAIN Body(k, n) = 1..n
      BY <3>1 DEF Body
    <3>3. Body(k, n) \in Seq(Part)
      BY <1>1, <3>2, SeqDef, ZenonT(60)
    <3>4. Len(Body(k, n)) \in Nat /\ DOMAIN Body(k, n) = 1..Len(Body(k, n))
      BY <3>3, LenProperties
    <3>5. Len(Body(k, n)) = n
      BY <1>1, <3>2, <3>4
    <3>6. QED
      BY <3>3, <3>5
  <2>4. \A i \in 1..n : Body(k, n)[i] = <<k, HeaderSize + i>>
    BY DEF Body
  <2> DEFINE x == SubSeq(R, 1, n)
  <2> DEFINE y == Body(k, n)
  <2>5. /\ x \in Seq(Part) /\ y \in Seq(Part) /\ Len(x) = Len(y)
        /\ \A i \in 1..Len(x) : x[i] = y[i]
    BY <2>1, <2>2, <2>3, <2>4
  <2> HIDE DEF x, y
  <2>6. x = y
    BY <2>5, SeqEqual
  <2>7. QED
    BY <2>6 DEF x, y
<1> DEFINE e == [cmd |-> head.cmd, body |-> SubSeq(R, 1, n)]
<1> DEFINE more == Append(done, e)
<1>6. /\ more \in Seq(Handled) /\ Len(more) = k
      /\ \A i \in 1..Len(done) : more[i] = done[i]
      /\ more[k] = [cmd |-> s[k].cmd, body |-> Body(k, s[k].len)]
  <2>1. e = [cmd |-> s[k].cmd, body |-> Body(k, s[k].len)]
    BY <1>1, <1>5
  <2>2. e \in Handled
    <3>1. SubSeq(R, 1, n) \in Seq(Part)
      BY <1>1, <1>5 DEF Body, Part
    <3>2. QED
      BY <3>1 DEF Handled, Packet
  <2>3. QED
    BY <2>1, <2>2, AppendProperties
<1>7. FirstIs(s, Q, k + 1)
  <2>1. CASE n = 0
    <3>1. FirstIs(s, R, k + 1)
      BY <1>1, <2>1 DEF Flows
    <3>2. Q = R
      BY <1>1, <2>1, SubSeqFull DEF Rest
    <3>3. QED
      BY <3>1, <3>2
  <2>2. CASE n # 0
    <3>1. R[n] = <<k, Size(s, k)>> /\ n \in 1..Len(R)
      <4>1. n - 1 \in 0..(n - 1) /\ 1 + (n - 1) = n /\ 3 + (n - 1) = n + 2
        BY <1>1, <2>2
      <4>2. R[1 + (n - 1)] = <<k, 3 + (n - 1)>>
        BY <1>4, <2>2, <4>1
      <4>3. QED
        BY <1>1, <1>3, <2>2, <4>1, <4>2
    <3>2. QED
      BY <1>1, <1>2, <3>1, NextBegins
  <2>3. QED
    BY <2>1, <2>2
<1>8. \A i \in 1..Len(more) : more[i] = [cmd |-> s[i].cmd, body |-> Body(i, s[i].len)]
  <2>1. \A i \in 1..Len(done) : done[i] = [cmd |-> s[i].cmd, body |-> Body(i, s[i].len)]
    BY DEF Flows
  <2>2. \A i \in 1..k : i \in 1..Len(done) \/ i = k
    BY <1>1
  <2>3. QED
    BY <1>6, <2>1, <2>2
<1> HIDE DEF e, more, Q
<1>9. Flows(s, Q, FALSE, head, more)
  BY <1>1, <1>2, <1>6, <1>7, <1>8 DEF Flows
<1>10. QED
  BY <1>5, <1>9 DEF e, more, Q

\* A packet is sent behind the others.
LEMMA SentOnWire ==
  ASSUME NEW s \in Seq(Packet), NEW R \in Seq(Part), OnWire(s, R), NEW e \in Packet
  PROVE LET t == Append(s, e)
            Q == R \o Parts(Len(s) + 1, e.len)
        IN /\ t \in Seq(Packet) /\ Q \in Seq(Part) /\ Parts(Len(s) + 1, e.len) \in Seq(Part)
           /\ OnWire(t, Q)
           /\ \A k \in 1..(Len(s) + 1) : FirstIs(s, R, k) => FirstIs(t, Q, k)
           /\ R # <<>> => Q # <<>> /\ Q[1] = R[1]
<1> DEFINE n == Len(s) + 1
<1> DEFINE z == HeaderSize + e.len
<1> DEFINE t == Append(s, e)
<1> DEFINE T == Parts(n, e.len)
<1> DEFINE Q == R \o T
<1>1. /\ Len(s) \in Nat /\ Len(R) \in Nat /\ e.len \in Nat /\ n \in Nat /\ z \in Nat
      /\ z = e.len + 2 /\ HeaderSize = 2
  <2>1. Len(s) \in Nat /\ Len(R) \in Nat
    BY LenProperties
  <2>2. e.len \in Nat
    BY LensAssumption DEF Packet
  <2>3. QED
    BY <2>1, <2>2 DEF HeaderSize
<1>2. /\ t \in Seq(Packet) /\ Len(t) = n /\ \A i \in 1..Len(s) : t[i] = s[i]
      /\ t[n] = e
  BY AppendProperties
<1>3. T \in Seq(Part) /\ Len(T) = z /\ \A i \in 1..z : T[i] = <<n, i>>
  <2>1. \A i \in 1..z : <<n, i>> \in Part
    BY <1>1 DEF Part
  <2>2. T \in [1..z -> Part] /\ DOMAIN T = 1..z /\ \A i \in 1..z : T[i] = <<n, i>>
    BY <2>1 DEF Parts
  <2> HIDE DEF z, T
  <2>3. T \in Seq(Part)
    <3>1. z \in Nat
      BY <1>1
    <3>2. QED
      BY <2>2, <3>1, SeqDef
  <2>4. Len(T) \in Nat /\ DOMAIN T = 1..Len(T)
    BY <2>3, LenProperties
  <2>5. QED
    BY <1>1, <2>2, <2>3, <2>4
<1> HIDE DEF T
<1>4. /\ Q \in Seq(Part) /\ Len(Q) = Len(R) + z
      /\ \A i \in 1..(Len(R) + z) : Q[i] = IF i <= Len(R) THEN R[i] ELSE T[i - Len(R)]
  <2>1. /\ Q \in Seq(Part) /\ Len(Q) = Len(R) + Len(T)
        /\ \A i \in 1..(Len(R) + Len(T)) : Q[i] = IF i <= Len(R) THEN R[i] ELSE T[i - Len(R)]
    BY <1>3, ConcatProperties
  <2>2. QED
    BY <1>3, <2>1
<1>5. /\ \A k \in 1..Len(s) : Size(t, k) = Size(s, k) /\ Size(s, k) \in Nat
      /\ Size(t, n) = z
  BY <1>2, Sizes DEF Size
<1> HIDE DEF t, Q, z
<1>6. \A i \in 1..Len(Q) :
        \/ i \in 1..Len(R) /\ Q[i] = R[i]
        \/ i \notin 1..Len(R) /\ i - Len(R) \in 1..z /\ Q[i] = <<n, i - Len(R)>>
  <2> SUFFICES ASSUME NEW i \in 1..Len(Q)
               PROVE \/ i \in 1..Len(R) /\ Q[i] = R[i]
                     \/ i \notin 1..Len(R) /\ i - Len(R) \in 1..z /\ Q[i] = <<n, i - Len(R)>>
    OBVIOUS
  <2>1. CASE i <= Len(R)
    BY <1>1, <1>4, <2>1
  <2>2. CASE ~(i <= Len(R))
    <3>1. i - Len(R) \in 1..z
      BY <1>1, <1>4, <2>2, SMTT(40)
    <3>2. Q[i] = T[i - Len(R)]
      BY <1>4, <2>2
    <3>3. QED
      BY <1>1, <1>3, <2>2, <3>1, <3>2
  <2>3. QED
    BY <2>1, <2>2
<1>7. \A i \in 1..Len(R) : i \in 1..Len(Q) /\ Q[i] = R[i]
  BY <1>1, <1>4, SMTT(40)
<1>8. \A m \in 1..z : Len(R) + m \in 1..Len(Q) /\ Q[Len(R) + m] = <<n, m>>
  <2> SUFFICES ASSUME NEW m \in 1..z PROVE Len(R) + m \in 1..Len(Q) /\ Q[Len(R) + m] = <<n, m>>
    OBVIOUS
  <2>1. Len(R) + m \in 1..Len(Q) /\ Len(R) + m \notin 1..Len(R) /\ Len(R) + m - Len(R) = m
    BY <1>1, <1>4, SMTT(40)
  <2>2. QED
    BY <1>6, <2>1
<1>9. ASSUME NEW i \in 1..Len(Q) PROVE \E k \in 1..Len(t) : \E m \in 1..Size(t, k) : Q[i] = <<k, m>>
  <2>1. CASE i \in 1..Len(R) /\ Q[i] = R[i]
    <3>1. PICK k \in 1..Len(s) : \E m \in 1..Size(s, k) : R[i] = <<k, m>>
      BY <2>1 DEF OnWire
    <3>2. k \in 1..Len(t) /\ Size(t, k) = Size(s, k)
      BY <1>1, <1>2, <1>5
    <3>3. QED
      BY <2>1, <3>1, <3>2
  <2>2. CASE i - Len(R) \in 1..z /\ Q[i] = <<n, i - Len(R)>>
    <3>1. n \in 1..Len(t)
      BY <1>1, <1>2
    <3>2. QED
      BY <1>5, <2>2, <3>1
  <2>3. QED
    BY <1>6, <2>1, <2>2
<1>10. ASSUME NEW i \in 1..Len(Q), NEW k \in 1..Len(t), NEW m \in 1..Size(t, k), Q[i] = <<k, m>>,
              NEW d \in 0..(Size(t, k) - m)
       PROVE i + d <= Len(Q) /\ Q[i + d] = <<k, m + d>>
  <2>0. d \in Nat /\ m \in Nat /\ m > 0 /\ Size(t, k) \in Nat /\ m + d <= Size(t, k)
    <3>1. k \in 1..Len(t) /\ Size(t, k) \in Nat
      BY <1>2, Sizes
    <3>2. QED
      BY <3>1
  <2>1. CASE i \in 1..Len(R) /\ Q[i] = R[i]
    <3>1. PICK l \in 1..Len(s) : \E x \in 1..Size(s, l) : R[i] = <<l, x>>
      BY <2>1 DEF OnWire
    <3>2. k = l
      BY <1>10, <2>1, <3>1
    <3>3. k \in 1..Len(s) /\ Size(t, k) = Size(s, k)
      BY <1>5, <3>2
    <3>4. i + d <= Len(R) /\ R[i + d] = <<k, m + d>>
      <4>1. m \in 1..Size(s, k) /\ d \in 0..(Size(s, k) - m) /\ R[i] = <<k, m>>
        BY <1>10, <2>1, <3>3
      <4>2. QED
        BY <2>1, <3>3, <4>1 DEF OnWire
    <3>5. i + d \in 1..Len(R)
      BY <1>1, <2>0, <2>1, <3>4
    <3>6. i + d \in 1..Len(Q) /\ Q[i + d] = R[i + d]
      BY <1>7, <3>5
    <3>7. QED
      BY <3>4, <3>6
  <2>2. CASE i \notin 1..Len(R) /\ i - Len(R) \in 1..z /\ Q[i] = <<n, i - Len(R)>>
    <3>1. k = n /\ m = i - Len(R) /\ Size(t, k) = z
      <4>1. <<k, m>> = <<n, i - Len(R)>>
        BY <1>10, <2>2
      <4>2. k = n /\ m = i - Len(R)
        BY ONLY <4>1
      <4>3. QED
        BY <1>5, <4>2
    <3>2. m + d \in 1..z /\ Len(R) + (m + d) = i + d
      BY <1>1, <2>0, <2>2, <3>1
    <3>3. Len(R) + (m + d) \in 1..Len(Q) /\ Q[Len(R) + (m + d)] = <<n, m + d>>
      BY <1>8, <3>2
    <3>4. QED
      BY <1>1, <1>4, <3>1, <3>2, <3>3
  <2>3. QED
    BY <1>6, <2>1, <2>2
<1>11. ASSUME NEW i \in 1..Len(Q), NEW k \in 1..Len(t), Q[i] = <<k, Size(t, k)>>
       PROVE IF k = Len(t) THEN i = Len(Q) ELSE i + 1 <= Len(Q) /\ Q[i + 1] = <<k + 1, 1>>
  <2>1. CASE i \in 1..Len(R) /\ Q[i] = R[i]
    <3>1. PICK l \in 1..Len(s) : \E x \in 1..Size(s, l) : R[i] = <<l, x>>
      BY <2>1 DEF OnWire
    <3>2. k = l
      BY <1>11, <2>1, <3>1
    <3>3. k \in 1..Len(s) /\ Size(t, k) = Size(s, k) /\ k # Len(t)
      BY <1>1, <1>2, <1>5, <3>2
    <3>4. IF k = Len(s) THEN i = Len(R) ELSE i + 1 <= Len(R) /\ R[i + 1] = <<k + 1, 1>>
      BY <1>11, <2>1, <3>3 DEF OnWire
    <3>5. CASE k = Len(s)
      <4>1. i = Len(R) /\ 1 \in 1..z /\ k + 1 = n
        BY <1>1, <3>4, <3>5 DEF z
      <4>2. Len(R) + 1 \in 1..Len(Q) /\ Q[Len(R) + 1] = <<n, 1>>
        BY <1>8, <4>1
      <4>3. QED
        BY <1>1, <1>4, <3>3, <4>1, <4>2
    <3>6. CASE k # Len(s)
      <4>1. i + 1 \in 1..Len(R) /\ R[i + 1] = <<k + 1, 1>>
        BY <1>1, <2>1, <3>4, <3>6
      <4>2. i + 1 \in 1..Len(Q) /\ Q[i + 1] = R[i + 1]
        BY <1>7, <4>1
      <4>3. i + 1 <= Len(Q)
        BY <1>1, <1>4, <4>2
      <4>4. QED
        BY <3>3, <4>1, <4>2, <4>3
    <3>7. QED
      BY <3>5, <3>6
  <2>2. CASE i \notin 1..Len(R) /\ i - Len(R) \in 1..z /\ Q[i] = <<n, i - Len(R)>>
    <3>1. k = n /\ Size(t, k) = i - Len(R) /\ Size(t, k) = z
      <4>1. <<k, Size(t, k)>> = <<n, i - Len(R)>>
        BY <1>11, <2>2
      <4>2. k = n /\ Size(t, k) = i - Len(R)
        BY ONLY <4>1
      <4>3. QED
        BY <1>5, <4>2
    <3>2. k = Len(t) /\ i = Len(Q)
      BY <1>1, <1>2, <1>4, <2>2, <3>1
    <3>3. QED
      BY <3>2
  <2>3. QED
    BY <1>6, <2>1, <2>2
<1>12. OnWire(t, Q)
  BY <1>9, <1>10, <1>11 DEF OnWire
<1>13. ASSUME NEW k \in 1..n, FirstIs(s, R, k) PROVE FirstIs(t, Q, k)
  <2>1. k \in 1..Len(t)
    BY <1>2
  <2>2. Q # <<>> /\ Q[1] = <<k, 1>>
    <3>1. CASE k = Len(s) + 1 /\ R = <<>>
      <4>1. Len(R) = 0 /\ 1 \in 1..z
        BY <1>1, <3>1 DEF z
      <4>2. 0 + 1 \in 1..Len(Q) /\ Q[0 + 1] = <<n, 1>>
        BY <1>8, <4>1
      <4>3. QED
        BY <3>1, <4>2, EmptySeq
    <3>2. CASE R # <<>> /\ R[1] = <<k, 1>>
      <4>1. 1 \in 1..Len(R)
        BY <1>1, <3>2, EmptySeq
      <4>2. 1 \in 1..Len(Q) /\ Q[1] = R[1]
        BY <1>7, <4>1
      <4>3. QED
        BY <3>2, <4>2, EmptySeq
    <3>3. QED
      BY <1>13, <3>1, <3>2 DEF FirstIs
  <2>3. QED
    BY <2>1, <2>2 DEF FirstIs
<1>14. R # <<>> => Q # <<>> /\ Q[1] = R[1]
  <2> SUFFICES ASSUME R # <<>> PROVE Q # <<>> /\ Q[1] = R[1]
    OBVIOUS
  <2>1. 1 \in 1..Len(R)
    BY <1>1, EmptySeq
  <2>2. 1 \in 1..Len(Q) /\ Q[1] = R[1]
    BY <1>7, <2>1
  <2>3. QED
    BY <2>2, EmptySeq
<1>15. QED
  BY <1>2, <1>3, <1>4, <1>12, <1>13, <1>14 DEF t, Q, T

-------------------------------------------------------------------------------
(* The invariant                                                             *)

StreamTypes ==
  /\ sent \in [Clients -> Seq(Packet)]
  /\ wire \in [Clients -> Seq(Part)] /\ buf \in [Clients -> Seq(Part)]
  /\ headerRcved \in [Clients -> BOOLEAN] /\ header \in [Clients -> Packet]
  /\ handled \in [Clients -> Seq(Handled)]

Counts ==
  /\ running \in Clients \cup {NULL}
  /\ answers \in 0..MaxAnswers /\ exits \in 0..MaxExits

\* The stream of a session that is not torn flows; of a torn one nothing is kept.
Cut(c) ==
  /\ torn[c] => buf[c] = <<>> /\ wire[c] = <<>> /\ header[c] = NoHeader
  /\ ~torn[c] => Flows(sent[c], buf[c] \o wire[c], headerRcved[c], header[c], handled[c])

Streams == StreamTypes /\ Counts /\ \A c \in Clients : Cut(c)

\* Of no packets nothing is left.
LEMMA NothingFlows == Flows(<<>>, <<>>, FALSE, NoHeader, <<>>)
  BY DEF Flows, OnWire, FirstIs

LEMMA NoHeaderIsPacket == NoHeader \in Packet
  BY LensAssumption DEF NoHeader, Packet, Cmds

\* At first nothing was sent.
LEMMA InitStreams == Init => Streams
<1> SUFFICES ASSUME Init PROVE Streams
  OBVIOUS
<1>1. StreamTypes
  BY NoHeaderIsPacket, EmptySeq DEF Init, StreamTypes
<1>2. Counts
  BY BoundsAssumption DEF Init, Counts
<1>3. ASSUME NEW c \in Clients PROVE Cut(c)
  <2>1. /\ sent[c] = <<>> /\ wire[c] = <<>> /\ buf[c] = <<>> /\ headerRcved[c] = FALSE
        /\ header[c] = NoHeader /\ handled[c] = <<>> /\ torn[c] = FALSE
    BY DEF Init
  <2>2. <<>> \o <<>> = <<>>
    OBVIOUS
  <2>3. QED
    BY <2>1, <2>2, NothingFlows DEF Cut
<1>4. QED
  BY <1>1, <1>2, <1>3 DEF Streams

\* A stream nobody touches stays as it is.
LEMMA SameStream ==
  ASSUME Streams, NEW d \in Clients,
         sent'[d] = sent[d], wire'[d] = wire[d], buf'[d] = buf[d],
         headerRcved'[d] = headerRcved[d], header'[d] = header[d],
         handled'[d] = handled[d], torn'[d] = torn[d]
  PROVE Cut(d)'
  BY DEF Streams, Cut

LEMMA SameStreams == ASSUME Streams, UNCHANGED stream, Counts' PROVE Streams'
<1>1. StreamTypes'
  BY DEF Streams, StreamTypes, stream
<1>2. \A d \in Clients : Cut(d)'
  BY SameStream DEF stream
<1>3. QED
  BY <1>1, <1>2 DEF Streams

\* A session that is closed or torn keeps no stream.
LEMMA DropStreams ==
  ASSUME Streams, NEW c \in Clients, DropStream(c), Counts',
         \A d \in Clients \ {c} : torn'[d] = torn[d]
  PROVE Streams'
<1>1. StreamTypes'
  <2>1. <<>> \in Seq(Packet) /\ <<>> \in Seq(Part) /\ <<>> \in Seq(Handled)
    BY EmptySeq
  <2>2. QED
    BY <2>1, NoHeaderIsPacket DEF Streams, StreamTypes, DropStream
<1>2. Cut(c)'
  <2>1. /\ sent'[c] = <<>> /\ wire'[c] = <<>> /\ buf'[c] = <<>> /\ headerRcved'[c] = FALSE
        /\ header'[c] = NoHeader /\ handled'[c] = <<>>
    BY DEF Streams, StreamTypes, DropStream
  <2>2. <<>> \o <<>> = <<>>
    OBVIOUS
  <2>3. QED
    BY <2>1, <2>2, NothingFlows DEF Cut
<1>3. ASSUME NEW d \in Clients \ {c} PROVE Cut(d)'
  BY SameStream DEF Streams, StreamTypes, DropStream
<1>4. QED
  BY <1>1, <1>2, <1>3 DEF Streams

LEMMA CloseStreams == ASSUME Streams, NEW c \in Clients, Close(c) PROVE Streams'
  BY DropStreams DEF Close, Streams, Counts

LEMMA TearStreams ==
  ASSUME Inv, Streams, NEW c \in Clients, Tear(c),
         answers' \in 0..MaxAnswers, exits' = exits
  PROVE Streams'
<1>1. Counts'
  BY DEF Tear, Streams, Counts
<1>2. \A d \in Clients \ {c} : torn'[d] = torn[d]
  BY DEF Tear, Inv, Core, Typed
<1>3. QED
  BY <1>1, <1>2, DropStreams DEF Tear

LEMMA SendStreams == ASSUME Streams, NEW c \in Clients, Send(c) PROVE Streams'
<1> PICK cmd \in Cmds, len \in Lens :
      /\ sent' = [sent EXCEPT ![c] = Append(@, [cmd |-> cmd, len |-> len])]
      /\ wire' = [wire EXCEPT ![c] = @ \o Parts(Len(sent[c]) + 1, len)]
  BY SendsAssumption DEF Send
<1> DEFINE s == sent[c]
<1> DEFINE e == [cmd |-> cmd, len |-> len]
<1> DEFINE T == Parts(Len(s) + 1, len)
<1> DEFINE R == buf[c] \o wire[c]
<1>1. /\ s \in Seq(Packet) /\ buf[c] \in Seq(Part) /\ wire[c] \in Seq(Part) /\ e \in Packet
      /\ e.len = len /\ R \in Seq(Part) /\ header[c] \in Packet /\ handled[c] \in Seq(Handled)
      /\ Flows(s, R, headerRcved[c], header[c], handled[c])
  <2>1. s \in Seq(Packet) /\ buf[c] \in Seq(Part) /\ wire[c] \in Seq(Part) /\ e \in Packet
        /\ header[c] \in Packet /\ handled[c] \in Seq(Handled)
    BY DEF Streams, StreamTypes, Packet
  <2>2. R \in Seq(Part)
    BY <2>1, ConcatProperties
  <2>3. Flows(s, R, headerRcved[c], header[c], handled[c])
    BY DEF Streams, Cut, Send
  <2>4. QED
    BY <2>1, <2>2, <2>3
<1>2. /\ Append(s, e) \in Seq(Packet) /\ T \in Seq(Part) /\ R \o T \in Seq(Part)
      /\ OnWire(Append(s, e), R \o T)
      /\ \A k \in 1..(Len(s) + 1) : FirstIs(s, R, k) => FirstIs(Append(s, e), R \o T, k)
      /\ R # <<>> => R \o T # <<>> /\ (R \o T)[1] = R[1]
  <2> HIDE DEF e, R
  <2>1. OnWire(s, R)
    BY <1>1 DEF Flows
  <2>2. QED
    BY <1>1, <2>1, SentOnWire
<1>3. StreamTypes'
  <2>1. wire[c] \o T \in Seq(Part)
    BY <1>1, <1>2, ConcatProperties
  <2>2. sent' \in [Clients -> Seq(Packet)] /\ wire' \in [Clients -> Seq(Part)]
    BY <1>2, <2>1 DEF Streams, StreamTypes
  <2>3. QED
    BY <2>2 DEF Streams, StreamTypes, Send
<1>4. Counts'
  BY DEF Streams, Counts, Send
<1>5. Flows(Append(s, e), R \o T, headerRcved[c], header[c], handled[c])
  <2> DEFINE t == Append(s, e)
  <2> DEFINE done == handled[c]
  <2>1. /\ Len(s) \in Nat /\ Len(done) \in Nat /\ Len(t) = Len(s) + 1
        /\ \A i \in 1..Len(s) : t[i] = s[i]
    BY <1>1, AppendProperties, LenProperties
  <2> HIDE DEF t, s, done, R, T
  <2>2. Flows(s, R, headerRcved[c], header[c], done)
    BY <1>1 DEF done
  <2>3. OnWire(t, R \o T) /\ Len(done) <= Len(t)
    BY <1>2, <2>1, <2>2 DEF t, Flows
  <2>4. \A i \in 1..Len(done) : done[i] = [cmd |-> t[i].cmd, body |-> Body(i, t[i].len)]
    <3>1. \A i \in 1..Len(done) : i \in 1..Len(s)
      BY <2>1, <2>2 DEF Flows
    <3>2. QED
      BY <2>1, <2>2, <3>1 DEF Flows
  <2>5. ~headerRcved[c] => FirstIs(t, R \o T, Len(done) + 1)
    <3>1. Len(done) + 1 \in 1..(Len(s) + 1)
      BY <2>1, <2>2 DEF Flows
    <3>2. QED
      BY <1>2, <2>2, <3>1 DEF Flows, t
  <2>6. headerRcved[c] =>
          /\ Len(done) < Len(t) /\ header[c] = t[Len(done) + 1]
          /\ header[c].len = 0 => FirstIs(t, R \o T, Len(done) + 2)
          /\ header[c].len # 0 => R \o T # <<>> /\ (R \o T)[1] = <<Len(done) + 1, HeaderSize + 1>>
    <3> SUFFICES ASSUME headerRcved[c]
                 PROVE /\ Len(done) < Len(t) /\ header[c] = t[Len(done) + 1]
                       /\ header[c].len = 0 => FirstIs(t, R \o T, Len(done) + 2)
                       /\ header[c].len # 0 => R \o T # <<>> /\ (R \o T)[1] = <<Len(done) + 1, HeaderSize + 1>>
      OBVIOUS
    <3>1. /\ Len(done) < Len(s) /\ header[c] = s[Len(done) + 1]
          /\ header[c].len = 0 => FirstIs(s, R, Len(done) + 2)
          /\ header[c].len # 0 => R # <<>> /\ R[1] = <<Len(done) + 1, HeaderSize + 1>>
      BY <2>2 DEF Flows
    <3>2. Len(done) + 1 \in 1..Len(s) /\ Len(done) + 2 \in 1..(Len(s) + 1) /\ Len(done) < Len(t)
      BY <2>1, <3>1
    <3>3. QED
      BY <1>2, <2>1, <3>1, <3>2 DEF t
  <2>7. QED
    BY <2>3, <2>4, <2>5, <2>6 DEF Flows, t, done, s, R, T
<1>6. Cut(c)'
  <2>1. /\ sent'[c] = Append(s, e) /\ wire'[c] = wire[c] \o T /\ buf'[c] = buf[c]
        /\ headerRcved'[c] = headerRcved[c] /\ header'[c] = header[c]
        /\ handled'[c] = handled[c] /\ torn'[c] = torn[c] /\ ~torn[c]
    BY DEF Streams, StreamTypes, Send
  <2>2. buf[c] \o (wire[c] \o T) = R \o T
    BY <1>1, <1>2, Regroup, ZenonT(60)
  <2>3. QED
    BY <1>5, <2>1, <2>2 DEF Cut
<1>7. ASSUME NEW d \in Clients \ {c} PROVE Cut(d)'
  BY SameStream DEF Streams, StreamTypes, Send
<1>8. QED
  BY <1>3, <1>4, <1>6, <1>7 DEF Streams

LEMMA ArriveStreams == ASSUME Streams, NEW c \in Clients, Arrive(c) PROVE Streams'
<1> PICK n \in 1..Len(wire[c]) :
      /\ buf' = [buf EXCEPT ![c] = @ \o SubSeq(wire[c], 1, n)]
      /\ wire' = [wire EXCEPT ![c] = SubSeq(@, n + 1, Len(@))]
  BY DEF Arrive
<1>1. buf[c] \in Seq(Part) /\ wire[c] \in Seq(Part)
  BY DEF Streams, StreamTypes
<1>2. /\ buf[c] \o SubSeq(wire[c], 1, n) \in Seq(Part)
      /\ SubSeq(wire[c], n + 1, Len(wire[c])) \in Seq(Part)
      /\ (buf[c] \o SubSeq(wire[c], 1, n)) \o SubSeq(wire[c], n + 1, Len(wire[c])) = buf[c] \o wire[c]
  BY <1>1, Arrival
<1>3. StreamTypes'
  BY <1>2 DEF Streams, StreamTypes, Arrive
<1>4. Counts'
  BY DEF Streams, Counts, Arrive
<1>5. Cut(c)'
  <2>1. /\ buf'[c] = buf[c] \o SubSeq(wire[c], 1, n)
        /\ wire'[c] = SubSeq(wire[c], n + 1, Len(wire[c]))
        /\ sent'[c] = sent[c] /\ headerRcved'[c] = headerRcved[c] /\ header'[c] = header[c]
        /\ handled'[c] = handled[c] /\ torn'[c] = torn[c] /\ wire[c] # <<>>
    BY DEF Streams, StreamTypes, Arrive
  <2>2. Cut(c)
    BY DEF Streams
  <2>3. QED
    BY <1>2, <2>1, <2>2 DEF Cut
<1>6. ASSUME NEW d \in Clients \ {c} PROVE Cut(d)'
  BY SameStream DEF Streams, StreamTypes, Arrive
<1>7. QED
  BY <1>3, <1>4, <1>5, <1>6 DEF Streams

LEMMA AtLeastTwo ==
  ASSUME NEW x \in Nat, NEW y \in Nat, x >= 2
  PROVE 1 \in 1..(x + y) /\ 1 <= x /\ x + y >= 2
  OBVIOUS

LEMMA UpTo == ASSUME NEW m \in Nat, NEW x \in 0..m PROVE x <= m
  OBVIOUS

\* A header that was read goes out of the stream.
LEMMA HeaderStreams == ASSUME Streams, NEW c \in Clients, RecvHeader(c) PROVE Streams'
<1> PICK k \in 1..Len(sent[c]) :
      IsHeaderOf(k, HeaderParts(c)) /\ header' = [header EXCEPT ![c] = sent[c][k]]
  BY DEF RecvHeader
<1> DEFINE b == buf[c]
<1> DEFINE R == b \o wire[c]
<1>1. /\ sent[c] \in Seq(Packet) /\ b \in Seq(Part) /\ wire[c] \in Seq(Part)
      /\ header[c] \in Packet /\ handled[c] \in Seq(Handled)
      /\ sent[c][k] \in Packet /\ headerRcved[c] = FALSE /\ b # <<>>
  <2>1. /\ sent[c] \in Seq(Packet) /\ b \in Seq(Part) /\ wire[c] \in Seq(Part)
        /\ header[c] \in Packet /\ handled[c] \in Seq(Handled)
    BY DEF Streams, StreamTypes
  <2>2. headerRcved[c] \in BOOLEAN /\ ~headerRcved[c] /\ b # <<>>
    BY DEF Streams, StreamTypes, RecvHeader, AtHeader
  <2>3. QED
    BY <2>1, <2>2, ElementOfSeq
<1>2. Len(b) \in Nat /\ Len(b) # 0 /\ Len(wire[c]) \in Nat /\ HeaderSize = 2
  BY <1>1, LenProperties, EmptySeq DEF HeaderSize
<1>3. Len(b) >= 2 /\ b[1] = <<k, 1>>
  <2> DEFINE n == IF Len(b) < HeaderSize THEN Len(b) ELSE HeaderSize
  <2> DEFINE h == SubSeq(b, 1, n)
  <2>1. n \in Nat /\ n >= 1 /\ n <= Len(b) /\ n <= 2
    BY <1>2
  <2>2. h = [i \in 1..2 |-> <<k, i>>]
    BY <1>2 DEF IsHeaderOf, HeaderParts
  <2>3. \A i \in 1..n : b[i] \in Part
    BY <1>1, <1>2, <2>1, ElementOfSeq
  <2> HIDE DEF n
  <2>4. /\ h \in Seq(Part) /\ Len(h) = n
        /\ \A i \in 1..n : h[i] = b[i]
    <3>1. /\ h \in Seq(Part) /\ Len(h) = IF 1 <= n THEN n - 1 + 1 ELSE 0
          /\ \A i \in 1..(n - 1 + 1) : h[i] = b[1 + i - 1]
      BY <2>1, <2>3, SubSeqProperties
    <3>2. QED
      BY <2>1, <3>1
  <2> HIDE DEF h
  <2>5. DOMAIN h = 1..2 /\ DOMAIN h = 1..n /\ h[1] = <<k, 1>>
    <3>1. DOMAIN h = 1..n
      BY <2>4, LenProperties
    <3>2. QED
      BY <2>2, <3>1
  <2>6. n = 2
    <3>1. 2 \in 1..n
      BY <2>5
    <3>2. QED
      BY <2>1, <3>1
  <2>7. 1 \in 1..n /\ Len(b) >= 2
    BY <1>2, <2>1, <2>6
  <2>8. QED
    BY <2>4, <2>5, <2>7
<1>4. 2 \in 0..Len(b) /\ Rest(b, 2) \in Seq(Part) /\ Rest(b, 2) \o wire[c] = Rest(R, 2)
  <2>1. 2 \in 0..Len(b)
    BY <1>2, <1>3
  <2>2. QED
    BY <1>1, <2>1, RestOfBuffer
<1>5. R \in Seq(Part) /\ Len(R) >= 2 /\ R[1] = <<k, 1>>
  <2>1. /\ R \in Seq(Part) /\ Len(R) = Len(b) + Len(wire[c])
        /\ \A i \in 1..(Len(b) + Len(wire[c])) :
             R[i] = IF i <= Len(b) THEN b[i] ELSE wire[c][i - Len(b)]
    BY <1>1, ConcatProperties
  <2>2. Len(b) \in Nat /\ Len(wire[c]) \in Nat /\ Len(b) >= 2
    BY <1>2, <1>3
  <2> HIDE DEF b
  <2>3. 1 \in 1..(Len(b) + Len(wire[c])) /\ 1 <= Len(b) /\ Len(b) + Len(wire[c]) >= 2
    BY <2>2, AtLeastTwo
  <2>4. R[1] = b[1]
    BY <2>1, <2>3
  <2>5. QED
    BY <1>3, <2>1, <2>3, <2>4
<1>6. ~torn[c] /\ Flows(sent[c], R, FALSE, header[c], handled[c])
  <2>1. Cut(c)
    BY DEF Streams
  <2>2. ~torn[c]
    BY <1>1, <2>1 DEF Cut
  <2>3. QED
    BY <1>1, <2>1, <2>2 DEF Cut
<1>7. Flows(sent[c], Rest(R, 2), TRUE, sent[c][k], handled[c])
  <2> HIDE DEF R
  <2>1. Len(R) >= HeaderSize /\ HeaderSize = 2
    BY <1>2, <1>5
  <2>2. QED
    BY <1>1, <1>5, <1>6, <2>1, HeaderRead
<1>8. buf' = [buf EXCEPT ![c] = Rest(b, 2)] /\ headerRcved' = [headerRcved EXCEPT ![c] = TRUE]
      /\ UNCHANGED <<sent, wire, handled, torn, running, answers, exits>>
  BY <1>2 DEF RecvHeader, Rest
<1>9. StreamTypes'
  BY <1>1, <1>4, <1>8 DEF Streams, StreamTypes
<1>10. Counts'
  BY <1>8 DEF Streams, Counts
<1>11. Cut(c)'
  <2>1. /\ buf'[c] = Rest(b, 2) /\ wire'[c] = wire[c] /\ sent'[c] = sent[c]
        /\ headerRcved'[c] = TRUE /\ header'[c] = sent[c][k] /\ handled'[c] = handled[c]
        /\ torn'[c] = torn[c]
    BY <1>8 DEF Streams, StreamTypes
  <2>2. QED
    BY <1>4, <1>6, <1>7, <2>1 DEF Cut
<1>12. ASSUME NEW d \in Clients \ {c} PROVE Cut(d)'
  BY <1>8, SameStream DEF Streams, StreamTypes
<1>13. QED
  BY <1>9, <1>10, <1>11, <1>12 DEF Streams

\* A packet that was taken out goes out of the stream.
LEMMA PacketStreams ==
  ASSUME Streams, NEW c \in Clients, PacketIn(c) # {}, NextPacket(c) PROVE Streams'
<1> DEFINE b == buf[c]
<1> DEFINE n == header[c].len
<1> DEFINE R == b \o wire[c]
<1> DEFINE e == [cmd |-> header[c].cmd, body |-> SubSeq(b, 1, n)]
<1>1. /\ sent[c] \in Seq(Packet) /\ b \in Seq(Part) /\ wire[c] \in Seq(Part)
      /\ header[c] \in Packet /\ handled[c] \in Seq(Handled) /\ n \in Nat /\ Len(b) \in Nat
  <2>1. /\ sent[c] \in Seq(Packet) /\ b \in Seq(Part) /\ wire[c] \in Seq(Part)
        /\ header[c] \in Packet /\ handled[c] \in Seq(Handled)
    BY DEF Streams, StreamTypes
  <2>2. n \in Nat
    BY <2>1, LensAssumption DEF Packet
  <2>3. QED
    BY <2>1, <2>2, LenProperties
<1>2. Cut(c) /\ n <= Len(b) /\ (~torn[c] => headerRcved[c])
  <2>1. Cut(c)
    BY DEF Streams
  <2>2. CASE torn[c]
    BY <2>1, <2>2, EmptySeq DEF Cut, NoHeader
  <2>3. CASE ~torn[c]
    BY <2>1, <2>3 DEF PacketIn
  <2>4. QED
    BY <2>1, <2>2, <2>3
<1>3. /\ n \in 0..Len(b) /\ Rest(b, n) \in Seq(Part) /\ Rest(b, n) \o wire[c] = Rest(R, n)
      /\ n \in 0..Len(R)
  <2>1. n \in 0..Len(b)
    BY <1>1, <1>2
  <2>2. QED
    BY <1>1, <2>1, RestOfBuffer
<1>4. e \in Handled
  <2>1. \A i \in 1..n : b[i] \in Part
    BY <1>1, <1>2, ElementOfSeq
  <2>2. SubSeq(b, 1, n) \in Seq(Part)
    BY <1>1, <2>1, SubSeqProperties
  <2>3. QED
    BY <1>1, <2>2 DEF Handled, Packet
<1>5. /\ headerRcved' = [headerRcved EXCEPT ![c] = FALSE]
      /\ buf' = [buf EXCEPT ![c] = Rest(b, n)]
      /\ handled' = [handled EXCEPT ![c] = Append(handled[c], e)]
      /\ UNCHANGED <<sent, wire, header, torn, running, answers, exits>>
  BY DEF NextPacket, Rest
<1>6. StreamTypes'
  <2>1. Append(handled[c], e) \in Seq(Handled)
    BY <1>1, <1>4, AppendProperties
  <2>2. QED
    BY <1>3, <1>5, <2>1 DEF Streams, StreamTypes
<1>7. Counts'
  BY <1>5 DEF Streams, Counts
<1>8. /\ buf'[c] = Rest(b, n) /\ wire'[c] = wire[c] /\ sent'[c] = sent[c]
      /\ headerRcved'[c] = FALSE /\ header'[c] = header[c]
      /\ handled'[c] = Append(handled[c], e) /\ torn'[c] = torn[c]
  BY <1>5 DEF Streams, StreamTypes
<1>9. ASSUME torn[c] PROVE Cut(c)'
  <2>1. b = <<>> /\ wire[c] = <<>> /\ header[c] = NoHeader /\ n = 0
    BY <1>2, <1>9 DEF Cut, NoHeader
  <2>2. Rest(b, n) = <<>>
    BY <2>1, EmptySeq, SubSeqEmpty DEF Rest
  <2>3. buf'[c] = <<>> /\ wire'[c] = <<>> /\ header'[c] = NoHeader
    BY <1>8, <2>1, <2>2
  <2>4. torn'[c]
    BY <1>8, <1>9
  <2>5. (torn[c] => buf[c] = <<>> /\ wire[c] = <<>> /\ header[c] = NoHeader)'
    BY <2>3
  <2>6. (~torn[c] => Flows(sent[c], buf[c] \o wire[c], headerRcved[c], header[c], handled[c]))'
    BY <2>4
  <2>7. QED
    BY <2>5, <2>6 DEF Cut
<1>10. ASSUME ~torn[c] PROVE Cut(c)'
  <2>1. Flows(sent[c], R, TRUE, header[c], handled[c])
    <3>1. headerRcved[c] = TRUE
      BY <1>2, <1>10 DEF Streams, StreamTypes
    <3>2. QED
      BY <1>2, <1>10, <3>1 DEF Cut
  <2>2. R \in Seq(Part) /\ header[c].len <= Len(R)
    <3>1. R \in Seq(Part)
      BY <1>1, ConcatProperties
    <3>2. Len(R) \in Nat
      BY <3>1, LenProperties
    <3>3. n \in 0..Len(R)
      BY <1>3
    <3> HIDE DEF n, R
    <3>4. n <= Len(R)
      BY <3>2, <3>3, UpTo
    <3>5. QED
      BY <3>1, <3>4 DEF n
  <2>3. SubSeq(b, 1, n) = SubSeq(R, 1, n)
    <3>1. CASE n = 0
      BY <3>1, SubSeqEmpty
    <3>2. CASE n # 0
      <4>1. 1 \in 1..Len(b) /\ n \in 1..Len(b)
        BY <1>1, <1>2, <3>2
      <4>2. QED
        BY <1>1, <4>1, SubSeqOfConcat1
    <3>3. QED
      BY <3>1, <3>2
  <2>4. Flows(sent[c], Rest(R, n), FALSE, header[c],
              Append(handled[c], [cmd |-> header[c].cmd, body |-> SubSeq(R, 1, n)]))
    <3> HIDE DEF R
    <3>1. QED
      BY <1>1, <2>1, <2>2, PacketRead
  <2>5. Flows(sent[c], Rest(R, n), FALSE, header[c], Append(handled[c], e))
    BY <2>3, <2>4
  <2>6. buf'[c] \o wire'[c] = Rest(R, n)
    BY <1>3, <1>8
  <2>7. ~torn'[c]
    BY <1>8, <1>10
  <2>8. /\ sent'[c] = sent[c] /\ headerRcved'[c] = FALSE /\ header'[c] = header[c]
        /\ handled'[c] = Append(handled[c], e)
    BY <1>8
  <2> HIDE DEF R, n, e, b
  <2>9. Flows(sent'[c], buf'[c] \o wire'[c], headerRcved'[c], header'[c], handled'[c])
    BY <2>5, <2>6, <2>8
  <2>10. (torn[c] => buf[c] = <<>> /\ wire[c] = <<>> /\ header[c] = NoHeader)'
    BY <2>7
  <2>11. (~torn[c] => Flows(sent[c], buf[c] \o wire[c], headerRcved[c], header[c], handled[c]))'
    BY <2>9
  <2>12. QED
    BY <2>10, <2>11 DEF Cut
<1>11. ASSUME NEW d \in Clients \ {c} PROVE Cut(d)'
  BY <1>5, SameStream DEF Streams, StreamTypes
<1>12. QED
  BY <1>6, <1>7, <1>9, <1>10, <1>11 DEF Streams

\* Every step keeps the streams.
LEMMA NextStreams == Inv /\ Streams /\ [Next]_vars => Streams'
<1> SUFFICES ASSUME Inv, Streams, [Next]_vars PROVE Streams'
  OBVIOUS
<1>0. Counts
  BY DEF Streams
<1>1. CASE UNCHANGED vars
  <2>1. UNCHANGED stream /\ Counts'
    BY <1>0, <1>1 DEF vars, Counts
  <2>2. QED
    BY <2>1, SameStreams
<1>2. ASSUME NEW c \in Clients, Send(c) PROVE Streams'
  BY <1>2, SendStreams
<1>3. ASSUME NEW c \in Clients, Arrive(c) PROVE Streams'
  BY <1>3, ArriveStreams
<1>4. ASSUME NEW c \in Clients, Close(c) PROVE Streams'
  BY <1>4, CloseStreams
<1>5. ASSUME NEW c \in Clients, checkSessions(c) PROVE Streams'
  BY <1>0, <1>5, SameStreams DEF checkSessions, Counts
<1>6. ASSUME NEW c \in Clients, RecvWaits(c) PROVE Streams'
  BY <1>0, <1>6, SameStreams DEF RecvWaits, Counts
<1>7. ASSUME NEW c \in Clients, RecvHeader(c) PROVE Streams'
  BY <1>7, HeaderStreams
<1>8. ASSUME NEW c \in Clients, RecvTornHeader(c) PROVE Streams'
  <2>1. Tear(c) /\ answers' \in 0..MaxAnswers /\ exits' = exits
    BY <1>0, <1>8 DEF RecvTornHeader, Counts
  <2>2. QED
    BY <2>1, TearStreams
<1>9. ASSUME NEW c \in Clients, RecvCommon(c) PROVE Streams'
  <2>1. PacketIn(c) # {} /\ NextPacket(c)
    BY <1>9 DEF RecvCommon
  <2>2. QED
    BY <2>1, PacketStreams
<1>10. ASSUME NEW c \in Clients, RecvForServer(c) PROVE Streams'
  <2>1. PacketIn(c) # {} /\ NextPacket(c)
    BY <1>10 DEF RecvForServer
  <2>2. QED
    BY <2>1, PacketStreams
<1>11. ASSUME NEW c \in Clients, onRecv(c) PROVE Streams'
  <2>0. CASE RecvForward(c)
    <3>1. PacketIn(c) # {} /\ NextPacket(c)
      BY <2>0 DEF RecvForward
    <3>2. QED
      BY <3>1, PacketStreams
  <2>1. CASE RecvDestroyed(c) \/ RecvBad(c) \/ RecvUnserved(c)
    <3>1. Close(c)
      BY <2>1 DEF RecvDestroyed, RecvBad, RecvUnserved
    <3>2. QED
      BY <3>1, <1>4
  <2>2. QED
    BY <1>6, <1>7, <1>8, <1>9, <1>10, <1>11, <2>0, <2>1 DEF onRecv
<1>12. ASSUME NEW b \in Backends, onServerJoined(b) PROVE Streams'
  BY <1>0, <1>12, SameStreams DEF onServerJoined, Counts
<1>13. ASSUME NEW b \in Backends, onServerExit(b) PROVE Streams'
  <2>1. UNCHANGED stream
    BY <1>13 DEF onServerExit
  <2>2. exits' \in 0..MaxExits
    BY <1>0, <1>13, BoundsAssumption DEF onServerExit, Counts
  <2>3. Counts'
    BY <1>0, <1>13, <2>2 DEF onServerExit, Counts
  <2>4. QED
    BY <2>1, <2>3, SameStreams
<1>14. ASSUME NEW b \in Backends, NEW c \in Clients, onForwardPacket(b, c) PROVE Streams'
  <2>1. answers' \in 0..MaxAnswers
    BY <1>0, <1>14, BoundsAssumption DEF onForwardPacket, Counts
  <2>2. exits' = exits
    BY <1>14 DEF onForwardPacket
  <2>3. CASE Tear(c)
    BY <2>1, <2>2, <2>3, TearStreams
  <2>4. CASE UNCHANGED <<stream, running>>
    <3>1. UNCHANGED stream /\ Counts'
      BY <1>0, <2>1, <2>2, <2>4 DEF Counts
    <3>2. QED
      BY <3>1, SameStreams
  <2>5. QED
    BY <1>14, <2>3, <2>4 DEF onForwardPacket
<1>15. ASSUME NEW c \in Clients, onDisconnected(c) PROVE Streams'
  BY <1>4, <1>15 DEF onDisconnected
<1>16. QED
  BY <1>1, <1>2, <1>3, <1>5, <1>11, <1>12, <1>13, <1>14, <1>15 DEF Next

LEMMA StreamsHold == Spec => []Streams
<1>1. Init => Streams
  BY InitStreams
<1>2. Inv /\ Streams /\ [Next]_vars => Streams'
  BY NextStreams
<1>3. QED
  BY <1>1, <1>2, InvHolds, PTL DEF Spec
-------------------------------------------------------------------------------
(* Theorems                                                                  *)

\* Every variable of connector keeps its type, for any number of packets and exits.
THEOREM GatewayTypeCorrect == Spec => []TypeOK
<1>1. Inv /\ Streams => TypeOK
  BY DEF Inv, Core, Typed, Streams, StreamTypes, Counts, TypeOK, Part, Packet, Handled
<1>2. QED
  BY <1>1, InvHolds, StreamsHold, PTL

\* Session::onRecv hands on what the client sent, packet by packet and in order, wherever
\* the network cuts the stream and whatever the lengths, as long as no header is read in
\* part or overwritten.
THEOREM PacketsComeWhole == Spec => []PacketsWhole
<1>1. Streams => PacketsWhole
  <2> SUFFICES ASSUME Streams, NEW c \in Clients, ~torn[c], NEW j \in DOMAIN handled[c]
               PROVE /\ j <= Len(sent[c])
                     /\ handled[c][j] = [cmd |-> sent[c][j].cmd, body |-> Body(j, sent[c][j].len)]
    BY DEF PacketsWhole
  <2>1. Flows(sent[c], buf[c] \o wire[c], headerRcved[c], header[c], handled[c])
    BY DEF Streams, Cut
  <2>2. handled[c] \in Seq(Handled) /\ sent[c] \in Seq(Packet)
    BY DEF Streams, StreamTypes
  <2>3. /\ Len(handled[c]) \in Nat /\ Len(sent[c]) \in Nat
        /\ DOMAIN handled[c] = 1..Len(handled[c])
    BY <2>2, LenProperties
  <2>4. j \in 1..Len(handled[c])
    BY <2>3
  <2>5. /\ Len(handled[c]) <= Len(sent[c])
        /\ handled[c][j] = [cmd |-> sent[c][j].cmd, body |-> Body(j, sent[c][j].len)]
    BY <2>1, <2>4 DEF Flows
  <2>6. QED
    BY <2>3, <2>4, <2>5
<1>2. QED
  BY <1>1, StreamsHold, PTL
===============================================================================
