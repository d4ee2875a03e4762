----------------------------- MODULE WireProofs -----------------------------
(***************************************************************************)
(* Proofs about Wire, for every size of the header, every set of message   *)
(* sizes and every number of messages.                                     *)
(***************************************************************************)
EXTENDS Wire, Integers, SequenceTheorems, TLAPS

(***************************************************************************)
(* The inductive invariant.  InStep says of neighbouring bytes how one     *)
(* follows the other, which is not inductive: that the first bytes of the  *)
(* stream make up a header is seen only from all of them.  GapFree says    *)
(* where every byte of a message stands, counted from any other byte of    *)
(* it.  The definitions take the sizes of the messages as a parameter, as  *)
(* a step that begins a message adds one.                                  *)
(***************************************************************************)

\* The bytes of messages of these sizes.
Places(sizes) ==
  {b \in (1 .. Len(sizes)) \X Nat : b[2] \in 1 .. HeaderSize + sizes[b[1]]}

PlaceAfter(b, sizes) ==
  IF b[2] < HeaderSize + sizes[b[1]] THEN <<b[1], b[2] + 1>>
                                     ELSE <<b[1] + 1, 1>>

\* Of the first l bytes, each is followed by the next one.
Adjacent(bytes, l, sizes) ==
  \A i \in 1 .. l - 1 : bytes[i + 1] = PlaceAfter(bytes[i], sizes)

\* Each tells where those of the same message are that come after it.
Aligned(bytes, l, sizes) ==
  \A i, j \in 1 .. l :
    i <= j /\ bytes[i][2] + (j - i) <= HeaderSize + sizes[bytes[i][1]]
      => bytes[j] = <<bytes[i][1], bytes[i][2] + (j - i)>>

GapFree(bytes, sizes) ==
  Adjacent(bytes, Len(bytes), sizes) /\ Aligned(bytes, Len(bytes), sizes)

\* Only bytes that were sent are under way, or received, whatever was lost.
RangeInv ==
  /\ stream \in Seq(Places(sent))
  /\ data \in Seq(Places(sent))
  /\ msg \in (1 .. Len(sent)) \union {Garbage}
  /\ sender = "body" => sent # <<>>

OnTrack == ~ torn /\ receiver # "ended"

\* A body is received until it is complete, and until part of a message is lost
\* it is the body of the next message.
BodyInv ==
  receiver = "body" =>
    /\ Len(data) < size \/ (data = <<>> /\ size = 0)
    /\ OnTrack => msg = Len(delivered) + 1 /\ size = sent[msg]

StepInv ==
  OnTrack =>
    /\ GapFree(Ahead, sent)
    /\ Ahead # <<>> => Ahead[1] = <<Len(delivered) + 1, 1>>

\* The byte that comes after all that is ahead of the receiver, and the one the
\* sender will send next: an empty body is no byte.
Following ==
  IF Ahead = <<>> THEN <<Len(delivered) + 1, 1>>
                  ELSE PlaceAfter(Ahead[Len(Ahead)], sent)

Upcoming ==
  IF sender = "body" /\ sent[Len(sent)] > 0 THEN <<Len(sent), HeaderSize + 1>>
                                            ELSE <<Len(sent) + 1, 1>>

\* As long as both hold the connection, the sender goes on where the stream ends.
EndInv == OnTrack /\ ~ closed /\ sender # "ended" => Following = Upcoming

IndInv ==
  /\ TypeOK
  /\ RangeInv
  /\ BodyInv
  /\ StepInv
  /\ EndInv
-----------------------------------------------------------------------------
(* Sequences of bytes.                                                     *)

\* A byte is its two numbers.
LEMMA PlaceProperties ==
  ASSUME NEW z \in Seq(Nat), NEW b \in Places(z)
  PROVE  /\ b[1] \in 1 .. Len(z) /\ b[1] \in Nat
         /\ b[2] \in Nat /\ 1 <= b[2] /\ b[2] <= HeaderSize + z[b[1]]
         /\ z[b[1]] \in Nat
         /\ b = <<b[1], b[2]>>
  BY WireAssumption DEF Places

\* What goes on without a gap does so in every part of it.
LEMMA GapFreePart ==
  ASSUME NEW z \in Seq(Nat), NEW s \in Seq(Places(z)), GapFree(s, z),
         NEW m \in Nat, NEW n \in Nat, 1 <= m, m <= n + 1, n <= Len(s)
  PROVE  /\ SubSeq(s, m, n) \in Seq(Places(z))
         /\ Len(SubSeq(s, m, n)) = n - m + 1
         /\ \A i \in 1 .. n - m + 1 : SubSeq(s, m, n)[i] = s[m + i - 1]
         /\ GapFree(SubSeq(s, m, n), z)
  <1> DEFINE t == SubSeq(s, m, n)
  <1>1. Len(s) \in Nat /\ \A i \in 1 .. Len(s) : s[i] \in Places(z)
    BY LenProperties, ElementOfSeq
  <1>2. /\ t \in Seq(Places(z))
        /\ Len(t) = n - m + 1
        /\ \A i \in 1 .. n - m + 1 : t[i] = s[m + i - 1]
    <2>1. \A i \in m .. n : s[i] \in Places(z)
      BY <1>1
    <2>2. m \in Int /\ n \in Int
      OBVIOUS
    <2>3. /\ t \in Seq(Places(z))
          /\ Len(t) = IF m <= n THEN n - m + 1 ELSE 0
          /\ \A i \in 1 .. n - m + 1 : t[i] = s[m + i - 1]
      BY <2>1, <2>2, SubSeqProperties
    <2> QED
      BY <2>3
  <1> HIDE DEF t
  <1>3. \A i \in 1 .. Len(t) - 1 : t[i + 1] = PlaceAfter(t[i], z)
    <2> SUFFICES ASSUME NEW i \in 1 .. Len(t) - 1
                 PROVE  t[i + 1] = PlaceAfter(t[i], z)
      OBVIOUS
    <2>1. /\ m + i - 1 \in 1 .. Len(s) - 1
          /\ i \in 1 .. n - m + 1 /\ i + 1 \in 1 .. n - m + 1
          /\ m + (i + 1) - 1 = (m + i - 1) + 1
      BY <1>1, <1>2
    <2>2. t[i] = s[m + i - 1] /\ t[i + 1] = s[(m + i - 1) + 1]
      <3>1. t[i] = s[m + i - 1]
        BY <1>2, <2>1
      <3>2. t[i + 1] = s[m + (i + 1) - 1]
        BY <1>2, <2>1
      <3> QED
        BY <2>1, <3>1, <3>2
    <2> QED
      BY <2>1, <2>2 DEF GapFree, Adjacent
  <1>4. \A i, j \in 1 .. Len(t) :
          i <= j /\ t[i][2] + (j - i) <= HeaderSize + z[t[i][1]]
            => t[j] = <<t[i][1], t[i][2] + (j - i)>>
    <2> SUFFICES ASSUME NEW i \in 1 .. Len(t), NEW j \in 1 .. Len(t), i <= j,
                        t[i][2] + (j - i) <= HeaderSize + z[t[i][1]]
                 PROVE  t[j] = <<t[i][1], t[i][2] + (j - i)>>
      OBVIOUS
    <2>1. /\ m + i - 1 \in 1 .. Len(s) /\ m + j - 1 \in 1 .. Len(s)
          /\ t[i] = s[m + i - 1] /\ t[j] = s[m + j - 1]
          /\ m + i - 1 <= m + j - 1
          /\ (m + j - 1) - (m + i - 1) = j - i
      <3>1. i \in Nat /\ j \in Nat /\ m \in Nat
        OBVIOUS
      <3>2. /\ i \in 1 .. n - m + 1 /\ j \in 1 .. n - m + 1
            /\ m + i - 1 \in 1 .. Len(s) /\ m + j - 1 \in 1 .. Len(s)
        <4>1. Len(s) \in Nat
          BY <1>1
        <4>2. i \in 1 .. n - m + 1 /\ j \in 1 .. n - m + 1
          BY <1>2
        <4> QED
          BY <3>1, <4>1, <4>2
      <3>3. t[i] = s[m + i - 1] /\ t[j] = s[m + j - 1]
        BY <1>2, <3>2
      <3> QED
        BY <3>1, <3>2, <3>3
    <2> QED
      BY <2>1 DEF GapFree, Aligned
  <1> QED
    BY <1>2, <1>3, <1>4 DEF GapFree, Adjacent, Aligned, t

\* A run of bytes of message n, from the place behind p.
Run(n, p, m) == [i \in 1 .. m |-> <<n, p + i>>]

LEMMA RunProperties ==
  ASSUME NEW z \in Seq(Nat), NEW n \in 1 .. Len(z), NEW p \in Nat, NEW m \in Nat,
         p + m <= HeaderSize + z[n]
  PROVE  /\ Run(n, p, m) \in Seq(Places(z))
         /\ Len(Run(n, p, m)) = m
         /\ \A i \in 1 .. m : Run(n, p, m)[i] = <<n, p + i>>
  <1>1. \A i \in 1 .. m : <<n, p + i>> \in Places(z)
    BY WireAssumption DEF Places
  <1>2. Run(n, p, m) \in [1 .. m -> Places(z)]
    BY <1>1 DEF Run
  <1> QED
    <2>1. Run(n, p, m) \in Seq(Places(z))
      BY <1>2, SeqDef
    <2>2. DOMAIN Run(n, p, m) = 1 .. m
      BY DEF Run
    <2>3. Len(Run(n, p, m)) = m
      BY <2>1, <2>2, LenProperties
    <2> QED
      BY <2>1, <2>3 DEF Run

\* Bytes, and a run behind them: the hypotheses of the next two lemmas.
Numeric(s, l, z) ==
  \A i \in 1 .. l : s[i][1] \in Nat /\ s[i][2] \in Nat /\ z[s[i][1]] \in Nat

Joined(t, s, l, m, n, p) ==
  /\ \A i \in 1 .. l : t[i] = s[i]
  /\ \A i \in 1 .. l + m : i > l => t[i] = <<n, p + (i - l)>>

LEMMA AdjacentJoined ==
  ASSUME NEW z, NEW s, NEW t, NEW l \in Nat, NEW m \in Nat, NEW n \in Nat,
         NEW p \in Nat, HeaderSize \in Nat, z[n] \in Nat,
         p + m <= HeaderSize + z[n],
         Joined(t, s, l, m, n, p),
         Adjacent(s, l, z),
         l > 0 => PlaceAfter(s[l], z) = <<n, p + 1>>
  PROVE  Adjacent(t, l + m, z)
  <1>1. ASSUME NEW i \in 1 .. (l + m) - 1
        PROVE  t[i + 1] = PlaceAfter(t[i], z)
    <2>1. CASE i < l
      BY <2>1 DEF Adjacent, Joined
    <2>2. CASE i = l
      BY <2>2 DEF Joined
    <2>3. CASE i > l
      <3>1. t[i] = <<n, p + (i - l)>> /\ t[i + 1] = <<n, (p + (i - l)) + 1>>
        BY <2>3 DEF Joined
      <3>2. p + (i - l) < HeaderSize + z[n]
        BY <2>3
      <3> QED
        BY <3>1, <3>2 DEF PlaceAfter
    <2> QED
      BY <2>1, <2>2, <2>3
  <1> QED
    BY <1>1, Zenon DEF Adjacent

LEMMA AlignedJoined ==
  ASSUME NEW z, NEW s, NEW t, NEW l \in Nat, NEW m \in Nat, NEW n \in Nat,
         NEW p \in Nat, HeaderSize \in Nat,
         Numeric(s, l, z),
         Joined(t, s, l, m, n, p),
         Aligned(s, l, z),
         l > 0 => PlaceAfter(s[l], z) = <<n, p + 1>>
  PROVE  Aligned(t, l + m, z)
  <1>1. ASSUME NEW i \in 1 .. l + m, NEW j \in 1 .. l + m, i <= j,
               t[i][2] + (j - i) <= HeaderSize + z[t[i][1]]
        PROVE  t[j] = <<t[i][1], t[i][2] + (j - i)>>
    <2>1. CASE j <= l
      BY <1>1, <2>1 DEF Aligned, Joined
    <2>2. CASE i > l
      <3>1. t[i] = <<n, p + (i - l)>> /\ t[j] = <<n, p + (j - l)>>
        BY <1>1, <2>2 DEF Joined
      <3>2. (p + (i - l)) + (j - i) = p + (j - l)
        OBVIOUS
      <3> QED
        BY <3>1, <3>2
    <2>3. CASE i <= l /\ j > l
      <3>1. /\ i \in 1 .. l /\ l \in 1 .. l
            /\ t[i] = s[i] /\ t[j] = <<n, p + (j - l)>>
        BY <2>3 DEF Joined
      <3>2. s[i][1] \in Nat /\ s[i][2] \in Nat /\ z[s[i][1]] \in Nat
        BY <3>1 DEF Numeric
      <3>3. s[i][2] + (l - i) < HeaderSize + z[s[i][1]]
        BY <1>1, <2>3, <3>1, <3>2
      <3>4. s[l] = <<s[i][1], s[i][2] + (l - i)>>
        BY <3>1, <3>2, <3>3 DEF Aligned
      <3>5. PlaceAfter(s[l], z) = <<s[i][1], (s[i][2] + (l - i)) + 1>>
        BY <3>3, <3>4 DEF PlaceAfter
      <3>6. n = s[i][1] /\ p + 1 = (s[i][2] + (l - i)) + 1
        BY <3>1, <3>5
      <3>7. s[i][2] + (j - i) = p + (j - l)
        BY <3>2, <3>6
      <3> QED
        BY <3>1, <3>6, <3>7
    <2> QED
      BY <2>1, <2>2, <2>3
  <1> QED
    BY <1>1, Zenon DEF Aligned

\* The first and the last byte of t, which goes on from s with byte b.
Ends(t, s, b, e) ==
  /\ t # <<>>
  /\ t[1] = IF s = <<>> THEN b ELSE s[1]
  /\ t[Len(t)] = e

\* The bytes of a message, added where they belong, leave no gap.
LEMMA GapFreeExtended ==
  ASSUME NEW z \in Seq(Nat), NEW s \in Seq(Places(z)), GapFree(s, z),
         NEW n \in 1 .. Len(z), NEW p \in Nat, NEW m \in Nat,
         p + m <= HeaderSize + z[n],
         s # <<>> => PlaceAfter(s[Len(s)], z) = <<n, p + 1>>
  PROVE  /\ s \o Run(n, p, m) \in Seq(Places(z))
         /\ GapFree(s \o Run(n, p, m), z)
         /\ m > 0 => Ends(s \o Run(n, p, m), s, <<n, p + 1>>, <<n, p + m>>)
  <1> DEFINE r == Run(n, p, m)
             t == s \o r
             l == Len(s)
  <1>1. /\ r \in Seq(Places(z)) /\ Len(r) = m
        /\ \A i \in 1 .. m : r[i] = <<n, p + i>>
    BY RunProperties
  <1>2. /\ l \in Nat
        /\ t \in Seq(Places(z))
        /\ Len(t) = l + m
        /\ \A i \in 1 .. l : t[i] = s[i]
        /\ \A i \in 1 .. l + m : i > l => t[i] = <<n, p + (i - l)>>
    <2>1. l \in Nat
      BY LenProperties
    <2>2. /\ t \in Seq(Places(z)) /\ Len(t) = l + Len(r)
          /\ \A i \in 1 .. l + Len(r) : t[i] = IF i <= l THEN s[i] ELSE r[i - l]
      BY <1>1, ConcatProperties
    <2> HIDE DEF r, t, l
    <2>3. Len(t) = l + m
      BY <1>1, <2>2
    <2>4. \A i \in 1 .. l : t[i] = s[i]
      BY <1>1, <2>1, <2>2
    <2>5. ASSUME NEW i \in 1 .. l + m, i > l
          PROVE  t[i] = <<n, p + (i - l)>>
      <3>1. i - l \in 1 .. m
        BY <2>1, <2>5
      <3>2. t[i] = r[i - l]
        BY <1>1, <2>1, <2>2, <2>5
      <3> QED
        BY <1>1, <3>1, <3>2
    <2> QED
      BY <2>1, <2>2, <2>3, <2>4, <2>5
  <1>3. Numeric(s, l, z)
    BY ElementOfSeq, PlaceProperties DEF Numeric
  <1>4. /\ HeaderSize \in Nat /\ z[n] \in Nat /\ n \in Nat
        /\ Adjacent(s, l, z) /\ Aligned(s, l, z)
    BY WireAssumption DEF GapFree
  <1>j. Joined(t, s, l, m, n, p)
    <2> HIDE DEF r, t, l
    <2> QED
      BY <1>2 DEF Joined
  <1>5. l > 0 => PlaceAfter(s[l], z) = <<n, p + 1>>
    BY EmptySeq
  <1>6. GapFree(t, z)
    <2> HIDE DEF r, t, l
    <2>1. Adjacent(t, l + m, z)
      BY <1>2, <1>4, <1>5, <1>j, AdjacentJoined
    <2>2. Aligned(t, l + m, z)
      BY <1>2, <1>3, <1>4, <1>5, <1>j, AlignedJoined
    <2> QED
      BY <1>2, <2>1, <2>2 DEF GapFree
  <1>7. ASSUME m > 0
        PROVE  t # <<>> /\ t[Len(t)] = <<n, p + m>>
    <2>1. t # <<>>
      BY <1>2, <1>7, EmptySeq
    <2> HIDE DEF r, t, l
    <2>2. /\ l + m \in 1 .. l + m /\ l + m > l /\ (l + m) - l = m
          /\ Len(t) = l + m
      BY <1>2, <1>7
    <2>3. t[l + m] = <<n, p + ((l + m) - l)>>
      BY <1>2, <2>2
    <2> QED
      BY <2>1, <2>2, <2>3
  <1>8. ASSUME m > 0
        PROVE  t[1] = IF s = <<>> THEN <<n, p + 1>> ELSE s[1]
    <2>1. s = <<>> <=> l = 0
      BY EmptySeq
    <2> HIDE DEF r, t, l
    <2>2. CASE l = 0
      <3>1. t[1] = <<n, p + (1 - 0)>>
        BY <1>2, <1>8, <2>2, SMTT(30)
      <3> QED
        BY <2>1, <2>2, <3>1
    <2>3. CASE l > 0
      <3>1. t[1] = s[1]
        BY <1>2, <2>3
      <3> QED
        BY <2>1, <2>3, <3>1
    <2> QED
      BY <1>2, <2>2, <2>3
  <1> QED
    BY <1>2, <1>6, <1>7, <1>8 DEF Ends

\* A header, added where the next message begins.
LEMMA HeaderAppended ==
  ASSUME NEW z \in Seq(Nat), NEW s \in Seq(Places(z)), GapFree(s, z),
         NEW n \in 1 .. Len(z),
         s # <<>> => PlaceAfter(s[Len(s)], z) = <<n, 1>>
  PROVE  /\ s \o Run(n, 0, HeaderSize) \in Seq(Places(z))
         /\ GapFree(s \o Run(n, 0, HeaderSize), z)
         /\ Ends(s \o Run(n, 0, HeaderSize), s, <<n, 1>>, <<n, HeaderSize>>)
  <1> PICK p \in Nat : p = 0
    OBVIOUS
  <1>1. HeaderSize \in Nat /\ HeaderSize > 0 /\ z[n] \in Nat
    BY WireAssumption
  <1>2. /\ p + HeaderSize <= HeaderSize + z[n]
        /\ s # <<>> => PlaceAfter(s[Len(s)], z) = <<n, p + 1>>
        /\ p + HeaderSize = HeaderSize /\ p + 1 = 1
    BY <1>1
  <1> QED
    BY <1>1, <1>2, GapFreeExtended

\* A body, added behind its header.
LEMMA BodyAppended ==
  ASSUME NEW z \in Seq(Nat), NEW s \in Seq(Places(z)), GapFree(s, z),
         NEW n \in 1 .. Len(z), z[n] > 0,
         s # <<>> => PlaceAfter(s[Len(s)], z) = <<n, HeaderSize + 1>>
  PROVE  /\ s \o Run(n, HeaderSize, z[n]) \in Seq(Places(z))
         /\ GapFree(s \o Run(n, HeaderSize, z[n]), z)
         /\ Ends(s \o Run(n, HeaderSize, z[n]), s, <<n, HeaderSize + 1>>,
                 <<n, HeaderSize + z[n]>>)
  <1>1. HeaderSize \in Nat /\ z[n] \in Nat
    BY WireAssumption
  <1>2. HeaderSize + z[n] <= HeaderSize + z[n]
    BY <1>1
  <1> QED
    BY <1>1, <1>2, GapFreeExtended

\* How a byte is followed depends only on the size of its message.
LEMMA GapFreeSameSizes ==
  ASSUME NEW z, NEW y, NEW s, Len(s) \in Nat, GapFree(s, z),
         \A i \in 1 .. Len(s) : y[s[i][1]] = z[s[i][1]]
  PROVE  GapFree(s, y)
  <1>1. ASSUME NEW i \in 1 .. Len(s) - 1
        PROVE  s[i + 1] = PlaceAfter(s[i], y)
    <2>1. s[i + 1] = PlaceAfter(s[i], z) /\ i \in 1 .. Len(s)
      BY DEF GapFree, Adjacent
    <2> QED
      BY <2>1 DEF PlaceAfter
  <1>2. ASSUME NEW i \in 1 .. Len(s), NEW j \in 1 .. Len(s), i <= j,
               s[i][2] + (j - i) <= HeaderSize + y[s[i][1]]
        PROVE  s[j] = <<s[i][1], s[i][2] + (j - i)>>
    BY <1>2 DEF GapFree, Aligned
  <1> QED
    BY <1>1, <1>2, Zenon DEF GapFree, Adjacent, Aligned

\* One more message leaves the places of the others as they are.
LEMMA PlacesGrow ==
  ASSUME NEW z \in Seq(Nat), NEW x \in Nat, NEW s \in Seq(Places(z))
  PROVE  /\ s \in Seq(Places(Append(z, x)))
         /\ \A i \in 1 .. Len(s) :
              PlaceAfter(s[i], Append(z, x)) = PlaceAfter(s[i], z)
         /\ GapFree(s, z) => GapFree(s, Append(z, x))
  <1> DEFINE y == Append(z, x)
  <1>1. /\ y \in Seq(Nat) /\ Len(y) = Len(z) + 1 /\ Len(z) \in Nat
        /\ \A n \in 1 .. Len(z) : y[n] = z[n]
    BY AppendProperties, LenProperties
  <1> HIDE DEF y
  <1>2. Places(z) \subseteq Places(y)
    BY <1>1, PlaceProperties DEF Places
  <1>3. s \in Seq(Places(y))
    BY <1>2, SeqMonotonic
  <1>4. \A i \in 1 .. Len(s) :
          s[i] \in Places(z) /\ s[i][1] \in 1 .. Len(z) /\ y[s[i][1]] = z[s[i][1]]
    BY <1>1, ElementOfSeq, PlaceProperties
  <1>5. \A i \in 1 .. Len(s) : PlaceAfter(s[i], y) = PlaceAfter(s[i], z)
    BY <1>4 DEF PlaceAfter
  <1>6. GapFree(s, z) => GapFree(s, y)
    <2>1. Len(s) \in Nat
      BY LenProperties
    <2> QED
      BY <1>4, <2>1, GapFreeSameSizes
  <1> QED
    BY <1>3, <1>5, <1>6 DEF y

\* Bytes are read from the front: what is read and what is left.
LEMMA Parted ==
  ASSUME NEW S, NEW s \in Seq(S), NEW k \in Nat, k <= Len(s)
  PROVE  /\ SubSeq(s, 1, k) \in Seq(S) /\ Len(SubSeq(s, 1, k)) = k
         /\ \A i \in 1 .. k : SubSeq(s, 1, k)[i] = s[i]
         /\ SubSeq(s, k + 1, Len(s)) \in Seq(S)
         /\ SubSeq(s, 1, k) \o SubSeq(s, k + 1, Len(s)) = s
  <1>1. Len(s) \in Nat /\ \A i \in 1 .. Len(s) : s[i] \in S
    BY LenProperties, ElementOfSeq
  <1>2. /\ SubSeq(s, 1, k) \in Seq(S)
        /\ Len(SubSeq(s, 1, k)) = IF 1 <= k THEN k - 1 + 1 ELSE 0
        /\ \A i \in 1 .. k - 1 + 1 : SubSeq(s, 1, k)[i] = s[1 + i - 1]
    <2>1. 1 \in Int /\ k \in Int /\ \A i \in 1 .. k : s[i] \in S
      BY <1>1
    <2> QED
      BY <2>1, SubSeqProperties
  <1>3. SubSeq(s, k + 1, Len(s)) \in Seq(S)
    <2>1. /\ k + 1 \in Int /\ Len(s) \in Int
          /\ \A i \in k + 1 .. Len(s) : s[i] \in S
      BY <1>1
    <2> QED
      BY <2>1, SubSeqProperties
  <1>4. SubSeq(s, 1, k) \o SubSeq(s, k + 1, Len(s)) = SubSeq(s, 1, Len(s))
    <2>1. /\ 1 \in 1 .. Len(s) + 1 /\ k \in 1 - 1 .. Len(s)
          /\ Len(s) \in k .. Len(s)
      BY <1>1
    <2> QED
      BY <2>1, ConcatAdjacentSubSeq
  <1>5. SubSeq(s, 1, Len(s)) = s
    BY SubSeqFull
  <1>6. /\ Len(SubSeq(s, 1, k)) = k
        /\ \A i \in 1 .. k : SubSeq(s, 1, k)[i] = s[i]
    BY <1>2
  <1> QED
    BY <1>2, <1>3, <1>4, <1>5, <1>6

\* The beginning of a message and what is ahead of it: the bytes of a message
\* whose first byte comes first, as far as the message goes.
LEMMA MessageFirst ==
  ASSUME NEW z \in Seq(Nat), NEW s \in Seq(Places(z)), GapFree(s, z),
         NEW n \in 1 .. Len(z), s[1] = <<n, 1>>,
         NEW m \in Nat, m <= Len(s), m <= HeaderSize + z[n]
  PROVE  \A i \in 1 .. m : s[i] = <<n, i>>
  <1>1. Len(s) \in Nat /\ HeaderSize \in Nat /\ z[n] \in Nat
    BY LenProperties, WireAssumption
  <1>2. Aligned(s, Len(s), z)
    BY DEF GapFree
  <1>3. ASSUME NEW i \in 1 .. m
        PROVE  s[i] = <<n, i>>
    <2>1. 1 \in 1 .. Len(s) /\ i \in 1 .. Len(s) /\ 1 + (i - 1) = i
          /\ 1 <= i /\ 1 + (i - 1) <= HeaderSize + z[n]
      BY <1>1
    <2>2. s[i] = <<s[1][1], s[1][2] + (i - 1)>>
      BY <1>2, <2>1 DEF Aligned
    <2> QED
      BY <2>1, <2>2
  <1> QED
    BY <1>3

\* Where bytes without a gap are parted, the rest begins where the first part
\* leads to.
LEMMA GapFreeRest ==
  ASSUME NEW z \in Seq(Nat), NEW a \in Seq(Places(z)), NEW b \in Seq(Places(z)),
         GapFree(a \o b, z)
  PROVE  /\ GapFree(a, z)
         /\ GapFree(b, z)
         /\ a # <<>> /\ b # <<>> => b[1] = PlaceAfter(a[Len(a)], z)
  <1> DEFINE s == a \o b
  <1>1. /\ Len(a) \in Nat /\ Len(b) \in Nat
        /\ s \in Seq(Places(z)) /\ Len(s) = Len(a) + Len(b)
        /\ \A i \in 1 .. Len(a) + Len(b) :
             s[i] = IF i <= Len(a) THEN a[i] ELSE b[i - Len(a)]
    BY ConcatProperties, LenProperties
  <1>2. GapFree(s, z)
    OBVIOUS
  <1>3. (a = <<>> <=> Len(a) = 0) /\ (b = <<>> <=> Len(b) = 0)
    BY EmptySeq
  <1> HIDE DEF s
  <1>4. GapFree(a, z)
    <2> DEFINE q == SubSeq(s, 1, Len(a))
    <2>1. /\ q \in Seq(Places(z)) /\ GapFree(q, z)
          /\ Len(q) = Len(a) - 1 + 1
          /\ \A i \in 1 .. Len(a) - 1 + 1 : q[i] = s[1 + i - 1]
      BY <1>1, <1>2, GapFreePart
    <2> HIDE DEF q
    <2>2. /\ Len(q) = Len(a)
          /\ \A i \in 1 .. Len(a) : q[i] = a[i]
      BY <1>1, <2>1
    <2>3. q = a
      BY <2>1, <2>2, SeqEqual
    <2> QED
      BY <2>1, <2>3
  <1>5. GapFree(b, z)
    <2> DEFINE r == SubSeq(s, Len(a) + 1, Len(s))
    <2>1. /\ r \in Seq(Places(z)) /\ GapFree(r, z)
          /\ Len(r) = Len(s) - (Len(a) + 1) + 1
          /\ \A i \in 1 .. Len(s) - (Len(a) + 1) + 1 : r[i] = s[(Len(a) + 1) + i - 1]
      BY <1>1, <1>2, GapFreePart
    <2> HIDE DEF r
    <2>2. Len(r) = Len(b)
      BY <1>1, <2>1
    <2>3. ASSUME NEW i \in 1 .. Len(b)
          PROVE  r[i] = b[i]
      <3>1. /\ i \in 1 .. Len(s) - (Len(a) + 1) + 1
            /\ (Len(a) + 1) + i - 1 = Len(a) + i
            /\ Len(a) + i \in 1 .. Len(a) + Len(b)
            /\ ~ (Len(a) + i <= Len(a))
            /\ (Len(a) + i) - Len(a) = i
        BY <1>1
      <3>2. r[i] = s[Len(a) + i]
        BY <2>1, <3>1
      <3> QED
        BY <1>1, <3>1, <3>2
    <2>4. r = b
      BY <2>1, <2>2, <2>3, SeqEqual
    <2> QED
      BY <2>1, <2>4
  <1>6. ASSUME a # <<>>, b # <<>>
        PROVE  b[1] = PlaceAfter(a[Len(a)], z)
    <2>1. /\ Len(a) \in 1 .. Len(s) - 1
          /\ Len(a) \in 1 .. Len(a) + Len(b)
          /\ Len(a) + 1 \in 1 .. Len(a) + Len(b)
          /\ ~ (Len(a) + 1 <= Len(a))
          /\ (Len(a) + 1) - Len(a) = 1
      BY <1>1, <1>3, <1>6
    <2>2. s[Len(a)] = a[Len(a)] /\ s[Len(a) + 1] = b[1]
      BY <1>1, <2>1
    <2> QED
      BY <1>2, <2>1, <2>2 DEF GapFree, Adjacent
  <1> QED
    BY <1>4, <1>5, <1>6
-----------------------------------------------------------------------------
(* Every step keeps the inductive invariant.                               *)

\* What was received of the message at hand.
Before == IF receiver = "body" THEN Header(msg) \o data ELSE <<>>

\* The variables as the lemmas above see them.
LEMMA SequenceTypes ==
  ASSUME TypeOK, RangeInv
  PROVE  /\ sent \in Seq(Nat) /\ Len(sent) \in Nat
         /\ \A n \in 1 .. Len(sent) : sent[n] \in Sizes /\ sent[n] \in Nat
         /\ HeaderSize \in Nat /\ HeaderSize > 0
         /\ Places(sent) \subseteq Byte
         /\ Len(stream) \in Nat /\ Len(data) \in Nat /\ Len(delivered) \in Nat
         /\ size \in Nat
  <1>1. sent \in Seq(Nat)
    BY WireAssumption, SeqMonotonic DEF TypeOK
  <1>2. \A n \in 1 .. Len(sent) : sent[n] \in Sizes /\ sent[n] \in Nat
    BY WireAssumption, ElementOfSeq DEF TypeOK
  <1>3. /\ Len(sent) \in Nat /\ Len(stream) \in Nat /\ Len(data) \in Nat
        /\ Len(delivered) \in Nat
    BY LenProperties DEF TypeOK
  <1>4. /\ HeaderSize \in Nat /\ HeaderSize > 0
        /\ size \in Nat
    BY WireAssumption DEF TypeOK
  <1>5. 1 .. Len(sent) \subseteq Numbers
    BY <1>3, WireAssumption DEF TypeOK, Numbers
  <1>6. Places(sent) \subseteq Byte
    BY <1>5 DEF Places, Byte
  <1> QED
    BY <1>1, <1>2, <1>3, <1>4, <1>6

LEMMA HeaderIsRun ==
  ASSUME NEW n
  PROVE  HeaderSize \in Nat => Header(n) = Run(n, 0, HeaderSize)
  BY DEF Header, Run

LEMMA BodyIsRun ==
  ASSUME NEW n
  PROVE  Body(n) = Run(n, HeaderSize, sent[n])
  BY DEF Body, Run

LEMMA HeaderProperties ==
  ASSUME TypeOK, RangeInv, NEW n \in 1 .. Len(sent)
  PROVE  /\ Header(n) \in Seq(Places(sent)) /\ Len(Header(n)) = HeaderSize
         /\ \A i \in 1 .. HeaderSize : Header(n)[i] = <<n, i>>
  <1>1. /\ sent \in Seq(Nat) /\ HeaderSize \in Nat /\ 0 \in Nat
        /\ 0 + HeaderSize <= HeaderSize + sent[n]
    BY SequenceTypes
  <1>2. /\ Run(n, 0, HeaderSize) \in Seq(Places(sent))
        /\ Len(Run(n, 0, HeaderSize)) = HeaderSize
        /\ \A i \in 1 .. HeaderSize : Run(n, 0, HeaderSize)[i] = <<n, 0 + i>>
    BY <1>1, RunProperties
  <1>3. \A i \in 1 .. HeaderSize : 0 + i = i
    BY <1>1
  <1> QED
    BY <1>1, <1>2, <1>3, HeaderIsRun

LEMMA AheadType ==
  ASSUME TypeOK, RangeInv, BodyInv, OnTrack
  PROVE  /\ Ahead = Before \o stream
         /\ Before \in Seq(Places(sent))
         /\ Ahead \in Seq(Places(sent))
  <1>1. Before \in Seq(Places(sent))
    <2>1. CASE receiver = "body"
      <3>1. msg \in 1 .. Len(sent)
        BY <2>1, WireAssumption, SequenceTypes DEF BodyInv, RangeInv
      <3> QED
        BY <2>1, <3>1, HeaderProperties, ConcatProperties DEF Before, RangeInv
    <2>2. CASE receiver # "body"
      BY <2>2, EmptySeq DEF Before
    <2> QED
      BY <2>1, <2>2
  <1>2. Ahead = Before \o stream
    BY DEF Ahead, Before
  <1> QED
    BY <1>1, <1>2, ConcatProperties DEF RangeInv

\* A step that moves nothing across the receiver.
LEMMA AheadKept ==
  ASSUME IndInv,
         UNCHANGED <<sent, delivered>>,
         OnTrack' => OnTrack /\ Ahead' = Ahead,
         ~ closed' /\ sender' # "ended" => ~ closed /\ sender' = sender
  PROVE  StepInv' /\ EndInv'
  <1>1. StepInv'
    BY DEF IndInv, StepInv
  <1>2. ASSUME OnTrack', ~ closed', sender' # "ended"
        PROVE  Following' = Upcoming'
    BY <1>2 DEF IndInv, EndInv, Following, Upcoming
  <1> QED
    BY <1>1, <1>2 DEF EndInv

\* A message is begun.
LEMMA SendHeaderStep ==
  ASSUME IndInv, NEW s \in Sizes, SendHeader(s)
  PROVE  IndInv'
  <1> DEFINE n == Len(sent) + 1
             r == Run(n, 0, HeaderSize)
  <1>1. TypeOK /\ RangeInv /\ BodyInv
    BY DEF IndInv
  <1>2. /\ sender = "loop" /\ Len(sent) < MaxMessages
        /\ sent' = Append(sent, s)
        /\ sender' = "body"
        /\ UNCHANGED <<closed, receiver, msg, size, data, delivered, torn>>
    BY DEF SendHeader, receiverVars
  <1>3. /\ sent' \in Seq(Sizes) /\ sent' \in Seq(Nat)
        /\ Len(sent') = n /\ n \in 1 .. Len(sent') /\ n \in Nat
        /\ sent'[n] = s /\ s \in Nat
        /\ \A i \in 1 .. Len(sent) : sent'[i] = sent[i]
        /\ sent' # <<>>
    <2>1. sent \in Seq(Sizes) /\ sent \in Seq(Nat) /\ s \in Nat /\ Len(sent) \in Nat
      BY <1>1, SequenceTypes, WireAssumption DEF TypeOK
    <2>2. /\ sent' \in Seq(Sizes)
          /\ sent' # <<>>
          /\ Len(sent') = Len(sent) + 1
          /\ \A i \in 1 .. Len(sent) : sent'[i] = sent[i]
          /\ sent'[Len(sent) + 1] = s
      BY <1>2, <2>1, AppendProperties
    <2>3. sent' \in Seq(Nat)
      BY <1>2, <2>1, AppendProperties
    <2> QED
      BY <2>1, <2>2, <2>3
  <1>4. stream' = IF closed THEN stream ELSE stream \o r
    <2>1. Len(sent') = n /\ HeaderSize \in Nat
      BY <1>1, <1>3, SequenceTypes
    <2>2. [i \in 1 .. HeaderSize |-> <<Len(sent'), i>>] = r
      BY <2>1 DEF Run
    <2> QED
      BY <2>2 DEF SendHeader, Sent
  <1>5. /\ stream \in Seq(Places(sent')) /\ data \in Seq(Places(sent'))
        /\ r \in Seq(Places(sent'))
    <2>1. stream \in Seq(Places(sent')) /\ data \in Seq(Places(sent'))
      BY <1>1, <1>2, <1>3, SequenceTypes, PlacesGrow DEF RangeInv
    <2>2. 0 + HeaderSize <= HeaderSize + sent'[n] /\ HeaderSize \in Nat
      BY <1>1, <1>3, SequenceTypes
    <2> QED
      BY <1>3, <2>1, <2>2, RunProperties
  <1>6. RangeInv'
    <2>1. stream' \in Seq(Places(sent'))
      BY <1>4, <1>5, ConcatProperties
    <2>2. msg' \in (1 .. Len(sent')) \union {Garbage}
      BY <1>1, <1>2, <1>3, SequenceTypes DEF RangeInv
    <2> QED
      BY <1>2, <1>3, <1>5, <2>1, <2>2 DEF RangeInv
  <1>7. TypeOK'
    <2>1. Len(sent') <= MaxMessages
      BY <1>1, <1>2, <1>3, SequenceTypes, WireAssumption
    <2>2. 1 .. Len(sent') \subseteq Numbers
      BY <1>3, <2>1, WireAssumption DEF Numbers
    <2>3. Places(sent') \subseteq Byte
      BY <2>2 DEF Places, Byte
    <2>4. stream' \in Seq(Byte)
      BY <1>6, <2>3, SeqMonotonic DEF RangeInv
    <2> QED
      BY <1>1, <1>2, <1>3, <2>1, <2>4 DEF TypeOK
  <1>8. BodyInv'
    BY <1>1, <1>2, <1>3, WireAssumption, SequenceTypes
       DEF BodyInv, OnTrack, RangeInv
  <1>9. ASSUME OnTrack
        PROVE  /\ GapFree(Ahead, sent') /\ Ahead \in Seq(Places(sent'))
               /\ \A i \in 1 .. Len(Ahead) :
                    PlaceAfter(Ahead[i], sent') = PlaceAfter(Ahead[i], sent)
               /\ Ahead' = IF closed THEN Ahead ELSE Ahead \o r
    <2>1. /\ Ahead = Before \o stream /\ Before \in Seq(Places(sent))
          /\ Ahead \in Seq(Places(sent)) /\ GapFree(Ahead, sent)
      BY <1>1, <1>9, AheadType DEF IndInv, StepInv
    <2>2. /\ GapFree(Ahead, sent') /\ Ahead \in Seq(Places(sent'))
          /\ \A i \in 1 .. Len(Ahead) :
               PlaceAfter(Ahead[i], sent') = PlaceAfter(Ahead[i], sent)
          /\ Before \in Seq(Places(sent'))
      BY <1>1, <1>2, <1>3, <2>1, SequenceTypes, PlacesGrow
    <2>3. Ahead' = Before \o stream'
      BY <1>2 DEF Ahead, Before, Header
    <2>4. Before \o (stream \o r) = (Before \o stream) \o r
      <3> DEFINE P == Places(sent')
      <3>1. Before \in Seq(P) /\ stream \in Seq(P) /\ r \in Seq(P)
        BY <1>5, <2>2
      <3> HIDE DEF P, r
      <3> QED
        BY <3>1, ConcatAssociative
    <2> QED
      BY <1>4, <2>1, <2>2, <2>3, <2>4
  <1>10. ASSUME OnTrack, ~ closed
         PROVE  /\ GapFree(Ahead', sent')
                /\ Ahead' # <<>>
                /\ Ahead'[1] = <<Len(delivered) + 1, 1>>
                /\ Ahead'[Len(Ahead')] = <<n, HeaderSize>>
    <2> DEFINE z == sent'
               t == Ahead'
               l == Len(Ahead)
    <2>1. Following = <<n, 1>>
      BY <1>2, <1>10 DEF IndInv, EndInv, Upcoming
    <2>2. Ahead # <<>> => PlaceAfter(Ahead[l], z) = <<n, 1>>
      <3>1. Ahead # <<>> => l \in 1 .. l
        BY <1>9, <1>10, EmptySeq
      <3>2. Ahead # <<>> => PlaceAfter(Ahead[l], sent) = <<n, 1>>
        BY <2>1 DEF Following
      <3> QED
        BY <1>9, <1>10, <3>1, <3>2
    <2>3. /\ z \in Seq(Nat) /\ Ahead \in Seq(Places(z)) /\ l \in Nat
          /\ GapFree(Ahead, z) /\ t = Ahead \o r
          /\ n \in 1 .. Len(z)
      BY <1>3, <1>9, <1>10, LenProperties
    <2>4. Ahead = <<>> => Len(delivered) + 1 = n
      BY <2>1 DEF Following
    <2>5. Ahead # <<>> => Ahead[1] = <<Len(delivered) + 1, 1>>
      BY <1>10 DEF IndInv, StepInv
    <2> HIDE DEF z, n
    <2>6. /\ t \in Seq(Places(z)) /\ GapFree(t, z)
          /\ Ends(t, Ahead, <<n, 1>>, <<n, HeaderSize>>)
      BY <2>2, <2>3, HeaderAppended
    <2> QED
      BY <2>4, <2>5, <2>6 DEF z, Ends
  <1>11. StepInv'
    <2> SUFFICES ASSUME OnTrack'
                 PROVE  /\ GapFree(Ahead', sent')
                        /\ Ahead' # <<>> => Ahead'[1] = <<Len(delivered') + 1, 1>>
      BY DEF StepInv
    <2>1. OnTrack
      BY <1>2 DEF OnTrack
    <2>2. /\ GapFree(Ahead, sent)
          /\ Ahead # <<>> => Ahead[1] = <<Len(delivered) + 1, 1>>
      BY <2>1 DEF IndInv, StepInv
    <2>3. CASE closed
      BY <1>2, <1>9, <2>1, <2>2, <2>3
    <2>4. CASE ~ closed
      BY <1>2, <1>10, <2>1, <2>4
    <2> QED
      BY <2>3, <2>4
  <1>12. EndInv'
    <2> SUFFICES ASSUME OnTrack', ~ closed'
                 PROVE  Following' = Upcoming'
      BY DEF EndInv
    <2>1. OnTrack /\ ~ closed /\ Ahead' # <<>>
          /\ Ahead'[Len(Ahead')] = <<n, HeaderSize>>
      BY <1>2, <1>10 DEF OnTrack
    <2>2. Following' = PlaceAfter(<<n, HeaderSize>>, sent')
      BY <2>1 DEF Following
    <2>3. Upcoming' = IF s > 0 THEN <<n, HeaderSize + 1>> ELSE <<n + 1, 1>>
      BY <1>2, <1>3 DEF Upcoming
    <2> HIDE DEF n
    <2> QED
      BY <1>1, <1>3, <2>2, <2>3, SequenceTypes DEF PlaceAfter
  <1> QED
    BY <1>6, <1>7, <1>8, <1>11, <1>12 DEF IndInv

\* The body of the message is sent; of an empty one, nothing is.
LEMMA SendBodyStep ==
  ASSUME IndInv, SendBody
  PROVE  IndInv'
  <1> DEFINE n == Len(sent)
             r == Run(n, HeaderSize, sent[n])
  <1>1. TypeOK /\ RangeInv /\ BodyInv
    BY DEF IndInv
  <1>2. /\ sender = "body"
        /\ sender' = IF sent[n] = 0 THEN "ended" ELSE "loop"
        /\ UNCHANGED <<sent, closed, receiver, msg, size, data, delivered, torn>>
        /\ stream' = IF closed THEN stream ELSE stream \o r
    BY BodyIsRun DEF SendBody, Sent, receiverVars
  <1>3. /\ sent \in Seq(Nat) /\ n \in 1 .. n /\ sent[n] \in Nat
        /\ Places(sent) \subseteq Byte
    BY <1>1, <1>2, SequenceTypes, EmptySeq DEF RangeInv
  <1>4. r \in Seq(Places(sent)) /\ Len(r) = sent[n]
    <2>1. PICK p \in Nat, m \in Nat : p = HeaderSize /\ m = sent[n]
      BY <1>1, <1>3, SequenceTypes
    <2>2. /\ p + m <= HeaderSize + sent[n] /\ r = Run(n, p, m)
          /\ sent \in Seq(Nat) /\ n \in 1 .. Len(sent)
      BY <1>3, <2>1
    <2> HIDE DEF n, r
    <2> QED
      BY <2>1, <2>2, RunProperties
  <1>5. RangeInv'
    <2>1. stream' \in Seq(Places(sent))
      BY <1>1, <1>2, <1>4, ConcatProperties DEF RangeInv
    <2> QED
      BY <1>1, <1>2, <2>1 DEF RangeInv
  <1>6. TypeOK'
    <2>1. stream' \in Seq(Byte)
      BY <1>2, <1>3, <1>5, SeqMonotonic DEF RangeInv
    <2> QED
      BY <1>1, <1>2, <2>1 DEF TypeOK
  <1>7. BodyInv'
    BY <1>1, <1>2 DEF BodyInv, OnTrack
  <1>8. ASSUME OnTrack
        PROVE  /\ Ahead \in Seq(Places(sent)) /\ GapFree(Ahead, sent)
               /\ Ahead' = IF closed THEN Ahead ELSE Ahead \o r
    <2> DEFINE P == Places(sent)
    <2>1. /\ Ahead = Before \o stream /\ Before \in Seq(P) /\ stream \in Seq(P)
          /\ Ahead \in Seq(P) /\ GapFree(Ahead, sent) /\ r \in Seq(P)
      BY <1>1, <1>4, <1>8, AheadType DEF IndInv, StepInv, RangeInv
    <2>2. Ahead' = Before \o stream'
      BY <1>2 DEF Ahead, Before, Header
    <2>3. Before \o (stream \o r) = (Before \o stream) \o r
      <3> HIDE DEF P, r
      <3> QED
        BY <2>1, ConcatAssociative
    <2> HIDE DEF r
    <2> QED
      BY <1>2, <2>1, <2>2, <2>3
  <1>9. CASE closed \/ sent[n] = 0
    <2>1. ASSUME OnTrack'
          PROVE  OnTrack /\ Ahead' = Ahead
      <3>1. OnTrack
        BY <1>2, <2>1 DEF OnTrack
      <3>2. sent[n] = 0 => r = <<>>
        BY <1>4, EmptySeq
      <3>3. Ahead \o <<>> = Ahead
        BY <1>8, <3>1, ConcatEmptySeq
      <3> HIDE DEF r
      <3> QED
        BY <1>8, <1>9, <3>1, <3>2, <3>3
    <2>2. StepInv' /\ EndInv'
      BY <1>2, <1>9, <2>1, AheadKept
    <2> QED
      BY <1>5, <1>6, <1>7, <2>2 DEF IndInv
  <1>10. CASE ~ closed /\ sent[n] > 0
    <2>1. ASSUME OnTrack
          PROVE  /\ GapFree(Ahead', sent)
                 /\ Ends(Ahead', Ahead, <<n, HeaderSize + 1>>,
                         <<n, HeaderSize + sent[n]>>)
                 /\ Following = <<n, HeaderSize + 1>>
      <3> DEFINE z == sent
      <3>1. Following = <<n, HeaderSize + 1>>
        BY <1>2, <1>10, <2>1 DEF IndInv, EndInv, Upcoming
      <3>2. Ahead # <<>> => PlaceAfter(Ahead[Len(Ahead)], z) = <<n, HeaderSize + 1>>
        BY <3>1 DEF Following
      <3>3. /\ z \in Seq(Nat) /\ Ahead \in Seq(Places(z)) /\ GapFree(Ahead, z)
            /\ n \in 1 .. Len(z) /\ z[n] > 0
            /\ Ahead' = Ahead \o Run(n, HeaderSize, z[n])
        BY <1>3, <1>8, <1>10, <2>1
      <3> HIDE DEF n
      <3> QED
        BY <3>1, <3>2, <3>3, BodyAppended
    <2>2. StepInv'
      <3> SUFFICES ASSUME OnTrack'
                   PROVE  /\ GapFree(Ahead', sent')
                          /\ Ahead'[1] = <<Len(delivered') + 1, 1>>
        BY DEF StepInv
      <3>1. OnTrack
        BY <1>2 DEF OnTrack
      <3>2. Ahead # <<>>
        <4>1. Ahead = <<>> => 1 = HeaderSize + 1
          BY <2>1, <3>1 DEF Following
        <4> QED
          BY <1>1, <4>1, SequenceTypes
      <3> QED
        BY <1>2, <2>1, <3>1, <3>2 DEF Ends, IndInv, StepInv
    <2>3. EndInv'
      <3> SUFFICES ASSUME OnTrack', ~ closed', sender' # "ended"
                   PROVE  Following' = Upcoming'
        BY DEF EndInv
      <3>1. OnTrack
        BY <1>2 DEF OnTrack
      <3>2. Following' = PlaceAfter(<<n, HeaderSize + sent[n]>>, sent)
        BY <1>2, <2>1, <3>1 DEF Following, Ends
      <3>3. Upcoming' = <<n + 1, 1>>
        BY <1>2 DEF Upcoming
      <3>4. ~ (HeaderSize + sent[n] < HeaderSize + sent[n])
        BY <1>1, <1>3, SequenceTypes
      <3> QED
        BY <3>2, <3>3, <3>4 DEF PlaceAfter
    <2> QED
      BY <1>5, <1>6, <1>7, <2>2, <2>3 DEF IndInv
  <1> QED
    BY <1>3, <1>9, <1>10

\* A header is received: in step with the sender, it is that of the next message.
LEMMA ReceiveHeaderStep ==
  ASSUME IndInv, ReceiveHeader
  PROVE  IndInv'
  <1> DEFINE bytes == SubSeq(stream, 1, HeaderSize)
             n == bytes[1][1]
  <1>1. TypeOK /\ RangeInv /\ BodyInv
    BY DEF IndInv
  <1>2. /\ receiver = "header" /\ receiver' = "body" /\ data' = <<>>
        /\ HeaderSize <= Len(stream)
        /\ stream' = SubSeq(stream, HeaderSize + 1, Len(stream))
        /\ IF bytes = Header(n) THEN msg' = n /\ size' = sent[n]
                               ELSE msg' = Garbage /\ size' \in Sizes
        /\ UNCHANGED <<sent, sender, closed, delivered, torn>>
    BY DEF ReceiveHeader, Recv, senderVars
  <1>3. /\ HeaderSize \in Nat /\ HeaderSize > 0 /\ Len(stream) \in Nat
        /\ sent \in Seq(Nat) /\ Places(sent) \subseteq Byte
        /\ \A i \in 1 .. Len(sent) : sent[i] \in Sizes
    BY <1>1, SequenceTypes
  <1>4. /\ bytes \in Seq(Places(sent)) /\ Len(bytes) = HeaderSize
        /\ \A i \in 1 .. HeaderSize : bytes[i] = stream[i]
        /\ stream' \in Seq(Places(sent))
        /\ bytes \o stream' = stream
    <2> DEFINE P == Places(sent)
    <2>1. stream \in Seq(P)
      BY <1>1 DEF RangeInv
    <2> HIDE DEF P
    <2>2. /\ bytes \in Seq(P) /\ Len(bytes) = HeaderSize
          /\ \A i \in 1 .. HeaderSize : bytes[i] = stream[i]
          /\ SubSeq(stream, HeaderSize + 1, Len(stream)) \in Seq(P)
          /\ bytes \o SubSeq(stream, HeaderSize + 1, Len(stream)) = stream
      BY <1>2, <1>3, <2>1, Parted
    <2> QED
      BY <1>2, <2>2 DEF P
  <1>5. n \in 1 .. Len(sent) /\ n = stream[1][1]
    <2>1. 1 \in 1 .. HeaderSize /\ 1 \in 1 .. Len(bytes)
      BY <1>3, <1>4
    <2>2. bytes[1] = stream[1] /\ bytes[1] \in Places(sent)
      <3> HIDE DEF bytes
      <3> QED
        BY <1>4, <2>1, ElementOfSeq
    <2> QED
      BY <1>3, <2>2, PlaceProperties
  <1> HIDE DEF bytes, n
  <1>6. RangeInv'
    BY <1>1, <1>2, <1>4, <1>5, EmptySeq DEF RangeInv
  <1>7. TypeOK'
    <2>1. stream' \in Seq(Byte)
      BY <1>3, <1>4, SeqMonotonic
    <2>2. msg' \in Numbers \union {Garbage} /\ size' \in Sizes
      <3>1. 1 .. Len(sent) \subseteq Numbers
        BY <1>1, WireAssumption, SequenceTypes DEF TypeOK, Numbers
      <3> QED
        BY <1>2, <1>3, <1>5, <3>1
    <2> QED
      BY <1>1, <1>2, <2>1, <2>2, EmptySeq DEF TypeOK
  <1>8. ASSUME OnTrack
        PROVE  msg' = Len(delivered) + 1 /\ size' = sent[msg'] /\ Ahead' = Ahead
    <2>1. Ahead = stream
      BY <1>1, <1>2, ConcatEmptySeq DEF Ahead, RangeInv
    <2>2. GapFree(stream, sent) /\ stream[1] = <<Len(delivered) + 1, 1>>
      <3>1. stream # <<>>
        BY <1>2, <1>3, EmptySeq
      <3> QED
        BY <1>8, <2>1, <3>1 DEF IndInv, StepInv
    <2>3. n = Len(delivered) + 1 /\ stream[1] = <<n, 1>>
      BY <1>5, <2>2
    <2>4. \A i \in 1 .. HeaderSize : stream[i] = <<n, i>>
      <3>1. /\ stream \in Seq(Places(sent))
            /\ HeaderSize <= HeaderSize + sent[n]
        <4>1. HeaderSize \in Nat /\ sent[n] \in Nat
          BY <1>1, <1>5, SequenceTypes, Zenon
        <4> QED
          BY <1>1, <4>1 DEF RangeInv
      <3> QED
        BY <1>2, <1>3, <1>5, <2>2, <2>3, <3>1, MessageFirst
    <2>5. bytes = Header(n)
      <3>1. /\ Header(n) \in Seq(Places(sent)) /\ Len(Header(n)) = HeaderSize
            /\ \A i \in 1 .. HeaderSize : Header(n)[i] = <<n, i>>
        BY <1>1, <1>5, HeaderProperties
      <3>2. \A i \in 1 .. HeaderSize : bytes[i] = Header(n)[i]
        BY <1>4, <2>4, <3>1
      <3> QED
        BY <1>4, <3>1, <3>2, SeqEqual
    <2>6. Ahead' = (Header(n) \o <<>>) \o stream'
      BY <1>2, <2>5 DEF Ahead, Header
    <2>7. Header(n) \o <<>> = Header(n)
      BY <1>4, <2>5, ConcatEmptySeq
    <2> QED
      BY <1>2, <1>4, <2>1, <2>3, <2>5, <2>6, <2>7
  <1>9. BodyInv'
    <2>1. Len(data') = 0 /\ size' \in Nat
      BY <1>2, <1>7, WireAssumption, EmptySeq DEF TypeOK
    <2>2. Len(data') < size' \/ (data' = <<>> /\ size' = 0)
      BY <1>2, <2>1
    <2> QED
      BY <1>2, <1>8, <2>2 DEF BodyInv, OnTrack
  <1>10. StepInv' /\ EndInv'
    BY <1>2, <1>8, AheadKept DEF OnTrack
  <1> QED
    BY <1>6, <1>7, <1>9, <1>10 DEF IndInv

\* What was received of a body, what is received now and what is left.
LEMMA Associative ==
  ASSUME NEW S, NEW a \in Seq(S), NEW q \in Seq(S), NEW r \in Seq(S)
  PROVE  a \o (q \o r) = (a \o q) \o r
  BY ConcatAssociative

LEMMA Regrouped ==
  ASSUME NEW S, NEW h \in Seq(S), NEW d \in Seq(S), NEW q \in Seq(S),
         NEW r \in Seq(S)
  PROVE  (h \o d) \o (q \o r) = (h \o (d \o q)) \o r
  <1> DEFINE a == h \o d
  <1>1. a \in Seq(S)
    BY ConcatProperties
  <1>2. a \o q = h \o (d \o q)
    <2>1. h \o (d \o q) = (h \o d) \o q
      BY Associative, SMTT(60)
    <2> QED
      BY <2>1
  <1> HIDE DEF a
  <1>3. a \o (q \o r) = (a \o q) \o r
    BY <1>1, Associative
  <1>4. a \o (q \o r) = (h \o (d \o q)) \o r
    BY <1>2, <1>3, Zenon
  <1> QED
    BY <1>4, Zenon DEF a

\* The first m of bytes b are a run.
IsRun(b, n, p, m) == \A i \in 1 .. m : b[i] = <<n, p + i>>

LEMMA RunFromBytes ==
  ASSUME NEW z \in Seq(Nat), NEW n \in 1 .. Len(z), NEW p \in Nat, NEW m \in Nat,
         p + m <= HeaderSize + z[n],
         NEW b \in Seq(Places(z)), Len(b) = m, IsRun(b, n, p, m)
  PROVE  b = Run(n, p, m)
  <1>1. /\ Run(n, p, m) \in Seq(Places(z)) /\ Len(Run(n, p, m)) = m
        /\ \A i \in 1 .. m : Run(n, p, m)[i] = <<n, p + i>>
    BY RunProperties
  <1> DEFINE P == Places(z)
             r == Run(n, p, m)
  <1>2. b \in Seq(P) /\ r \in Seq(P) /\ Len(b) = Len(r)
    BY <1>1
  <1>3. \A i \in 1 .. Len(b) : b[i] = r[i]
    BY <1>1 DEF IsRun
  <1> HIDE DEF P, r
  <1>4. b = r
    BY <1>2, <1>3, SeqEqual
  <1> QED
    BY <1>4 DEF r

\* The last of two sequences of which the second is not empty.
LEMMA LastOfConcat ==
  ASSUME NEW S, NEW a \in Seq(S), NEW r \in Seq(S), r # <<>>
  PROVE  a \o r # <<>> /\ (a \o r)[Len(a \o r)] = r[Len(r)]
  <1> DEFINE s == a \o r
  <1>1. /\ Len(a) \in Nat /\ Len(r) \in Nat /\ Len(r) # 0
        /\ Len(s) = Len(a) + Len(r)
        /\ \A i \in 1 .. Len(a) + Len(r) :
             s[i] = IF i <= Len(a) THEN a[i] ELSE r[i - Len(a)]
    BY ConcatProperties, LenProperties, EmptySeq
  <1> HIDE DEF s
  <1>2. /\ Len(a) + Len(r) \in 1 .. Len(a) + Len(r)
        /\ ~ (Len(a) + Len(r) <= Len(a))
        /\ (Len(a) + Len(r)) - Len(a) = Len(r)
        /\ Len(s) # 0
    BY <1>1
  <1>3. s[Len(s)] = r[Len(r)]
    BY <1>1, <1>2
  <1>4. s # <<>>
    BY <1>2, EmptySeq
  <1> QED
    BY <1>3, <1>4 DEF s

\* Bytes a are h and then b.
Whole(a, h, b, m) ==
  \A i \in 1 .. m : a[i] = IF i <= HeaderSize THEN h[i] ELSE b[i - HeaderSize]

\* The places of c bytes behind the p of a header.
LEMMA BehindHeader ==
  ASSUME NEW c \in Nat, NEW p \in Nat, NEW i \in 1 .. c
  PROVE  p + i \in 1 .. p + c /\ ~ (p + i <= p) /\ (p + i) - p = i
  OBVIOUS

\* A header h and as many bytes b as its message has are all of the message.
LEMMA MessageWhole ==
  ASSUME NEW z \in Seq(Nat), NEW n \in 1 .. Len(z), NEW b \in Seq(Places(z)),
         NEW a \in Seq(Places(z)), NEW h, h[1] = <<n, 1>>, Len(b) = z[n],
         Len(a) = HeaderSize + z[n], GapFree(a, z),
         Whole(a, h, b, HeaderSize + z[n])
  PROVE  /\ b = Run(n, HeaderSize, z[n])
         /\ a # <<>>
         /\ PlaceAfter(a[Len(a)], z) = <<n + 1, 1>>
  <1> PICK c \in Nat, p \in Nat, m \in Nat :
        c = z[n] /\ p = HeaderSize /\ m = HeaderSize + z[n]
    <2>1. HeaderSize \in Nat /\ z[n] \in Nat /\ HeaderSize + z[n] \in Nat
      BY WireAssumption
    <2> QED
      BY <2>1, Zenon
  <1>1. /\ p > 0 /\ m = p + c
        /\ m \in 1 .. m /\ 1 \in 1 .. m /\ n \in Nat /\ z[n] \in Nat
    <2>1. p > 0
      BY WireAssumption
    <2>2. m = p + c
      BY Zenon
    <2>3. n \in Nat /\ z[n] \in Nat
      OBVIOUS
    <2>4. m \in 1 .. m /\ 1 \in 1 .. m
      <3>1. m >= 1
        BY <2>1, <2>2
      <3> QED
        BY <3>1
    <2> QED
      BY <2>1, <2>2, <2>3, <2>4, Zenon
  <1>2. a[1] = <<n, 1>>
    BY <1>1, SMTT(30) DEF Whole
  <1>3. \A i \in 1 .. m : a[i] = <<n, i>>
    <2>1. m <= Len(a) /\ m <= HeaderSize + z[n]
      BY <1>1
    <2> QED
      BY <1>2, <2>1, MessageFirst
  <1>4. b = Run(n, HeaderSize, z[n])
    <2>1. p + c <= HeaderSize + z[n] /\ Len(b) = c
      BY <1>1
    <2>2. ASSUME NEW i \in 1 .. c
          PROVE  b[i] = <<n, p + i>>
      <3>1. /\ p + i \in 1 .. m /\ ~ (p + i <= HeaderSize)
            /\ (p + i) - HeaderSize = i
        BY <1>1, BehindHeader
      <3>2. a[p + i] = b[i]
        BY <3>1 DEF Whole
      <3> QED
        BY <1>3, <3>1, <3>2
    <2>3. IsRun(b, n, p, c)
      BY <2>2, Zenon DEF IsRun
    <2>4. b = Run(n, p, c)
      BY <2>1, <2>3, RunFromBytes
    <2> QED
      BY <2>4
  <1>5. a # <<>>
    <2>1. Len(a) # 0
      BY <1>1
    <2> QED
      BY <2>1, EmptySeq
  <1>6. PlaceAfter(a[Len(a)], z) = <<n + 1, 1>>
    <2>1. a[m] = <<n, m>> /\ Len(a) = m
      BY <1>1, <1>3
    <2>2. ~ (m < HeaderSize + z[n])
      BY <1>1
    <2>3. PlaceAfter(<<n, m>>, z) = <<n + 1, 1>>
      BY <2>2 DEF PlaceAfter
    <2> QED
      BY <2>1, <2>3, Zenon
  <1> QED
    BY <1>4, <1>5, <1>6

LEMMA FirstOfConcat ==
  ASSUME NEW S, NEW a \in Seq(S), NEW r \in Seq(S), a # <<>>
  PROVE  a \o r # <<>> /\ (a \o r)[1] = a[1]
  <1> DEFINE s == a \o r
  <1>1. /\ Len(a) \in Nat /\ Len(r) \in Nat /\ Len(a) # 0
        /\ Len(s) = Len(a) + Len(r)
        /\ \A i \in 1 .. Len(a) + Len(r) :
             s[i] = IF i <= Len(a) THEN a[i] ELSE r[i - Len(a)]
    BY ConcatProperties, LenProperties, EmptySeq
  <1> HIDE DEF s
  <1>2. 1 \in 1 .. Len(a) + Len(r) /\ 1 <= Len(a) /\ Len(s) # 0
    BY <1>1
  <1>3. s[1] = a[1]
    BY <1>1, <1>2
  <1>4. s # <<>>
    BY <1>2, EmptySeq
  <1> QED
    BY <1>3, <1>4 DEF s

\* Followed by r without a gap, they are the body, and r begins with the next
\* message.
LEMMA MessageComplete ==
  ASSUME NEW z \in Seq(Nat), NEW n \in 1 .. Len(z), NEW h \in Seq(Places(z)),
         NEW b \in Seq(Places(z)), NEW r \in Seq(Places(z)),
         Len(h) = HeaderSize, h[1] = <<n, 1>>, Len(b) = z[n],
         GapFree((h \o b) \o r, z)
  PROVE  /\ b = Run(n, HeaderSize, z[n])
         /\ GapFree(r, z)
         /\ r # <<>> => r[1] = <<n + 1, 1>>
         /\ (h \o b) \o r # <<>>
         /\ PlaceAfter(((h \o b) \o r)[Len((h \o b) \o r)], z)
              = IF r = <<>> THEN <<n + 1, 1>> ELSE PlaceAfter(r[Len(r)], z)
  <1> DEFINE P == Places(z)
             a == h \o b
             s == a \o r
  <1>1. a \in Seq(P) /\ Len(a) = HeaderSize + z[n] /\ Whole(a, h, b, HeaderSize + z[n])
    <2>1. h \in Seq(P) /\ b \in Seq(P)
      OBVIOUS
    <2> HIDE DEF P
    <2>2. /\ a \in Seq(P) /\ Len(a) = Len(h) + Len(b)
          /\ \A i \in 1 .. Len(h) + Len(b) :
               a[i] = IF i <= Len(h) THEN h[i] ELSE b[i - Len(h)]
      BY <2>1, ConcatProperties
    <2> HIDE DEF a
    <2> QED
      BY <2>2 DEF Whole
  <1> HIDE DEF a
  <1>2. /\ GapFree(a, z) /\ GapFree(r, z)
        /\ a # <<>> /\ r # <<>> => r[1] = PlaceAfter(a[Len(a)], z)
    BY <1>1, GapFreeRest DEF a
  <1> HIDE DEF s
  <1>3. /\ b = Run(n, HeaderSize, z[n])
        /\ a # <<>> /\ PlaceAfter(a[Len(a)], z) = <<n + 1, 1>>
    BY <1>1, <1>2, MessageWhole
  <1> USE DEF s
  <1>4. /\ s # <<>>
        /\ PlaceAfter(s[Len(s)], z)
             = IF r = <<>> THEN <<n + 1, 1>> ELSE PlaceAfter(r[Len(r)], z)
    <2>1. CASE r = <<>>
      <3>1. s = a
        BY <1>1, <2>1, ConcatEmptySeq
      <3> QED
        BY <1>3, <2>1, <3>1
    <2>2. CASE r # <<>>
      <3>1. a \in Seq(P) /\ r \in Seq(P)
        BY <1>1
      <3> HIDE DEF P
      <3>2. s # <<>> /\ s[Len(s)] = r[Len(r)]
        BY <2>2, <3>1, LastOfConcat
      <3> QED
        BY <2>2, <3>2
    <2> QED
      BY <2>1, <2>2
  <1> QED
    BY <1>2, <1>3, <1>4 DEF a

\* In step with the sender, the body that is complete is that of the message.
LEMMA BodyComplete ==
  ASSUME IndInv, OnTrack, receiver = "body",
         NEW part \in Seq(Places(sent)), NEW rest \in Seq(Places(sent)),
         stream = part \o rest, Len(data) + Len(part) = size
  PROVE  /\ msg = Len(delivered) + 1 /\ msg \in 1 .. Len(sent)
         /\ data \o part = Body(msg)
         /\ GapFree(rest, sent)
         /\ rest # <<>> => rest[1] = <<msg + 1, 1>>
         /\ Following = IF rest = <<>> THEN <<msg + 1, 1>>
                                       ELSE PlaceAfter(rest[Len(rest)], sent)
  <1> DEFINE P == Places(sent)
             h == Header(msg)
             b == data \o part
  <1>1. TypeOK /\ RangeInv /\ BodyInv /\ StepInv
    BY DEF IndInv
  <1>2. /\ HeaderSize \in Nat /\ HeaderSize > 0 /\ sent \in Seq(Nat)
        /\ Len(delivered) \in Nat
    BY <1>1, SequenceTypes
  <1>3. /\ msg = Len(delivered) + 1 /\ size = sent[msg]
        /\ msg \in 1 .. Len(sent)
    BY <1>1, <1>2, WireAssumption DEF BodyInv, RangeInv
  <1>4. data \in Seq(P) /\ part \in Seq(P) /\ rest \in Seq(P)
    BY <1>1 DEF RangeInv
  <1>5. h \in Seq(P) /\ Len(h) = HeaderSize /\ h[1] = <<msg, 1>>
    <2>1. 1 \in 1 .. HeaderSize
      BY <1>2
    <2> QED
      BY <1>1, <1>3, <2>1, HeaderProperties
  <1>6. Ahead = (h \o data) \o (part \o rest)
    BY DEF Ahead
  <1> HIDE DEF P, h
  <1>7. b \in Seq(P) /\ Len(b) = sent[msg]
    BY <1>3, <1>4, ConcatProperties
  <1>8. Ahead = (h \o b) \o rest
    <2>1. (h \o data) \o (part \o rest) = (h \o (data \o part)) \o rest
      <3>1. h \in Seq(P)
        BY <1>5
      <3> QED
        BY <1>4, <3>1, Regrouped, SMTT(60)
    <2> QED
      BY <1>6, <2>1, Zenon
  <1> HIDE DEF b
  <1>9. /\ b = Run(msg, HeaderSize, sent[msg])
        /\ GapFree(rest, sent)
        /\ rest # <<>> => rest[1] = <<msg + 1, 1>>
        /\ (h \o b) \o rest # <<>>
        /\ PlaceAfter(((h \o b) \o rest)[Len((h \o b) \o rest)], sent)
             = IF rest = <<>> THEN <<msg + 1, 1>>
                              ELSE PlaceAfter(rest[Len(rest)], sent)
    <2> DEFINE z == sent
               n == msg
    <2>1. GapFree((h \o b) \o rest, z)
      BY <1>1, <1>8 DEF StepInv
    <2>2. /\ z \in Seq(Nat) /\ n \in 1 .. Len(z)
          /\ h \in Seq(Places(z)) /\ b \in Seq(Places(z)) /\ rest \in Seq(Places(z))
          /\ Len(h) = HeaderSize /\ h[1] = <<n, 1>> /\ Len(b) = z[n]
      BY <1>2, <1>3, <1>5, <1>7 DEF P
    <2> HIDE DEF z, n
    <2>3. /\ b = Run(n, HeaderSize, z[n])
          /\ GapFree(rest, z)
          /\ rest # <<>> => rest[1] = <<n + 1, 1>>
          /\ (h \o b) \o rest # <<>>
          /\ PlaceAfter(((h \o b) \o rest)[Len((h \o b) \o rest)], z)
               = IF rest = <<>> THEN <<n + 1, 1>>
                                ELSE PlaceAfter(rest[Len(rest)], z)
      BY <2>1, <2>2, MessageComplete
    <2> QED
      BY <2>3 DEF z, n
  <1>10. Following = PlaceAfter(Ahead[Len(Ahead)], sent)
    BY <1>8, <1>9 DEF Following
  <1> QED
    BY <1>3, <1>8, <1>9, <1>10, BodyIsRun DEF b

\* What one recv of a body takes from the stream.
LEMMA BodyReceived ==
  ASSUME IndInv, NEW k \in 1 .. Len(stream), ReceiveBody(k)
  PROVE  LET part == SubSeq(stream, 1, k)
         IN  /\ part \in Seq(Places(sent)) /\ Len(part) = k
             /\ stream' \in Seq(Places(sent)) /\ stream = part \o stream'
             /\ data' = data \o part /\ data' \in Seq(Places(sent))
             /\ Len(data') = Len(data) + k /\ Len(data') \in Nat
             /\ Len(data') <= size /\ 0 < size
  <1> DEFINE part == SubSeq(stream, 1, k)
             P == Places(sent)
  <1>1. TypeOK /\ RangeInv
    BY DEF IndInv
  <1>2. /\ Len(stream) \in Nat /\ Len(data) \in Nat /\ size \in Nat
        /\ k \in Nat /\ 1 <= k /\ k <= Len(stream) /\ k <= size - Len(data)
        /\ data' = data \o part
        /\ stream' = SubSeq(stream, k + 1, Len(stream))
    BY <1>1, SequenceTypes DEF ReceiveBody, Recv
  <1>3. stream \in Seq(P) /\ data \in Seq(P)
    BY <1>1 DEF RangeInv
  <1> HIDE DEF P
  <1>4. /\ part \in Seq(P) /\ Len(part) = k
        /\ stream' \in Seq(P) /\ stream = part \o stream'
    BY <1>2, <1>3, Parted
  <1> HIDE DEF part
  <1>5. data' \in Seq(P) /\ Len(data') = Len(data) + k
    <2>1. data \o part \in Seq(P) /\ Len(data \o part) = Len(data) + Len(part)
      BY <1>3, <1>4, ConcatProperties
    <2> QED
      BY <1>2, <1>4, <2>1
  <1>6. Len(data') \in Nat /\ Len(data') <= size /\ 0 < size
    BY <1>2, <1>5
  <1> QED
    BY <1>2, <1>4, <1>5, <1>6 DEF part, P

\* A body that is in step with the sender and complete is handed on as what it is.
LEMMA BodyHandedOn ==
  ASSUME IndInv, NEW k \in 1 .. Len(stream), ReceiveBody(k), OnTrack,
         Len(data') >= size
  PROVE  /\ msg = Len(delivered) + 1 /\ msg \in 1 .. Len(sent)
         /\ delivered' = Append(delivered, msg)
         /\ GapFree(stream', sent)
         /\ stream' # <<>> => stream'[1] = <<msg + 1, 1>>
         /\ Following = IF stream' = <<>> THEN <<msg + 1, 1>>
                        ELSE PlaceAfter(stream'[Len(stream')], sent)
  <1> DEFINE part == SubSeq(stream, 1, k)
             rest == stream'
  <1>1. /\ part \in Seq(Places(sent)) /\ Len(part) = k
        /\ rest \in Seq(Places(sent)) /\ stream = part \o rest
        /\ data' = data \o part
        /\ Len(data') = Len(data) + k /\ Len(data') \in Nat /\ Len(data') <= size
    BY BodyReceived
  <1>2. /\ size \in Nat /\ Len(sent) \in Nat /\ Len(data) \in Nat
        /\ Len(stream) \in Nat /\ receiver = "body"
    BY SequenceTypes DEF IndInv, ReceiveBody
  <1> HIDE DEF part, rest
  <1>3. Len(data) + Len(part) = size
    <2>1. /\ Len(part) = k /\ Len(data') = Len(data) + k
          /\ Len(data') \in Nat /\ Len(data') <= size
      BY <1>1
    <2> QED
      BY <1>2, <2>1
  <1>4. /\ msg = Len(delivered) + 1 /\ msg \in 1 .. Len(sent)
        /\ data \o part = Body(msg)
        /\ GapFree(rest, sent)
        /\ rest # <<>> => rest[1] = <<msg + 1, 1>>
        /\ Following = IF rest = <<>> THEN <<msg + 1, 1>>
                       ELSE PlaceAfter(rest[Len(rest)], sent)
    BY <1>1, <1>2, <1>3, BodyComplete
  <1>5. msg # Garbage
    BY <1>2, <1>4, WireAssumption
  <1>6. delivered' = Append(delivered, msg)
    BY <1>1, <1>4, <1>5 DEF ReceiveBody, HandOn
  <1> QED
    BY <1>4, <1>6 DEF rest

\* Part of a body is received, or the last part of it, which is handed on.
LEMMA ReceiveBodyStep ==
  ASSUME IndInv, NEW k \in 1 .. Len(stream), ReceiveBody(k)
  PROVE  IndInv'
  <1> DEFINE part == SubSeq(stream, 1, k)
  <1>1. TypeOK /\ RangeInv /\ BodyInv
    BY DEF IndInv
  <1>2. /\ receiver = "body"
        /\ IF Len(data') >= size
           THEN /\ receiver' = "header"
                /\ delivered' = Append(delivered, IF msg # Garbage /\ data' = Body(msg)
                                                  THEN msg ELSE Garbage)
           ELSE UNCHANGED <<receiver, delivered>>
        /\ UNCHANGED <<sent, sender, closed, msg, size, torn>>
    BY DEF ReceiveBody, HandOn, senderVars
  <1>3. /\ part \in Seq(Places(sent))
        /\ stream' \in Seq(Places(sent)) /\ stream = part \o stream'
        /\ data' = data \o part /\ data' \in Seq(Places(sent))
        /\ Len(data') \in Nat /\ Len(data') <= size
    BY BodyReceived
  <1>4. /\ Places(sent) \subseteq Byte /\ size \in Nat /\ Len(delivered) \in Nat
    BY <1>1, SequenceTypes
  <1> HIDE DEF part
  <1>5. RangeInv'
    BY <1>1, <1>2, <1>3 DEF RangeInv
  <1>6. TypeOK'
    <2>1. stream' \in Seq(Byte) /\ data' \in Seq(Byte)
      BY <1>3, <1>4, SeqMonotonic
    <2>2. receiver' \in {"header", "body", "ended"}
      BY <1>2
    <2>3. delivered' \in Seq(Numbers \union {Garbage})
      <3> DEFINE D == Numbers \union {Garbage}
                 d == IF msg # Garbage /\ data' = Body(msg) THEN msg ELSE Garbage
      <3>1. d \in D /\ delivered \in Seq(D)
        BY <1>1 DEF TypeOK
      <3>2. delivered' = delivered \/ delivered' = Append(delivered, d)
        BY <1>2
      <3> HIDE DEF d, D
      <3>3. delivered' \in Seq(D)
        BY <3>1, <3>2, AppendProperties
      <3> QED
        BY <3>3 DEF D
    <2> QED
      BY <1>1, <1>2, <2>1, <2>2, <2>3 DEF TypeOK
  <1>7. BodyInv'
    <2> SUFFICES ASSUME receiver' = "body"
                 PROVE  /\ Len(data') < size'
                        /\ OnTrack' => msg' = Len(delivered') + 1 /\ size' = sent'[msg']
      BY DEF BodyInv
    <2>1. ~ (Len(data') >= size) /\ delivered' = delivered
      BY <1>2
    <2>2. Len(data') < size
      BY <1>3, <1>4, <2>1
    <2> QED
      BY <1>1, <1>2, <2>1, <2>2 DEF BodyInv, OnTrack
  <1>8. CASE ~ (Len(data') >= size)
    <2>1. ASSUME OnTrack'
          PROVE  OnTrack /\ Ahead' = Ahead
      <3> DEFINE h == Header(msg)
                 P == Places(sent)
      <3>1. OnTrack
        BY <1>2, <2>1 DEF OnTrack
      <3>2. h \in Seq(P)
        <4>1. msg \in 1 .. Len(sent)
          BY <1>1, <1>2, <1>4, <3>1, WireAssumption DEF BodyInv, RangeInv
        <4> QED
          BY <1>1, <4>1, HeaderProperties
      <3>3. Ahead = (h \o data) \o stream
        BY <1>2 DEF Ahead
      <3>4. Ahead' = (h \o data') \o stream'
        BY <1>2, <1>8 DEF Ahead, Header
      <3>5. (h \o data) \o (part \o stream') = (h \o (data \o part)) \o stream'
        <4>1. data \in Seq(P) /\ part \in Seq(P) /\ stream' \in Seq(P)
          BY <1>1, <1>3 DEF RangeInv
        <4> DEFINE r == stream'
        <4> HIDE DEF h, P, r
        <4>2. (h \o data) \o (part \o r) = (h \o (data \o part)) \o r
          BY <3>2, <4>1, Regrouped, SMTT(60) DEF r
        <4> QED
          BY <4>2 DEF r
      <3> HIDE DEF h, P
      <3> QED
        BY <1>3, <3>1, <3>3, <3>4, <3>5
    <2>2. StepInv' /\ EndInv'
      BY <1>2, <1>8, <2>1, AheadKept
    <2> QED
      BY <1>5, <1>6, <1>7, <2>2 DEF IndInv
  <1>9. CASE Len(data') >= size
    <2>1. receiver' = "header" /\ Ahead' = stream'
      <3>1. receiver' = "header" /\ Ahead' = <<>> \o stream'
        BY <1>2, <1>9 DEF Ahead
      <3> QED
        BY <1>3, <3>1, ConcatEmptySeq
    <2>2. ASSUME OnTrack'
          PROVE  /\ OnTrack
                 /\ GapFree(Ahead', sent)
                 /\ Ahead' # <<>> => Ahead'[1] = <<Len(delivered') + 1, 1>>
                 /\ Following' = Following
      <3>1. OnTrack
        BY <1>2, <2>2 DEF OnTrack
      <3>2. /\ msg = Len(delivered) + 1
            /\ delivered' = Append(delivered, msg)
            /\ GapFree(stream', sent)
            /\ stream' # <<>> => stream'[1] = <<msg + 1, 1>>
            /\ Following = IF stream' = <<>> THEN <<msg + 1, 1>>
                           ELSE PlaceAfter(stream'[Len(stream')], sent)
        BY <1>9, <3>1, BodyHandedOn
      <3>3. Len(delivered') = msg
        BY <1>1, <3>2, AppendProperties DEF TypeOK
      <3> QED
        BY <1>2, <2>1, <3>1, <3>2, <3>3 DEF Following
    <2>3. StepInv'
      BY <1>2, <2>2 DEF StepInv
    <2>4. EndInv'
      <3>1. Upcoming' = Upcoming
        BY <1>2 DEF Upcoming
      <3> QED
        BY <1>2, <2>2, <3>1 DEF EndInv, IndInv
    <2> QED
      BY <1>5, <1>6, <1>7, <2>3, <2>4 DEF IndInv
  <1> QED
    BY <1>8, <1>9

\* The bytes under way are lost from the end of the stream.
LEMMA LoseStep ==
  ASSUME IndInv, NEW k \in 0 .. Len(stream), Lose(k)
  PROVE  IndInv'
  <1> DEFINE P == Places(sent)
             part == SubSeq(stream, 1, k)
             rest == SubSeq(stream, k + 1, Len(stream))
  <1>1. TypeOK /\ RangeInv /\ BodyInv
    BY DEF IndInv
  <1>2. /\ closed /\ stream' = part
        /\ UNCHANGED <<sent, sender, closed, receiver, msg, size, data,
                       delivered, torn>>
    BY DEF Lose, senderVars, receiverVars
  <1>3. /\ Places(sent) \subseteq Byte /\ Len(stream) \in Nat
        /\ k \in Nat /\ k <= Len(stream) /\ sent \in Seq(Nat)
    BY <1>1, SequenceTypes
  <1>4. part \in Seq(P) /\ rest \in Seq(P) /\ part \o rest = stream
    <2>1. stream \in Seq(P)
      BY <1>1 DEF RangeInv
    <2> HIDE DEF P
    <2> QED
      BY <1>3, <2>1, Parted
  <1> HIDE DEF part, rest
  <1>5. RangeInv'
    BY <1>1, <1>2, <1>4 DEF RangeInv
  <1>6. TypeOK'
    <2>1. stream' \in Seq(Byte)
      BY <1>2, <1>3, <1>4, SeqMonotonic
    <2> QED
      BY <1>1, <1>2, <2>1 DEF TypeOK
  <1>7. BodyInv'
    BY <1>1, <1>2 DEF BodyInv, OnTrack
  <1>8. StepInv'
    <2> SUFFICES ASSUME OnTrack'
                 PROVE  /\ GapFree(Ahead', sent')
                        /\ Ahead' # <<>> => Ahead'[1] = <<Len(delivered') + 1, 1>>
      BY DEF StepInv
    <2>1. OnTrack
      BY <1>2 DEF OnTrack
    <2>2. /\ Ahead = Before \o stream /\ Before \in Seq(P)
          /\ GapFree(Ahead, sent)
          /\ Ahead # <<>> => Ahead[1] = <<Len(delivered) + 1, 1>>
      BY <1>1, <2>1, AheadType DEF IndInv, StepInv
    <2> DEFINE a == Before \o part
    <2>3. Ahead' = a
      BY <1>2 DEF Ahead, Before, Header
    <2>4. a \in Seq(P)
      BY <1>4, <2>2, ConcatProperties
    <2>5. Ahead = a \o rest
      <3>1. Before \o (part \o rest) = (Before \o part) \o rest
        <4> DEFINE b == Before
        <4>1. b \in Seq(P)
          BY <2>2
        <4> HIDE DEF P, b
        <4>2. part \in Seq(P) /\ rest \in Seq(P)
          BY <1>4
        <4>3. b \o (part \o rest) = (b \o part) \o rest
          BY <4>1, <4>2, Associative, SMTT(30)
        <4> QED
          BY <4>3 DEF b
      <3> QED
        BY <1>4, <2>2, <3>1
    <2> HIDE DEF a
    <2>6. GapFree(a, sent)
      <3>1. GapFree(a \o rest, sent)
        BY <2>2, <2>5
      <3> QED
        BY <1>3, <1>4, <2>4, <3>1, GapFreeRest
    <2>7. ASSUME a # <<>>
          PROVE  a[1] = <<Len(delivered) + 1, 1>>
      <3>1. a[1] = Ahead[1] /\ Ahead # <<>>
        BY <1>4, <2>4, <2>5, <2>7, FirstOfConcat
      <3> QED
        BY <2>2, <3>1
    <2> QED
      BY <1>2, <2>3, <2>6, <2>7
  <1>9. EndInv'
    BY <1>2 DEF EndInv
  <1> QED
    BY <1>5, <1>6, <1>7, <1>8, <1>9 DEF IndInv

\* A step that receives nothing and sends nothing.
LEMMA QuietStep ==
  ASSUME IndInv,
         SendFails \/ BodyFails \/ ReceiveClosed \/ Close
           \/ (\E k \in 1 .. Len(stream) : ReceivePart(k)) \/ UNCHANGED vars
  PROVE  IndInv'
  <1>1. TypeOK /\ RangeInv /\ BodyInv
    BY DEF IndInv
  <1>2. /\ UNCHANGED <<sent, msg, size, data, delivered>>
        /\ stream' \in Seq(Places(sent))
        /\ sender' \in {sender, "ended"}
        /\ receiver' \in {"header", "body", "ended"}
        /\ closed' \in BOOLEAN /\ torn' \in BOOLEAN
        /\ OnTrack' => UNCHANGED <<stream, receiver, torn>>
        /\ receiver' = "body" => receiver = "body"
        /\ ~ closed' => ~ closed
    <2>1. stream \in Seq(Places(sent)) /\ TypeOK
      BY <1>1 DEF RangeInv
    <2>2. CASE SendFails
      BY <2>1, <2>2 DEF SendFails, receiverVars, TypeOK
    <2>3. CASE BodyFails
      BY <2>1, <2>3 DEF BodyFails, senderVars, TypeOK, OnTrack
    <2>4. CASE ReceiveClosed
      BY <2>1, <2>4 DEF ReceiveClosed, senderVars, TypeOK, OnTrack
    <2>5. CASE Close
      BY <2>1, <2>5 DEF Close, senderVars, receiverVars, TypeOK
    <2>6. CASE \E k \in 1 .. Len(stream) : ReceivePart(k)
      <3> PICK k \in 1 .. Len(stream) : ReceivePart(k)
        BY <2>6
      <3>1. /\ stream' = SubSeq(stream, k + 1, Len(stream))
            /\ torn' = TRUE /\ receiver = "header"
            /\ UNCHANGED <<sent, sender, closed, receiver, msg, size, data, delivered>>
        BY DEF ReceivePart, Recv, senderVars
      <3>2. stream' \in Seq(Places(sent))
        <4> DEFINE P == Places(sent)
        <4>1. stream \in Seq(P)
          BY <2>1
        <4> HIDE DEF P
        <4>2. k \in Nat /\ k <= Len(stream)
          BY <1>1, SequenceTypes
        <4>3. SubSeq(stream, k + 1, Len(stream)) \in Seq(P)
          BY <4>1, <4>2, Parted
        <4> QED
          BY <3>1, <4>3 DEF P
      <3> QED
        BY <2>1, <3>1, <3>2 DEF TypeOK, OnTrack
    <2>7. CASE UNCHANGED vars
      BY <2>1, <2>7 DEF vars, TypeOK
    <2> QED
      BY <2>2, <2>3, <2>4, <2>5, <2>6, <2>7
  <1>3. RangeInv'
    BY <1>1, <1>2 DEF RangeInv
  <1>4. TypeOK'
    <2>1. stream' \in Seq(Byte)
      BY <1>1, <1>2, SequenceTypes, SeqMonotonic
    <2>2. sender' \in {"loop", "body", "ended"}
      BY <1>1, <1>2 DEF TypeOK
    <2> QED
      BY <1>1, <1>2, <2>1, <2>2 DEF TypeOK
  <1>5. BodyInv'
    <2>1. OnTrack' => OnTrack
      BY <1>2 DEF OnTrack
    <2> QED
      BY <1>1, <1>2, <2>1 DEF BodyInv
  <1>6. StepInv' /\ EndInv'
    <2>1. OnTrack' => OnTrack /\ Ahead' = Ahead
      BY <1>2 DEF OnTrack, Ahead, Header
    <2>2. ~ closed' /\ sender' # "ended" => ~ closed /\ sender' = sender
      BY <1>2
    <2> QED
      BY <1>2, <2>1, <2>2, AheadKept
  <1> QED
    BY <1>3, <1>4, <1>5, <1>6 DEF IndInv
-----------------------------------------------------------------------------
(* The theorems.                                                           *)

LEMMA InitIndInv ==
  ASSUME Init
  PROVE  IndInv
  <1>1. TypeOK
    <2>1. /\ <<>> \in Seq(Sizes) /\ <<>> \in Seq(Byte) /\ Len(<<>>) = 0
          /\ <<>> \in Seq(Numbers \union {Garbage})
      OBVIOUS
    <2>2. 0 <= MaxMessages
      BY WireAssumption
    <2> QED
      BY <2>1, <2>2 DEF Init, TypeOK
  <1>2. RangeInv
    BY EmptySeq DEF Init, RangeInv
  <1>3. BodyInv
    BY DEF Init, BodyInv
  <1>4. Ahead = <<>>
    BY DEF Init, Ahead
  <1>5. StepInv
    BY <1>4 DEF StepInv, GapFree, Adjacent, Aligned
  <1>6. EndInv
    BY <1>4 DEF Init, EndInv, Following, Upcoming
  <1> QED
    BY <1>1, <1>2, <1>3, <1>5, <1>6 DEF IndInv

LEMMA NextIndInv ==
  ASSUME IndInv, [Next]_vars
  PROVE  IndInv'
  <1>1. ASSUME NEW s \in Sizes, SendHeader(s)
        PROVE  IndInv'
    BY <1>1, SendHeaderStep
  <1>2. CASE SendBody
    BY <1>2, SendBodyStep
  <1>3. CASE ReceiveHeader
    BY <1>3, ReceiveHeaderStep
  <1>4. ASSUME NEW k \in 1 .. Len(stream), ReceiveBody(k)
        PROVE  IndInv'
    BY <1>4, ReceiveBodyStep
  <1>5. ASSUME NEW k \in 0 .. Len(stream), Lose(k)
        PROVE  IndInv'
    BY <1>5, LoseStep
  <1>6. CASE SendFails \/ BodyFails \/ ReceiveClosed \/ Close
               \/ (\E k \in 1 .. Len(stream) : ReceivePart(k)) \/ UNCHANGED vars
    BY <1>6, QuietStep
  <1> QED
    BY <1>1, <1>2, <1>3, <1>4, <1>5, <1>6 DEF Next, SenderStep, ReceiverStep

\* In every state of the connection the inductive invariant holds.
THEOREM Invariance == Spec => []IndInv
  <1>1. Init => IndInv
    BY InitIndInv
  <1>2. IndInv /\ [Next]_vars => IndInv'
    BY NextIndInv
  <1> QED
    BY <1>1, <1>2, PTL DEF Spec

\* Every variable keeps to its values: only messages that were begun, or what is
\* not taken for one, are ever handed on (distributer.c:143).
THEOREM TypeCorrect == Spec => []TypeOK
  <1>1. IndInv => TypeOK
    BY DEF IndInv
  <1> QED
    BY <1>1, Invariance, PTL

\* Whatever the sizes of the messages and of the parts in which they arrive, the
\* receiver reads on where it has stopped, until part of a message is lost
\* (distributer.c:90, 112-135).
THEOREM InStepHolds == Spec => []InStep
  <1>1. IndInv => InStep
    <2> SUFFICES ASSUME IndInv, OnTrack
                 PROVE  /\ \A i \in 1 .. Len(Ahead) - 1 :
                             Ahead[i + 1] = NextPlace(Ahead[i])
                        /\ Ahead # <<>> => Ahead[1] = <<Len(delivered) + 1, 1>>
      BY DEF InStep, OnTrack
    <2>1. GapFree(Ahead, sent)
      BY DEF IndInv, StepInv
    <2>2. \A i \in 1 .. Len(Ahead) - 1 : Ahead[i + 1] = NextPlace(Ahead[i])
      BY <2>1 DEF GapFree, Adjacent, NextPlace, PlaceAfter
    <2> QED
      BY <2>2 DEF IndInv, StepInv
  <1> QED
    BY <1>1, Invariance, PTL

(***************************************************************************)
(* The connection is a channel.  A message is handed on when its body is   *)
(* complete; until part of a message is lost it is the next one            *)
(* (BodyHandedOn), and from then on any.                                   *)
(***************************************************************************)

LEMMA InitChannel ==
  Init => C!ChannelInit
  BY DEF Init, C!ChannelInit

LEMMA DeliverStep ==
  ASSUME IndInv, NEW k \in 1 .. Len(stream), ReceiveBody(k)
  PROVE  C!Deliver \/ C!DeliverAnything \/ UNCHANGED C!channelVars
  <1>1. /\ receiver = "body"
        /\ UNCHANGED <<sent, torn>>
        /\ ~ (Len(data') >= size) => UNCHANGED delivered
        /\ Len(data') >= size =>
             delivered' = Append(delivered, IF msg # Garbage /\ data' = Body(msg)
                                            THEN msg ELSE Garbage)
    BY DEF ReceiveBody, HandOn, senderVars
  <1>2. msg \in (1 .. Len(sent)) \union {Garbage} /\ torn \in BOOLEAN
    BY DEF IndInv, RangeInv, TypeOK
  <1>3. CASE ~ (Len(data') >= size)
    BY <1>1, <1>3 DEF C!channelVars
  <1>4. CASE Len(data') >= size /\ torn
    BY <1>1, <1>2, <1>4 DEF C!DeliverAnything
  <1>5. CASE Len(data') >= size /\ ~ torn
    <2>1. /\ msg = Len(delivered) + 1 /\ msg \in 1 .. Len(sent)
          /\ delivered' = Append(delivered, msg)
      BY <1>1, <1>5, BodyHandedOn DEF OnTrack
    <2>2. Len(delivered) \in Nat /\ Len(sent) \in Nat
      BY SequenceTypes DEF IndInv
    <2>3. Len(delivered) < Len(sent)
      BY <2>1, <2>2
    <2> QED
      BY <1>1, <2>1, <2>3 DEF C!Deliver
  <1> QED
    BY <1>2, <1>3, <1>4, <1>5

LEMMA NextChannel ==
  ASSUME IndInv, [Next]_vars
  PROVE  [C!ChannelNext]_C!channelVars
  <1>1. ASSUME NEW s \in Sizes, SendHeader(s)
        PROVE  C!Transmit
    <2>1. /\ Len(sent) < MaxMessages /\ sent' = Append(sent, s)
          /\ UNCHANGED <<delivered, torn>>
      BY <1>1 DEF SendHeader, receiverVars
    <2>2. sent \in Seq(Sizes)
      BY DEF IndInv, TypeOK
    <2>3. Len(sent') = Len(sent) + 1
      BY <2>1, <2>2, AppendProperties
    <2> QED
      BY <2>1, <2>3 DEF C!Transmit
  <1>2. ASSUME NEW k \in 1 .. Len(stream), ReceiveBody(k)
        PROVE  C!Deliver \/ C!DeliverAnything \/ UNCHANGED C!channelVars
    BY <1>2, DeliverStep
  <1>3. ASSUME NEW k \in 1 .. Len(stream), ReceivePart(k)
        PROVE  C!Tear
    BY <1>3 DEF ReceivePart, senderVars, C!Tear
  <1>4. CASE BodyFails
    BY <1>4 DEF BodyFails, senderVars, C!Tear, C!ChannelNext
  <1>5. CASE SendBody \/ SendFails \/ ReceiveHeader \/ ReceiveClosed \/ Close
               \/ (\E k \in 0 .. Len(stream) : Lose(k)) \/ UNCHANGED vars
    <2>1. UNCHANGED <<sent, delivered, torn>>
      BY <1>5 DEF SendBody, SendFails, ReceiveHeader, ReceiveClosed, Close, Lose,
                  senderVars, receiverVars, vars
    <2> QED
      BY <2>1 DEF C!channelVars
  <1> QED
    BY <1>1, <1>2, <1>3, <1>4, <1>5
       DEF Next, SenderStep, ReceiverStep, C!ChannelNext

\* The connection is a channel: nothing is handed on twice, out of order or in
\* part, until part of a message is lost (distributer.c:143).
THEOREM ChannelImplemented == Spec => ImplementsChannel
  <1>1. Init => C!ChannelInit
    BY InitChannel
  <1>2. IndInv /\ [Next]_vars => [C!ChannelNext]_C!channelVars
    BY NextChannel
  <1> QED
    BY <1>1, <1>2, Invariance, PTL DEF Spec, ImplementsChannel, C!ChannelSpec
=============================================================================
