--------------------------- MODULE RxQueueProofs ----------------------------
(***************************************************************************)
(* Proofs about RxQueue for FIFOs of any depth and frames of any lengths:  *)
(* only a frame too long for the almost-full mark loses a word, the AXI    *)
(* side gets the frames' words in order, and each with its own verdict.    *)
(***************************************************************************)
EXTENDS RxQueue, QueueCounting

Macs == [id : Ids, len : {0} \cup Lens, left : Nat, gap : BOOLEAN,
         owed : Ids \cup {None}]

Types ==
  /\ mac \in Macs
  /\ state \in {"IDLE", "WAIT_FOR_EOP", "DROP"}
  /\ rx_fifo \in Seq(Words) /\ Len(rx_fifo) <= DEPTH
  /\ info_fifo \in Seq([id : Ids, bad : BOOLEAN])
  /\ Len(info_fifo) <= INFO_DEPTH
  /\ err_state \in {"ERR_IDLE", "ERR_WAIT", "ERR_BUBBLE"}
  /\ tdata \in Words \cup {None}
  /\ lost \in {0} \cup Lens

Flag == dropped \in BOOLEAN

(* The MAC is inside a frame of its length or in the gap after it; the     *)
(* write side is inside a frame just while it has not seen the gap.        *)
Framing ==
  /\ mac.gap => mac.left = 0 /\ state = "IDLE"
  /\ ~mac.gap => mac.len \in Lens /\ mac.left < mac.len
  /\ state = "IDLE" => mac.left = 0
  /\ ~dropped => state # "DROP" /\ (state = "IDLE" => mac.gap)

(* A frame being written began below the almost-full mark.                 *)
Room == state = "WAIT_FOR_EOP" =>
          Len(rx_fifo) < DEPTH - ALMOST_FULL_OFFSET + (mac.len - mac.left)

(* Word v is what comes after word w: the next word of its frame, which    *)
(* has one of the lengths there are, the end mark after its last word, or  *)
(* the first word of another frame.                                        *)
Follows(w, v) ==
  IF w = None \/ w.end THEN v = Word(v.id, 1, FALSE)
  ELSE IF w.last THEN v = EndMark(w.id)
  ELSE v = Word(w.id, w.nth + 1, v.last) /\ (v.last => v.nth \in Lens)

(* The word last written, wherever it is.                                  *)
Newest == IF rx_fifo = << >> THEN tdata ELSE rx_fifo[Len(rx_fifo)]

(* The words in the output register and in rx_fifo follow each other, up   *)
(* to the one the write side will go on from.                              *)
Chain ==
  lost = 0 =>
    /\ rx_fifo # << >> => Follows(tdata, rx_fifo[1])
    /\ \A i \in 1 .. Len(rx_fifo) - 1 : Follows(rx_fifo[i], rx_fifo[i + 1])
    /\ state # "WAIT_FOR_EOP" => Newest = None \/ Newest.end
    /\ state = "WAIT_FOR_EOP" =>
         Newest = Word(mac.id, mac.len - mac.left, mac.left = 0)

(* The state of the read side tells what is in the output register.        *)
Reading ==
  /\ lost = 0 => (err_state = "ERR_BUBBLE" <=> tdata = None \/ tdata.end)
  /\ err_state = "ERR_WAIT" => rx_fifo # << >> /\ rx_fifo[1].end

(* What is in the two FIFOs, as functions of their contents.               *)
VerdictSet == [id : Ids, bad : BOOLEAN]
EndsIn(s) == {i \in 1 .. Len(s) : s[i].end}
UpTo(s, p) == Cardinality({i \in EndsIn(s) : i <= p})
Paired(s, f) ==
  /\ Len(f) <= Cardinality(EndsIn(s))
  /\ \A p \in EndsIn(s) : UpTo(s, p) <= Len(f) => f[UpTo(s, p)].id = s[p].id
LastIs(s, id) ==
  \A p \in EndsIn(s) : UpTo(s, p) = Cardinality(EndsIn(s)) => s[p].id = id

(* The verdict the MAC owes is the only one missing: for the frame being   *)
(* written while its last word is the newest, for the newest end mark      *)
(* otherwise.                                                              *)
LastIsNewest == state = "WAIT_FOR_EOP" /\ mac.left = 0
Owing ==
  ~dropped /\ lost = 0 =>
    /\ mac.owed = None \/ LastIsNewest =>
         Len(info_fifo) = Cardinality(EndsIn(rx_fifo))
    /\ LastIsNewest => mac.owed = mac.id
    /\ mac.owed # None /\ ~LastIsNewest =>
         /\ Len(info_fifo) + 1 = Cardinality(EndsIn(rx_fifo))
         /\ LastIs(rx_fifo, mac.owed)

IInv == /\ Types /\ Flag /\ Framing /\ Room /\ NoWordLost /\ Chain
        /\ Reading /\ Owing /\ VerdictIsOwn

-----------------------------------------------------------------------------
(* A FIFO without words is the empty one.                                  *)
LEMMA EmptyFifo ==
  ASSUME NEW S, NEW s \in Seq(S)
  PROVE  s = << >> <=> Len(s) = 0
OBVIOUS

(* End marks are a set of positions and are counted from one.              *)
LEMMA EndsAreFew ==
  ASSUME NEW s \in Seq(Words)
  PROVE  /\ EndsIn(s) \in SUBSET (1 .. Len(s)) /\ Len(s) \in Nat
         /\ Cardinality(EndsIn(s)) \in Nat
         /\ \A p \in EndsIn(s) : /\ UpTo(s, p) \in Nat /\ UpTo(s, p) >= 1
                                 /\ UpTo(s, p) <= Cardinality(EndsIn(s))
<1>1. EndsIn(s) \in SUBSET (1 .. Len(s)) /\ Len(s) \in Nat
  BY DEF EndsIn
<1>2. IsFiniteSet(EndsIn(s)) /\ Cardinality(EndsIn(s)) \in Nat
  BY <1>1, Positions
<1>3. ASSUME NEW p \in EndsIn(s)
      PROVE  /\ UpTo(s, p) \in Nat /\ UpTo(s, p) >= 1
             /\ UpTo(s, p) <= Cardinality(EndsIn(s))
  <2> DEFINE A == {i \in EndsIn(s) : i <= p}
  <2>1. A \in SUBSET (1 .. Len(s)) /\ A \in SUBSET EndsIn(s) /\ p \in A
    BY <1>1
  <2>2. Cardinality(A) \in Nat /\ (Cardinality(A) = 0 <=> A = {})
    BY <1>1, <2>1, Positions
  <2>3. Cardinality(A) <= Cardinality(EndsIn(s))
    BY <1>2, <2>1, FS_Subset
  <2>4. A # {}
    BY <2>1
  <2>5. UpTo(s, p) = Cardinality(A)
    BY DEF UpTo
  <2> HIDE DEF A
  <2>6. QED
    BY <2>2, <2>3, <2>4, <2>5
<1>4. QED
  BY <1>1, <1>2, <1>3

(* Appending a word that is no end mark changes no count.                  *)
LEMMA WordAppended ==
  ASSUME NEW s \in Seq(Words), NEW w \in Words, ~w.end
  PROVE  /\ EndsIn(Append(s, w)) = EndsIn(s)
         /\ \A p \in EndsIn(s) : /\ Append(s, w)[p] = s[p]
                                 /\ UpTo(Append(s, w), p) = UpTo(s, p)
<1>1. /\ Len(Append(s, w)) = Len(s) + 1
      /\ \A i \in 1 .. Len(s) : Append(s, w)[i] = s[i]
      /\ Append(s, w)[Len(s) + 1] = w
      /\ Len(s) \in Nat
  OBVIOUS
<1>2. EndsIn(Append(s, w)) = EndsIn(s)
  BY <1>1 DEF EndsIn
<1>3. \A p \in EndsIn(s) : Append(s, w)[p] = s[p]
  BY <1>1 DEF EndsIn
<1>4. \A p : UpTo(Append(s, w), p) = UpTo(s, p)
  BY <1>2 DEF UpTo
<1>5. QED
  BY <1>2, <1>3, <1>4

(* Appending an end mark makes it the last one.                            *)
LEMMA MarkAppended ==
  ASSUME NEW s \in Seq(Words), NEW w \in Words, w.end
  PROVE  /\ EndsIn(Append(s, w)) = EndsIn(s) \cup {Len(s) + 1}
         /\ Append(s, w)[Len(s) + 1] = w
         /\ Cardinality(EndsIn(Append(s, w))) = Cardinality(EndsIn(s)) + 1
         /\ UpTo(Append(s, w), Len(s) + 1) = Cardinality(EndsIn(s)) + 1
         /\ \A p \in EndsIn(s) : /\ Append(s, w)[p] = s[p]
                                 /\ UpTo(Append(s, w), p) = UpTo(s, p)
<1>1. /\ Len(Append(s, w)) = Len(s) + 1
      /\ \A i \in 1 .. Len(s) : Append(s, w)[i] = s[i]
      /\ Append(s, w)[Len(s) + 1] = w
      /\ Len(s) \in Nat
  OBVIOUS
<1>2. EndsIn(s) \in SUBSET (1 .. Len(s))
  BY EndsAreFew
<1>3. EndsIn(Append(s, w)) = EndsIn(s) \cup {Len(s) + 1}
  BY <1>1 DEF EndsIn
<1>4. Cardinality(EndsIn(s) \cup {Len(s) + 1}) = Cardinality(EndsIn(s)) + 1
  BY <1>1, <1>2, Appended
<1>5. {i \in EndsIn(s) \cup {Len(s) + 1} : i <= Len(s) + 1}
        = EndsIn(s) \cup {Len(s) + 1}
  BY <1>1, <1>2
<1>6. UpTo(Append(s, w), Len(s) + 1) = Cardinality(EndsIn(s)) + 1
  BY <1>3, <1>4, <1>5 DEF UpTo
<1>7. ASSUME NEW p \in EndsIn(s)
      PROVE  Append(s, w)[p] = s[p] /\ UpTo(Append(s, w), p) = UpTo(s, p)
  <2>1. {i \in EndsIn(s) \cup {Len(s) + 1} : i <= p}
          = {i \in EndsIn(s) : i <= p}
    BY <1>1, <1>2
  <2>2. QED
    BY <1>1, <1>2, <1>3, <2>1 DEF UpTo
<1>8. QED
  BY <1>1, <1>3, <1>4, <1>6, <1>7

(* Taking the head away moves the marks down; an end mark at the head is   *)
(* counted no more.                                                        *)
LEMMA HeadTaken ==
  ASSUME NEW s \in Seq(Words), s # << >>, NEW d \in {0, 1},
         s[1].end <=> d = 1
  PROVE  /\ Cardinality(EndsIn(Tail(s))) = Cardinality(EndsIn(s)) - d
         /\ \A p \in EndsIn(Tail(s)) :
              /\ p + 1 \in EndsIn(s) /\ Tail(s)[p] = s[p + 1]
              /\ UpTo(Tail(s), p) = UpTo(s, p + 1) - d
<1>1. /\ Len(Tail(s)) = Len(s) - 1 /\ Len(s) \in Nat /\ Len(s) > 0
      /\ \A i \in 1 .. Len(s) - 1 : Tail(s)[i] = s[i + 1]
  OBVIOUS
<1>2. EndsIn(s) \in SUBSET (1 .. Len(s)) /\ Cardinality(EndsIn(s)) \in Nat
  BY EndsAreFew
<1>3. EndsIn(Tail(s)) = {i \in 1 .. Len(s) - 1 : i + 1 \in EndsIn(s)}
  BY <1>1 DEF EndsIn
<1>4. 1 \in EndsIn(s) <=> d = 1
  BY <1>1 DEF EndsIn
<1>5. Cardinality(EndsIn(Tail(s))) = Cardinality(EndsIn(s)) - d
  BY <1>1, <1>2, <1>3, <1>4, HeadGone
<1>6. ASSUME NEW p \in EndsIn(Tail(s))
      PROVE  /\ p + 1 \in EndsIn(s) /\ Tail(s)[p] = s[p + 1]
             /\ UpTo(Tail(s), p) = UpTo(s, p + 1) - d
  <2> DEFINE A == {i \in EndsIn(s) : i <= p + 1}
  <2>1. p \in 1 .. Len(s) - 1 /\ p + 1 \in EndsIn(s)
    BY <1>3
  <2>2. {i \in EndsIn(Tail(s)) : i <= p}
          = {i \in 1 .. Len(s) - 1 : i + 1 \in A}
    BY <1>1, <1>3, <2>1
  <2>3. A \in SUBSET (1 .. Len(s)) /\ (1 \in A <=> d = 1)
    BY <1>2, <1>4, <2>1
  <2>4. Cardinality(A) \in Nat
    BY <1>1, <2>3, Positions
  <2>5. UpTo(s, p + 1) = Cardinality(A)
    BY DEF UpTo
  <2>6. UpTo(Tail(s), p) = Cardinality({i \in 1 .. Len(s) - 1 : i + 1 \in A})
    BY <2>2 DEF UpTo
  <2> HIDE DEF A
  <2>7. UpTo(Tail(s), p) = Cardinality(A) - d
    <3>1. /\ 1 \in A => UpTo(Tail(s), p) = Cardinality(A) - 1
          /\ 1 \notin A => UpTo(Tail(s), p) = Cardinality(A)
      BY <1>1, <2>3, <2>6, HeadGone
    <3>2. QED
      BY <2>3, <2>4, <3>1
  <2>8. QED
    BY <1>1, <2>1, <2>5, <2>7
<1>7. QED
  BY <1>5, <1>6

(* What following each other says of two words.                            *)
LEMMA WordAfter ==
  ASSUME NEW w \in Words, NEW v \in Words, Follows(w, v)
  PROVE  /\ w.end => ~v.end /\ ~v.last /\ v.nth = 1
         /\ ~w.end /\ w.last => v.end
         /\ ~w.end /\ ~w.last => /\ ~v.end /\ v.nth = w.nth + 1
                                 /\ v.last => v.nth \in Lens
<1>1. w # None
  BY NoneAssumption
<1>2. CASE w.end
  <2>1. v = Word(v.id, 1, FALSE)
    BY Zenon, <1>2 DEF Follows
  <2>2. QED
    BY <1>2, <2>1 DEF Word
<1>3. CASE ~w.end /\ w.last
  <2>1. v = EndMark(w.id)
    BY Zenon, <1>1, <1>3 DEF Follows
  <2>2. QED
    BY <1>3, <2>1 DEF EndMark
<1>4. CASE ~w.end /\ ~w.last
  <2>1. v = Word(w.id, w.nth + 1, v.last) /\ (v.last => v.nth \in Lens)
    BY Zenon, <1>1, <1>4 DEF Follows
  <2>2. ~v.end /\ v.nth = w.nth + 1
    BY <2>1 DEF Word
  <2>3. QED
    BY <1>4, <2>1, <2>2
<1>5. QED
  BY <1>2, <1>3, <1>4

(* The frame of a word that is no end mark began behind the last mark.     *)
LEMMA MarksBehind ==
  ASSUME NEW s \in Seq(Words),
         \A i \in 1 .. Len(s) - 1 : Follows(s[i], s[i + 1]),
         NEW i \in EndsIn(s), NEW p \in 1 .. Len(s), i < p, ~s[p].end
  PROVE  i + s[p].nth <= p
<1> DEFINE S == {n \in Nat : n + 1 \in 1 .. Len(s) => \/ s[n + 1].end
                              \/ n + 1 <= i \/ i + s[n + 1].nth <= n + 1}
<1>1. /\ EndsIn(s) \in SUBSET (1 .. Len(s)) /\ Len(s) \in Nat
      /\ i \in 1 .. Len(s) /\ s[i].end
  BY EndsAreFew DEF EndsIn
<1>2. 0 \in S
  BY <1>1
<1>3. ASSUME NEW n \in 0 .. Len(s) - 1, n \in S PROVE n + 1 \in S
  <2>1. SUFFICES ASSUME n + 2 \in 1 .. Len(s), ~s[n + 2].end, i < n + 2
                 PROVE  i + s[n + 2].nth <= n + 2
    <3>1. n + 1 \in Nat /\ (n + 1) + 1 = n + 2
      OBVIOUS
    <3>2. QED
      BY <1>1, <3>1
  <2> DEFINE w == s[n + 1]
             v == s[n + 2]
  <2>2. /\ n + 1 \in 1 .. Len(s) - 1 /\ (n + 1) + 1 = n + 2
        /\ n + 1 \in 1 .. Len(s) /\ n \in Nat
    BY <1>1, <2>1
  <2>3. Follows(w, v)
    BY <2>2
  <2>4. w \in Words /\ v \in Words
    BY <2>1, <2>2
  <2>5. w.end \/ n + 1 <= i \/ i + w.nth <= n + 1
    BY <1>3, <2>2
  <2>6. w.end \/ i # n + 1
    BY <1>1
  <2>7. ~v.end /\ i < n + 2 /\ i \in Nat
    BY <1>1, <2>1
  <2> HIDE DEF w, v
  <2>8. w.nth \in Nat
    BY <2>4 DEF Words
  <2>9. v.nth = 1 \/ (~w.end /\ v.nth = w.nth + 1)
    BY <2>3, <2>4, <2>7, WordAfter
  <2>10. i + v.nth <= n + 2
    BY <2>2, <2>5, <2>6, <2>7, <2>8, <2>9
  <2>11. QED
    BY <2>10 DEF v
<1> HIDE DEF S
<1>4. \A n \in 0 .. Len(s) : n \in S
  BY <1>1, <1>2, <1>3, Upwards
<1>5. p - 1 \in 0 .. Len(s) /\ (p - 1) + 1 = p
  BY <1>1
<1>6. s[p].end \/ p <= i \/ i + s[p].nth <= p
  <2>1. p - 1 \in S
    BY <1>4, <1>5
  <2>2. QED
    BY <1>5, <2>1 DEF S
<1>7. QED
  BY <1>1, <1>6

(* Between two end marks there is a frame, of one of the lengths there are.*)
LEMMA FrameBetween ==
  ASSUME NEW s \in Seq(Words),
         \A i \in 1 .. Len(s) - 1 : Follows(s[i], s[i + 1]),
         NEW i \in EndsIn(s), NEW j \in EndsIn(s), i < j
  PROVE  \E n \in Lens : i + n + 1 <= j
<1>1. /\ EndsIn(s) \in SUBSET (1 .. Len(s)) /\ Len(s) \in Nat
      /\ i \in 1 .. Len(s) /\ j \in 1 .. Len(s) /\ s[i].end /\ s[j].end
  BY EndsAreFew DEF EndsIn
<1> DEFINE p == j - 1
           q == j - 2
<1>2. /\ p \in 1 .. Len(s) - 1 /\ p \in 1 .. Len(s) /\ p + 1 = j
      /\ i <= p
  BY <1>1
<1>3. Follows(s[p], s[j]) /\ s[p] \in Words /\ s[j] \in Words
  BY <1>1, <1>2
<1>4. ~s[p].end /\ s[p].last
  <2> HIDE DEF p
  <2>1. QED
    BY Zenon, <1>1, <1>3, WordAfter
<1>5. i < p
  BY <1>1, <1>2, <1>4
<1>6. i + s[p].nth <= p
  <2> HIDE DEF p
  <2>1. QED
    BY <1>2, <1>4, <1>5, MarksBehind
<1>7. q \in 1 .. Len(s) - 1 /\ q \in 1 .. Len(s) /\ q + 1 = p
  BY <1>1, <1>5
<1>8. Follows(s[q], s[p]) /\ s[q] \in Words
  BY <1>7
<1>9. s[p].nth \in Lens /\ s[p].nth \in Nat
  <2> HIDE DEF p, q
  <2>1. s[p].nth \in Lens
    BY Zenon, <1>3, <1>4, <1>8, WordAfter
  <2>2. QED
    BY <1>3, <2>1 DEF Words
<1>10. i + s[p].nth + 1 <= j
  BY <1>1, <1>6, <1>9
<1>11. QED
  BY <1>9, <1>10

-----------------------------------------------------------------------------
(* A word that is no end mark leaves verdicts and marks paired.            *)
LEMMA PairedWord ==
  ASSUME NEW s \in Seq(Words), NEW w \in Words, ~w.end, NEW f, NEW o
  PROVE  /\ Cardinality(EndsIn(Append(s, w))) = Cardinality(EndsIn(s))
         /\ Paired(s, f) => Paired(Append(s, w), f)
         /\ LastIs(s, o) => LastIs(Append(s, w), o)
<1>1. /\ EndsIn(Append(s, w)) = EndsIn(s)
      /\ \A p \in EndsIn(s) : /\ Append(s, w)[p] = s[p]
                              /\ UpTo(Append(s, w), p) = UpTo(s, p)
  BY Zenon, WordAppended
<1>2. Paired(s, f) => Paired(Append(s, w), f)
  BY Zenon, <1>1 DEF Paired
<1>3. LastIs(s, o) => LastIs(Append(s, w), o)
  BY Zenon, <1>1 DEF LastIs
<1>4. QED
  BY Zenon, <1>1, <1>2, <1>3

(* A new end mark is the last one and has no verdict yet.                  *)
LEMMA PairedMark ==
  ASSUME NEW s \in Seq(Words), NEW w \in Words, w.end,
         NEW f \in Seq(VerdictSet), Paired(s, f)
  PROVE  /\ Paired(Append(s, w), f)
         /\ LastIs(Append(s, w), w.id)
<1>1. /\ EndsIn(Append(s, w)) = EndsIn(s) \cup {Len(s) + 1}
      /\ Append(s, w)[Len(s) + 1] = w
      /\ Cardinality(EndsIn(Append(s, w))) = Cardinality(EndsIn(s)) + 1
      /\ UpTo(Append(s, w), Len(s) + 1) = Cardinality(EndsIn(s)) + 1
      /\ \A p \in EndsIn(s) : /\ Append(s, w)[p] = s[p]
                              /\ UpTo(Append(s, w), p) = UpTo(s, p)
  BY MarkAppended
<1>2. /\ Cardinality(EndsIn(s)) \in Nat /\ Len(f) \in Nat
      /\ \A p \in EndsIn(s) : /\ UpTo(s, p) \in Nat
                              /\ UpTo(s, p) <= Cardinality(EndsIn(s))
  BY EndsAreFew
<1>3. /\ Len(f) <= Cardinality(EndsIn(s))
      /\ \A p \in EndsIn(s) : UpTo(s, p) <= Len(f) => f[UpTo(s, p)].id = s[p].id
  BY DEF Paired
<1>4. ASSUME NEW p \in EndsIn(Append(s, w)), UpTo(Append(s, w), p) <= Len(f)
      PROVE  f[UpTo(Append(s, w), p)].id = Append(s, w)[p].id
  <2>1. p # Len(s) + 1
    BY <1>1, <1>2, <1>3, <1>4
  <2>2. p \in EndsIn(s)
    BY <1>1, <2>1
  <2>3. QED
    BY <1>1, <1>3, <1>4, <2>2
<1>5. Paired(Append(s, w), f)
  <2>1. Len(f) <= Cardinality(EndsIn(Append(s, w)))
    BY <1>1, <1>2, <1>3
  <2>2. QED
    BY <1>4, <2>1 DEF Paired
<1>6. ASSUME NEW p \in EndsIn(Append(s, w)),
             UpTo(Append(s, w), p) = Cardinality(EndsIn(Append(s, w)))
      PROVE  Append(s, w)[p].id = w.id
  BY <1>1, <1>2, <1>6
<1>7. QED
  BY <1>5, <1>6 DEF LastIs

(* The verdict on the last frame marked is the one that was missing.       *)
LEMMA PairedVerdict ==
  ASSUME NEW s \in Seq(Words), NEW f \in Seq(VerdictSet), NEW v \in VerdictSet,
         Paired(s, f), LastIs(s, v.id), Len(f) + 1 = Cardinality(EndsIn(s))
  PROVE  Paired(s, Append(f, v))
<1>1. /\ Len(f) \in Nat /\ Len(Append(f, v)) = Len(f) + 1
      /\ \A i \in 1 .. Len(f) : Append(f, v)[i] = f[i]
      /\ Append(f, v)[Len(f) + 1] = v
  OBVIOUS
<1>2. \A p \in EndsIn(s) : /\ UpTo(s, p) \in Nat /\ UpTo(s, p) >= 1
                           /\ UpTo(s, p) <= Cardinality(EndsIn(s))
  BY EndsAreFew
<1>3. ASSUME NEW p \in EndsIn(s), UpTo(s, p) <= Len(f) + 1
      PROVE  Append(f, v)[UpTo(s, p)].id = s[p].id
  <2>1. CASE UpTo(s, p) = Len(f) + 1
    BY <1>1, <2>1 DEF LastIs
  <2>2. CASE UpTo(s, p) # Len(f) + 1
    <3>1. UpTo(s, p) \in 1 .. Len(f)
      BY <1>1, <1>2, <1>3, <2>2
    <3>2. QED
      BY <1>1, <3>1 DEF Paired
  <2>3. QED
    BY <2>1, <2>2
<1>4. Len(Append(f, v)) <= Cardinality(EndsIn(s))
  BY <1>1
<1>5. \A p \in EndsIn(s) : UpTo(s, p) <= Len(Append(f, v)) =>
        Append(f, v)[UpTo(s, p)].id = s[p].id
  BY <1>1, <1>3
<1>6. QED
  BY <1>4, <1>5 DEF Paired

(* Taking a word from rx_fifo, and with an end mark its verdict, leaves    *)
(* the others paired.                                                      *)
LEMMA PairedTaken ==
  ASSUME NEW s \in Seq(Words), s # << >>, NEW f \in Seq(VerdictSet), NEW o
  PROVE  /\ ~s[1].end /\ Paired(s, f) => Paired(Tail(s), f)
         /\ s[1].end /\ f # << >> /\ Paired(s, f) => Paired(Tail(s), Tail(f))
         /\ LastIs(s, o) => LastIs(Tail(s), o)
<1>1. /\ Cardinality(EndsIn(s)) \in Nat /\ Len(f) \in Nat
      /\ \A p \in EndsIn(s) : UpTo(s, p) \in Nat
  BY EndsAreFew
<1>2. /\ Tail(s) \in Seq(Words) /\ Cardinality(EndsIn(Tail(s))) \in Nat
      /\ \A p \in EndsIn(Tail(s)) : UpTo(Tail(s), p) \in Nat
                                    /\ UpTo(Tail(s), p) >= 1
  <2>1. Tail(s) \in Seq(Words)
    OBVIOUS
  <2>2. QED
    BY <2>1, EndsAreFew
<1>3. CASE ~s[1].end
  <2>1. /\ Cardinality(EndsIn(Tail(s))) = Cardinality(EndsIn(s))
        /\ \A p \in EndsIn(Tail(s)) :
             /\ p + 1 \in EndsIn(s) /\ Tail(s)[p] = s[p + 1]
             /\ UpTo(Tail(s), p) = UpTo(s, p + 1)
    <3>1. 0 \in {0, 1} /\ (s[1].end <=> 0 = 1)
      BY <1>3
    <3>2. /\ Cardinality(EndsIn(Tail(s))) = Cardinality(EndsIn(s)) - 0
          /\ \A p \in EndsIn(Tail(s)) :
               /\ p + 1 \in EndsIn(s) /\ Tail(s)[p] = s[p + 1]
               /\ UpTo(Tail(s), p) = UpTo(s, p + 1) - 0
      BY <3>1, HeadTaken
    <3>3. ASSUME NEW p \in EndsIn(Tail(s))
          PROVE  UpTo(Tail(s), p) = UpTo(s, p + 1)
      <4>1. UpTo(s, p + 1) \in Nat /\ UpTo(Tail(s), p) = UpTo(s, p + 1) - 0
        BY <1>1, <3>2
      <4>2. QED
        BY <4>1
    <3>4. Cardinality(EndsIn(Tail(s))) = Cardinality(EndsIn(s))
      BY <1>1, <3>2
    <3>5. QED
      BY <3>2, <3>3, <3>4
  <2>2. QED
    BY <1>3, <2>1 DEF Paired, LastIs
<1>4. CASE s[1].end
  <2>1. /\ Cardinality(EndsIn(Tail(s))) = Cardinality(EndsIn(s)) - 1
        /\ \A p \in EndsIn(Tail(s)) :
             /\ p + 1 \in EndsIn(s) /\ Tail(s)[p] = s[p + 1]
             /\ UpTo(Tail(s), p) = UpTo(s, p + 1) - 1
    <3>1. 1 \in {0, 1} /\ (s[1].end <=> 1 = 1)
      BY <1>4
    <3>2. QED
      BY <3>1, HeadTaken
  <2>2. \A p \in EndsIn(Tail(s)) : UpTo(s, p + 1) = UpTo(Tail(s), p) + 1
    <3>1. TAKE p \in EndsIn(Tail(s))
    <3>2. /\ UpTo(s, p + 1) \in Nat /\ UpTo(Tail(s), p) \in Nat
          /\ UpTo(Tail(s), p) = UpTo(s, p + 1) - 1
      BY <1>1, <1>2, <2>1
    <3>3. QED
      BY <3>2
  <2>3. ASSUME LastIs(s, o) PROVE LastIs(Tail(s), o)
    <3>1. SUFFICES ASSUME NEW p \in EndsIn(Tail(s)),
                          UpTo(Tail(s), p) = Cardinality(EndsIn(Tail(s)))
                   PROVE  Tail(s)[p].id = o
      BY DEF LastIs
    <3>2. UpTo(s, p + 1) = Cardinality(EndsIn(s))
      BY <1>1, <2>1, <2>2, <3>1
    <3>3. QED
      BY <2>1, <2>3, <3>2 DEF LastIs
  <2>4. ASSUME f # << >>, Paired(s, f) PROVE Paired(Tail(s), Tail(f))
    <3>1. /\ Len(Tail(f)) = Len(f) - 1
          /\ \A i \in 1 .. Len(f) - 1 : Tail(f)[i] = f[i + 1]
      BY <2>4
    <3>2. ASSUME NEW p \in EndsIn(Tail(s)), UpTo(Tail(s), p) <= Len(f) - 1
          PROVE  Tail(f)[UpTo(Tail(s), p)].id = Tail(s)[p].id
      <4>1. /\ p + 1 \in EndsIn(s) /\ Tail(s)[p] = s[p + 1]
            /\ UpTo(s, p + 1) = UpTo(Tail(s), p) + 1
        BY <2>1, <2>2
      <4>2. UpTo(s, p + 1) <= Len(f)
        BY <1>1, <1>2, <3>2, <4>1
      <4>3. f[UpTo(s, p + 1)].id = s[p + 1].id
        BY <2>4, <4>1, <4>2 DEF Paired
      <4>4. Tail(f)[UpTo(Tail(s), p)] = f[UpTo(s, p + 1)]
        BY <1>1, <1>2, <3>1, <3>2, <4>1
      <4>5. QED
        BY <4>1, <4>3, <4>4
    <3>3. Len(f) - 1 <= Cardinality(EndsIn(Tail(s)))
      BY <1>1, <2>1, <2>4 DEF Paired
    <3>4. QED
      BY <3>1, <3>2, <3>3 DEF Paired
  <2>5. QED
    BY <1>4, <2>3, <2>4
<1>5. QED
  BY <1>3, <1>4

-----------------------------------------------------------------------------
(* What an edge of the MAC's clock does to a frame and to rx_fifo.         *)
SameFrame == mac'.id = mac.id /\ mac'.len = mac.len
Keeps == UNCHANGED <<rx_fifo, lost>>
Writes(word) ==
  /\ rx_fifo' = Push(rx_fifo, word, DEPTH)
  /\ lost' = IF Len(rx_fifo) = DEPTH THEN mac'.len ELSE lost

(* The end mark of a frame that was written.                               *)
Mark == /\ state = "WAIT_FOR_EOP" /\ state' = "IDLE"
        /\ mac.left = 0 /\ mac'.left = 0 /\ mac'.gap /\ SameFrame
        /\ Writes(EndMark(mac.id)) /\ dropped' = dropped
(* No data, and no frame was being written.                                *)
Rest == /\ state # "WAIT_FOR_EOP" /\ state' = "IDLE"
        /\ mac.left = 0 /\ mac'.left = 0 /\ mac'.gap /\ SameFrame
        /\ Keeps /\ dropped' = dropped
(* First word of a frame, with room for it or without.                     *)
Fresh == /\ state = "IDLE" /\ mac.gap /\ mac.left = 0
         /\ ~mac'.gap /\ mac'.len \in Lens /\ mac'.left = mac'.len - 1
Begin == /\ Fresh /\ ~fifo_almost_full /\ state' = "WAIT_FOR_EOP"
         /\ Writes(Word(mac'.id, 1, FALSE)) /\ dropped' = dropped
Refuse == Fresh /\ state' = "DROP" /\ Keeps /\ dropped' = TRUE
(* A further word of a frame that is written, or dropped.                  *)
Further == mac.left > 0 /\ mac'.left = mac.left - 1 /\ ~mac'.gap /\ SameFrame
More == /\ Further /\ state = "WAIT_FOR_EOP" /\ state' = "WAIT_FOR_EOP"
        /\ Writes(Word(mac.id, mac.len - mac.left + 1, mac.left = 1))
        /\ dropped' = dropped
Skip == /\ Further /\ state = "DROP" /\ Keeps /\ dropped' = dropped
        /\ state' = "DROP" \/ (state' = "IDLE" /\ mac'.left = 0)

(* What it does to the verdict owed.                                       *)
Owes(verdict) ==
  /\ mac.left = 1 => (mac.owed = None \/ verdict) /\ mac'.owed = mac.id
  /\ mac.left # 1 /\ verdict => mac'.owed = None
  /\ mac.left # 1 /\ ~verdict => mac'.owed = mac.owed

(* The fields of a word.                                                   *)
LEMMA WordFields ==
  ASSUME NEW id \in Ids, NEW n \in Nat, NEW b \in BOOLEAN
  PROVE  /\ Word(id, n, b) \in Words /\ EndMark(id) \in Words
         /\ ~Word(id, n, b).end /\ EndMark(id).end
         /\ (Word(id, n, b).last <=> b) /\ ~EndMark(id).last
         /\ Word(id, n, b).id = id /\ EndMark(id).id = id
         /\ Word(id, n, b).nth = n
<1>1. Word(id, n, b) \in Words
  BY Zenon DEF Word, Words
<1>2. EndMark(id) \in Words
  BY Zenon, 0 \in Nat DEF EndMark, Words
<1>3. QED
  BY <1>1, <1>2 DEF Word, EndMark

(* The MAC's record, field by field.                                       *)
LEMMA MacFields ==
  ASSUME NEW m \in Macs
  PROVE  /\ m = [id |-> m.id, len |-> m.len, left |-> m.left, gap |-> m.gap,
                 owed |-> m.owed]
         /\ m.id \in Ids /\ m.len \in {0} \cup Lens /\ m.left \in Nat
         /\ m.gap \in BOOLEAN /\ m.owed \in Ids \cup {None}
BY Zenon DEF Macs

(* A record with fields of the right types is a state of the MAC.          *)
LEMMA MacType ==
  ASSUME NEW id \in Ids, NEW len \in {0} \cup Lens, NEW left \in Nat,
         NEW gap \in BOOLEAN, NEW owed \in Ids \cup {None}
  PROVE  [id |-> id, len |-> len, left |-> left, gap |-> gap,
          owed |-> owed] \in Macs
BY Zenon DEF Macs

(* The MAC's record after a gap.                                           *)
LEMMA GapSet ==
  ASSUME NEW m \in Macs, NEW h
  PROVE  [m EXCEPT !.gap = h] =
           [id |-> m.id, len |-> m.len, left |-> m.left, gap |-> h,
            owed |-> m.owed]
BY MacFields

(* The same with the verdict owed.                                         *)
LEMMA OwedSet ==
  ASSUME NEW m \in Macs, NEW h
  PROVE  [m EXCEPT !.owed = h] =
           [id |-> m.id, len |-> m.len, left |-> m.left, gap |-> m.gap,
            owed |-> h]
BY MacFields

(* The same with a new frame.                                              *)
LEMMA FrameSet ==
  ASSUME NEW m \in Macs, NEW n, NEW j, NEW h
  PROVE  [m EXCEPT !.id = 1 - @, !.len = n, !.left = j, !.gap = h] =
           [id |-> 1 - m.id, len |-> n, left |-> j, gap |-> h,
            owed |-> m.owed]
<1> DEFINE m1 == [m EXCEPT !.id = 1 - @]
           m2 == [m1 EXCEPT !.len = n]
           m3 == [m2 EXCEPT !.left = j]
<1>1. [m EXCEPT !.id = 1 - @, !.len = n, !.left = j, !.gap = h]
        = [m3 EXCEPT !.gap = h]
  OBVIOUS
<1>2. m1 = [id |-> 1 - m.id, len |-> m.len, left |-> m.left, gap |-> m.gap,
            owed |-> m.owed]
  BY MacFields
<1> HIDE DEF m1
<1>3. m2 = [id |-> 1 - m.id, len |-> n, left |-> m.left, gap |-> m.gap,
            owed |-> m.owed]
  BY <1>2
<1> HIDE DEF m2
<1>4. m3 = [id |-> 1 - m.id, len |-> n, left |-> j, gap |-> m.gap,
            owed |-> m.owed]
  BY <1>3
<1> HIDE DEF m3
<1>5. QED
  BY <1>1, <1>4

(* Each input the MAC may give is one of three kinds.                      *)
LEMMA InputKinds ==
  ASSUME Types, Framing, NEW in \in Inputs
  PROVE  \/ /\ mac.left = 0 /\ in.valid = "none" /\ in.word = EndMark(mac.id)
            /\ in.next = [id |-> mac.id, len |-> mac.len, left |-> 0,
                          gap |-> TRUE, owed |-> mac.owed]
         \/ /\ mac.left = 0 /\ mac.gap /\ in.valid = "full"
            /\ \E n \in Lens :
                 in.next = [id |-> 1 - mac.id, len |-> n, left |-> n - 1,
                            gap |-> FALSE, owed |-> mac.owed]
            /\ in.word = Word(1 - mac.id, 1, FALSE)
         \/ /\ mac.left > 0 /\ in.valid \in {"full", "part"}
            /\ mac.left # 1 => in.valid = "full"
            /\ in.word = Word(mac.id, mac.len - mac.left + 1, mac.left = 1)
            /\ in.next = [id |-> mac.id, len |-> mac.len,
                          left |-> mac.left - 1, gap |-> FALSE,
                          owed |-> mac.owed]
<1>1. /\ mac = [id |-> mac.id, len |-> mac.len, left |-> mac.left,
                gap |-> mac.gap, owed |-> mac.owed]
  BY MacFields DEF Types
<1>2. mac.left \in Nat /\ mac.gap \in BOOLEAN
  BY MacFields DEF Types
<1>3. CASE mac.left > 0
  <2>1. PICK v \in IF mac.left = 1 THEN LastValid ELSE {"full"} :
          in = [valid |-> v,
                word |-> Word(mac.id, mac.len - mac.left + 1, mac.left = 1),
                next |-> [mac EXCEPT !.left = @ - 1]]
    BY <1>3 DEF Inputs, GoOnFrame
  <2>2. v \in {"full", "part"} /\ (mac.left # 1 => v = "full")
    BY <2>1, SizeAssumption
  <2>3. mac.gap = FALSE
    BY <1>2, <1>3 DEF Framing
  <2>4. [mac EXCEPT !.left = @ - 1]
          = [id |-> mac.id, len |-> mac.len, left |-> mac.left - 1,
             gap |-> mac.gap, owed |-> mac.owed]
    BY <1>1
  <2>5. /\ in.valid = v
        /\ in.word = Word(mac.id, mac.len - mac.left + 1, mac.left = 1)
        /\ in.next = [mac EXCEPT !.left = @ - 1]
    BY Zenon, <2>1
  <2>6. QED
    BY <1>3, <2>2, <2>3, <2>4, <2>5
<1>4. CASE mac.left = 0
  <2>1. in = Quiet \/ (mac.gap /\ in \in StartFrame)
    BY <1>4 DEF Inputs
  <2>2. CASE in = Quiet
    <3>1. /\ in.valid = "none" /\ in.word = EndMark(mac.id)
          /\ in.next = [mac EXCEPT !.gap = TRUE]
      BY Zenon, <2>2 DEF Quiet
    <3>2. [mac EXCEPT !.gap = TRUE]
            = [id |-> mac.id, len |-> mac.len, left |-> mac.left,
               gap |-> TRUE, owed |-> mac.owed]
      BY Zenon, GapSet DEF Types
    <3>3. QED
      BY <1>4, <3>1, <3>2
  <2>3. CASE mac.gap /\ in \in StartFrame
    <3>1. PICK n \in Lens :
            in = [valid |-> "full", word |-> Word(1 - mac.id, 1, FALSE),
                  next |-> [mac EXCEPT !.id = 1 - @, !.len = n,
                                       !.left = n - 1, !.gap = FALSE]]
      BY <2>3 DEF StartFrame
    <3>2. [mac EXCEPT !.id = 1 - @, !.len = n, !.left = n - 1, !.gap = FALSE]
            = [id |-> 1 - mac.id, len |-> n, left |-> n - 1, gap |-> FALSE,
               owed |-> mac.owed]
      BY Zenon, FrameSet DEF Types
    <3>3. /\ in.valid = "full" /\ in.word = Word(1 - mac.id, 1, FALSE)
          /\ in.next = [mac EXCEPT !.id = 1 - @, !.len = n, !.left = n - 1,
                                   !.gap = FALSE]
      BY Zenon, <3>1
    <3>4. QED
      BY Zenon, <1>4, <2>3, <3>2, <3>3
  <2>4. QED
    BY <2>1, <2>2, <2>3
<1>5. mac.left > 0 \/ mac.left = 0
  BY <1>2
<1>6. QED
  BY Zenon, <1>3, <1>4, <1>5

(* An edge of the MAC's clock is of one of six kinds, and the verdict owed *)
(* changes as the frame's last word and the verdict say.                   *)
LEMMA MacEdgeKinds ==
  ASSUME Types, Flag, Framing, NEW verdict \in BOOLEAN, MacEdge(verdict)
  PROVE  /\ mac' \in Macs /\ Owes(verdict)
         /\ UNCHANGED <<err_state, tdata>>
         /\ Mark \/ Rest \/ Begin \/ Refuse \/ More \/ Skip
<1> USE SizeAssumption
<1>1. PICK in \in Inputs :
        /\ in.word.last => (mac.owed = None \/ verdict)
        /\ mac' = [in.next EXCEPT !.owed =
                     CASE in.word.last -> in.next.id
                       [] verdict /\ ~in.word.last -> None
                       [] OTHER -> @]
        /\ state' = state_next(in.valid)
        /\ rx_fifo' = IF fifo_wr_en(in.valid)
                      THEN Push(rx_fifo, in.word, DEPTH) ELSE rx_fifo
        /\ lost' = IF fifo_wr_en(in.valid) /\ Len(rx_fifo) = DEPTH
                   THEN in.next.len ELSE lost
        /\ dropped' = (dropped \/ (state # "DROP" /\ state' = "DROP"))
  BY DEF MacEdge
<1>2. UNCHANGED <<err_state, tdata>>
  BY DEF MacEdge, readVars
<1>3. /\ mac.id \in Ids /\ mac.len \in {0} \cup Lens /\ mac.left \in Nat
      /\ mac.owed \in Ids \cup {None}
  BY MacFields DEF Types
<1>4. dropped' = dropped \/ (state # "DROP" /\ state' = "DROP" /\ dropped')
  BY Zenon, <1>1 DEF Flag
<1> DEFINE o == CASE in.word.last -> in.next.id
                  [] verdict /\ ~in.word.last -> None
                  [] OTHER -> in.next.owed
<1>5. ASSUME in.next \in Macs
      PROVE  mac' = [id |-> in.next.id, len |-> in.next.len,
                     left |-> in.next.left, gap |-> in.next.gap, owed |-> o]
  <2>1. mac' = [in.next EXCEPT !.owed = o]
    BY <1>1
  <2> HIDE DEF o
  <2>2. QED
    BY Zenon, <1>5, <2>1, OwedSet
<1>6. /\ in.word.last => o = in.next.id
      /\ ~in.word.last /\ verdict => o = None
      /\ ~in.word.last /\ ~verdict => o = in.next.owed
  OBVIOUS
<1> HIDE DEF o
<1>7. CASE /\ mac.left = 0 /\ in.valid = "none" /\ in.word = EndMark(mac.id)
           /\ in.next = [id |-> mac.id, len |-> mac.len, left |-> 0,
                         gap |-> TRUE, owed |-> mac.owed]
  <2>1. in.next \in Macs
    <3>1. [id |-> mac.id, len |-> mac.len, left |-> 0, gap |-> TRUE,
           owed |-> mac.owed] \in Macs
      BY Zenon, <1>3, MacType, 0 \in Nat
    <3>2. QED
      BY Zenon, <1>7, <3>1
  <2>2. mac' = [id |-> mac.id, len |-> mac.len, left |-> 0, gap |-> TRUE,
                owed |-> o]
    BY <1>5, <1>7, <2>1
  <2>3. ~in.word.last
    BY <1>7 DEF EndMark
  <2>4. (verdict => o = None) /\ (~verdict => o = mac.owed)
    BY <1>6, <1>7, <2>3
  <2>5. o \in Ids \cup {None}
    BY <1>3, <2>4
  <2>6. mac' \in Macs
    BY Zenon, <1>3, <2>2, <2>5, MacType, 0 \in Nat
  <2>7. /\ SameFrame /\ mac'.left = 0 /\ mac'.gap /\ mac'.owed = o
    BY <2>2 DEF SameFrame
  <2>8. Owes(verdict)
    BY <1>7, <2>4, <2>7 DEF Owes
  <2>9. state' = "IDLE" /\ (fifo_wr_en(in.valid) <=> state = "WAIT_FOR_EOP")
    BY <1>1, <1>7 DEF state_next, fifo_wr_en, Types
  <2>10. dropped' = dropped
    BY <1>4, <2>9
  <2>11. CASE state = "WAIT_FOR_EOP"
    <3>1. Writes(EndMark(mac.id))
      BY <1>1, <1>7, <2>7, <2>9, <2>11 DEF Writes, SameFrame
    <3>2. Mark
      BY <1>7, <2>7, <2>9, <2>10, <2>11, <3>1 DEF Mark
    <3>3. QED
      BY <1>2, <2>6, <2>8, <3>2
  <2>12. CASE state # "WAIT_FOR_EOP"
    <3>1. Keeps
      BY <1>1, <2>9, <2>12 DEF Keeps
    <3>2. Rest
      BY <1>7, <2>7, <2>9, <2>10, <2>12, <3>1 DEF Rest
    <3>3. QED
      BY <1>2, <2>6, <2>8, <3>2
  <2>13. QED
    BY <2>11, <2>12
<1>8. CASE /\ mac.left = 0 /\ mac.gap /\ in.valid = "full"
           /\ \E n \in Lens :
                in.next = [id |-> 1 - mac.id, len |-> n, left |-> n - 1,
                           gap |-> FALSE, owed |-> mac.owed]
           /\ in.word = Word(1 - mac.id, 1, FALSE)
  <2>1. PICK n \in Lens :
          in.next = [id |-> 1 - mac.id, len |-> n, left |-> n - 1,
                     gap |-> FALSE, owed |-> mac.owed]
    BY <1>8
  <2> DEFINE i == 1 - mac.id
             j == n - 1
  <2>2. i \in Ids /\ j \in Nat /\ n \in {0} \cup Lens
    BY <1>3 DEF Ids
  <2>3. in.next = [id |-> i, len |-> n, left |-> j, gap |-> FALSE,
                   owed |-> mac.owed]
    BY <2>1
  <2>4. in.word = Word(i, 1, FALSE)
    BY <1>8
  <2>5. j = n - 1
    OBVIOUS
  <2> HIDE DEF i, j
  <2>6. in.next \in Macs
    <3>1. [id |-> i, len |-> n, left |-> j, gap |-> FALSE,
           owed |-> mac.owed] \in Macs
      BY Zenon, <1>3, <2>2, MacType
    <3>2. QED
      BY Zenon, <2>3, <3>1
  <2>7. mac' = [id |-> i, len |-> n, left |-> j, gap |-> FALSE, owed |-> o]
    BY <1>5, <2>3, <2>6
  <2>8. ~in.word.last
    BY <2>4 DEF Word
  <2>9. (verdict => o = None) /\ (~verdict => o = mac.owed)
    BY <1>6, <2>3, <2>8
  <2>10. o \in Ids \cup {None}
    BY <1>3, <2>9
  <2>11. mac' \in Macs
    BY Zenon, <2>2, <2>7, <2>10, MacType
  <2>12. /\ mac'.id = i /\ mac'.len = n /\ mac'.left = j /\ ~mac'.gap
         /\ mac'.owed = o
    BY <2>7
  <2>13. Owes(verdict)
    BY <1>8, <2>9, <2>12 DEF Owes
  <2>14. state = "IDLE"
    BY <1>8 DEF Framing
  <2>15. Fresh
    BY <1>8, <2>5, <2>12, <2>14 DEF Fresh
  <2>16. CASE fifo_almost_full
    <3>1. state' = "DROP" /\ ~fifo_wr_en(in.valid)
      BY <1>1, <1>8, <2>14, <2>16 DEF state_next, fifo_wr_en
    <3>2. Keeps
      BY <1>1, <3>1 DEF Keeps
    <3>3. dropped' = TRUE
      BY Zenon, <1>1, <2>14, <3>1
    <3>4. Refuse
      BY <2>15, <3>1, <3>2, <3>3 DEF Refuse
    <3>5. QED
      BY <1>2, <2>11, <2>13, <3>4
  <2>17. CASE ~fifo_almost_full
    <3>1. state' = "WAIT_FOR_EOP" /\ fifo_wr_en(in.valid)
      BY <1>1, <1>8, <2>14, <2>17 DEF state_next, fifo_wr_en
    <3>2. dropped' = dropped
      BY <1>4, <3>1
    <3>3. Writes(Word(mac'.id, 1, FALSE))
      BY <1>1, <2>3, <2>4, <2>12, <3>1 DEF Writes
    <3>4. Begin
      BY <2>15, <2>17, <3>1, <3>2, <3>3 DEF Begin
    <3>5. QED
      BY <1>2, <2>11, <2>13, <3>4
  <2>18. QED
    BY <2>16, <2>17
<1>9. CASE /\ mac.left > 0 /\ in.valid \in {"full", "part"}
           /\ mac.left # 1 => in.valid = "full"
           /\ in.word = Word(mac.id, mac.len - mac.left + 1, mac.left = 1)
           /\ in.next = [id |-> mac.id, len |-> mac.len,
                         left |-> mac.left - 1, gap |-> FALSE,
                         owed |-> mac.owed]
  <2> DEFINE j == mac.left - 1
  <2>1. j \in Nat /\ j = mac.left - 1
    BY <1>3, <1>9
  <2>2. in.next = [id |-> mac.id, len |-> mac.len, left |-> j, gap |-> FALSE,
                   owed |-> mac.owed]
    BY <1>9
  <2> HIDE DEF j
  <2>3. in.next \in Macs
    <3>1. [id |-> mac.id, len |-> mac.len, left |-> j, gap |-> FALSE,
           owed |-> mac.owed] \in Macs
      BY Zenon, <1>3, <2>1, MacType
    <3>2. QED
      BY Zenon, <2>2, <3>1
  <2>4. mac' = [id |-> mac.id, len |-> mac.len, left |-> j, gap |-> FALSE,
                owed |-> o]
    BY <1>5, <2>2, <2>3
  <2>5. in.word.last <=> mac.left = 1
    <3>1. in.word.last = (mac.left = 1)
      <4> DEFINE b == mac.left = 1
                 k == mac.len - mac.left + 1
      <4>1. in.word = [end |-> FALSE, id |-> mac.id, nth |-> k, last |-> b]
        BY Zenon, <1>9 DEF Word
      <4> HIDE DEF b, k
      <4>2. in.word.last = b
        BY <4>1
      <4>3. QED
        BY <4>2 DEF b
    <3>2. QED
      BY Zenon, <3>1
  <2>6. /\ mac.left = 1 => o = mac.id
        /\ mac.left # 1 /\ verdict => o = None
        /\ mac.left # 1 /\ ~verdict => o = mac.owed
    BY <1>6, <2>2, <2>5
  <2>7. o \in Ids \cup {None}
    BY <1>3, <2>6
  <2>8. mac' \in Macs
    BY Zenon, <1>3, <2>1, <2>4, <2>7, MacType
  <2>9. /\ SameFrame /\ mac'.left = mac.left - 1 /\ ~mac'.gap
        /\ mac'.owed = o
    BY <2>1, <2>4 DEF SameFrame
  <2>10. Owes(verdict)
    BY <1>1, <2>5, <2>6, <2>9 DEF Owes
  <2>11. Further
    BY <1>9, <2>9 DEF Further
  <2>12. state = "WAIT_FOR_EOP" \/ state = "DROP"
    BY <1>3, <1>9 DEF Types, Framing
  <2>13. CASE state = "WAIT_FOR_EOP"
    <3>1. state' = "WAIT_FOR_EOP" /\ fifo_wr_en(in.valid)
      BY <1>1, <1>9, <2>13 DEF state_next, fifo_wr_en
    <3>2. dropped' = dropped
      BY <1>4, <3>1
    <3>3. Writes(Word(mac.id, mac.len - mac.left + 1, mac.left = 1))
      BY Zenon, <1>1, <1>9, <2>2, <2>3, <2>9, <3>1 DEF Writes, SameFrame
    <3>4. More
      BY Zenon, <2>11, <2>13, <3>1, <3>2, <3>3 DEF More
    <3>5. QED
      BY <1>2, <2>8, <2>10, <3>4
  <2>14. CASE state = "DROP"
    <3>1. ~fifo_wr_en(in.valid)
      BY <2>14 DEF fifo_wr_en
    <3>2. state' = "DROP" \/ (state' = "IDLE" /\ mac'.left = 0)
      BY <1>1, <1>3, <1>9, <2>9, <2>14 DEF state_next
    <3>3. dropped' = dropped
      BY <1>4, <2>14
    <3>4. Keeps
      BY <1>1, <3>1 DEF Keeps
    <3>5. Skip
      BY Zenon, <2>11, <2>14, <3>2, <3>3, <3>4 DEF Skip
    <3>6. QED
      BY <1>2, <2>8, <2>10, <3>5
  <2>15. QED
    BY <2>12, <2>13, <2>14
<1>10. QED
  BY Zenon, <1>7, <1>8, <1>9, InputKinds

-----------------------------------------------------------------------------
(* The FIFOs are empty and no frame has come.                              *)
LEMMA InitInv == Init => IInv
<1> SUFFICES ASSUME Init PROVE IInv
  OBVIOUS
<1> USE SizeAssumption
<1>1. /\ mac.left = 0 /\ mac.gap /\ mac.owed = None
      /\ state = "IDLE" /\ rx_fifo = << >> /\ info_fifo = << >>
      /\ err_state = "ERR_BUBBLE" /\ tdata = None /\ ~dropped /\ lost = 0
  BY DEF Init
<1>2. Types
  <2>1. /\ rx_fifo \in Seq(Words) /\ Len(rx_fifo) = 0
        /\ info_fifo \in Seq([id : Ids, bad : BOOLEAN])
        /\ Len(info_fifo) = 0
    BY <1>1
  <2>2. mac \in Macs
    <3>1. 0 \in Ids /\ 0 \in Nat
      BY DEF Ids
    <3>2. QED
      BY Zenon, <3>1, MacType DEF Init
  <2>3. Len(rx_fifo) <= DEPTH /\ Len(info_fifo) <= INFO_DEPTH
    BY <2>1
  <2>4. QED
    BY Zenon, <1>1, <2>1, <2>2, <2>3 DEF Types
<1>3. Flag
  BY DEF Init, Flag
<1>4. Framing /\ Room /\ NoWordLost /\ Reading
  BY <1>1 DEF Framing, Room, NoWordLost, Reading
<1>5. Chain
  <2>1. Len(rx_fifo) = 0 /\ Newest = None
    BY <1>1 DEF Newest
  <2>2. QED
    BY <1>1, <2>1 DEF Chain
<1>6. Ends = {} /\ Cardinality(Ends) = 0
  <2>1. Ends = {}
    BY <1>1 DEF Ends
  <2>2. QED
    BY <2>1, FS_EmptySet
<1>7. Owing /\ VerdictIsOwn
  BY <1>1, <1>6 DEF Owing, VerdictIsOwn, Ends, EndsIn, LastIsNewest
<1>8. QED
  BY <1>2, <1>3, <1>4, <1>5, <1>7 DEF IInv

(* What writing a word does: it is appended, or lost and noted.            *)
LEMMA WriteEffect ==
  ASSUME Types, NEW w \in Words, Writes(w), mac'.len \in Lens
  PROVE  /\ rx_fifo' \in Seq(Words) /\ Len(rx_fifo') <= DEPTH
         /\ Len(rx_fifo) \in Nat /\ Len(rx_fifo') <= Len(rx_fifo) + 1
         /\ lost' \in {0} \cup Lens
         /\ Len(rx_fifo) # DEPTH => lost' = lost
         /\ Len(rx_fifo) = DEPTH => lost' = mac'.len
         /\ lost' = 0 => lost = 0 /\ rx_fifo' = Append(rx_fifo, w)
<1> USE SizeAssumption
<1>1. rx_fifo \in Seq(Words) /\ Len(rx_fifo) \in Nat /\ Len(rx_fifo) <= DEPTH
  BY DEF Types
<1>2. CASE Len(rx_fifo) = DEPTH
  <2>1. rx_fifo' = rx_fifo /\ lost' = mac'.len
    BY <1>1, <1>2 DEF Writes, Push
  <2>2. lost' # 0
    BY <2>1
  <2>3. QED
    BY <1>1, <1>2, <2>1, <2>2
<1>3. CASE Len(rx_fifo) # DEPTH
  <2>1. rx_fifo' = Append(rx_fifo, w) /\ lost' = lost
    BY <1>1, <1>3 DEF Writes, Push
  <2>2. rx_fifo' \in Seq(Words) /\ Len(rx_fifo') = Len(rx_fifo) + 1
    BY <1>1, <2>1
  <2>3. lost \in {0} \cup Lens
    BY DEF Types
  <2>4. QED
    BY <1>1, <1>3, <2>1, <2>2, <2>3
<1>4. QED
  BY <1>2, <1>3

(* A word that follows the newest one keeps the words in order.            *)
LEMMA WriteKeepsChain ==
  ASSUME Types, Chain, lost = 0, NEW w \in Words, Follows(Newest, w),
         rx_fifo' = Append(rx_fifo, w), UNCHANGED tdata
  PROVE  /\ rx_fifo' # << >> /\ Follows(tdata', rx_fifo'[1])
         /\ \A i \in 1 .. Len(rx_fifo') - 1 :
              Follows(rx_fifo'[i], rx_fifo'[i + 1])
         /\ Newest' = w
<1>1. /\ rx_fifo \in Seq(Words) /\ Len(rx_fifo) \in Nat
      /\ rx_fifo' \in Seq(Words) /\ Len(rx_fifo') = Len(rx_fifo) + 1
      /\ \A i \in 1 .. Len(rx_fifo) : rx_fifo'[i] = rx_fifo[i]
      /\ rx_fifo'[Len(rx_fifo) + 1] = w
  BY DEF Types
<1>2. rx_fifo' # << >>
  BY <1>1, EmptyFifo
<1>3. Newest' = w
  BY <1>1, <1>2 DEF Newest
<1>4. Follows(tdata', rx_fifo'[1])
  <2>1. CASE rx_fifo = << >>
    <3>1. rx_fifo'[1] = w
      BY <1>1, <2>1
    <3>2. Newest = tdata
      BY <2>1 DEF Newest
    <3>3. QED
      BY <3>1, <3>2
  <2>2. CASE rx_fifo # << >>
    <3>1. Len(rx_fifo) # 0
      BY <1>1, <2>2, EmptyFifo
    <3>2. rx_fifo'[1] = rx_fifo[1]
      BY <1>1, <3>1
    <3>3. QED
      BY <2>2, <3>2 DEF Chain
  <2>3. QED
    BY <2>1, <2>2
<1>5. ASSUME NEW i \in 1 .. Len(rx_fifo') - 1
      PROVE  Follows(rx_fifo'[i], rx_fifo'[i + 1])
  <2>1. CASE i = Len(rx_fifo)
    <3>1. rx_fifo # << >>
      BY <1>1, <2>1, EmptyFifo
    <3>2. rx_fifo'[i] = Newest /\ rx_fifo'[i + 1] = w
      BY <1>1, <2>1, <3>1 DEF Newest
    <3>3. QED
      BY <3>2
  <2>2. CASE i # Len(rx_fifo)
    <3>1. /\ rx_fifo'[i] = rx_fifo[i] /\ rx_fifo'[i + 1] = rx_fifo[i + 1]
          /\ i \in 1 .. Len(rx_fifo) - 1
      BY <1>1, <2>2
    <3>2. QED
      BY <3>1 DEF Chain
  <2>3. QED
    BY <2>1, <2>2
<1>6. QED
  BY <1>2, <1>3, <1>4, <1>5

(* Writing leaves the head of rx_fifo to the read side.                    *)
LEMMA WriteKeepsReading ==
  ASSUME Types, Reading, NEW w \in Words,
         rx_fifo' = rx_fifo \/ rx_fifo' = Append(rx_fifo, w),
         UNCHANGED <<err_state, tdata>>, lost' = 0 => lost = 0
  PROVE  Reading'
<1>1. rx_fifo \in Seq(Words)
  BY DEF Types
<1>2. rx_fifo # << >> => rx_fifo' # << >> /\ rx_fifo'[1] = rx_fifo[1]
  <2>1. SUFFICES ASSUME rx_fifo # << >>, rx_fifo' = Append(rx_fifo, w)
                 PROVE  rx_fifo' # << >> /\ rx_fifo'[1] = rx_fifo[1]
    OBVIOUS
  <2>2. /\ rx_fifo' \in Seq(Words) /\ Len(rx_fifo) \in Nat
        /\ Len(rx_fifo) # 0 /\ Len(rx_fifo') = Len(rx_fifo) + 1
    BY <1>1, <2>1, EmptyFifo
  <2>3. rx_fifo' # << >>
    BY <2>2, EmptyFifo
  <2>4. rx_fifo'[1] = rx_fifo[1]
    BY <1>1, <2>1, <2>2
  <2>5. QED
    BY <2>3, <2>4
<1>3. QED
  BY <1>2 DEF Reading

(* The parts of the invariant that an edge of the MAC's clock can disturb, *)
(* but for the verdicts.                                                   *)
Written ==
  /\ state \in {"IDLE", "WAIT_FOR_EOP", "DROP"}
  /\ rx_fifo \in Seq(Words) /\ Len(rx_fifo) <= DEPTH
  /\ lost \in {0} \cup Lens
  /\ Flag /\ Framing /\ Room /\ NoWordLost /\ Chain /\ Reading

(* Facts about the MAC that hold before and after each edge.               *)
LEMMA MacFacts ==
  ASSUME IInv, mac' \in Macs
  PROVE  /\ mac.id \in Ids /\ mac.len \in {0} \cup Lens /\ mac.left \in Nat
         /\ mac.len \in Nat /\ mac'.id \in Ids /\ mac'.len \in Nat
         /\ mac'.left \in Nat
         /\ Len(rx_fifo) \in Nat /\ rx_fifo \in Seq(Words)
<1>1. /\ mac.id \in Ids /\ mac.len \in {0} \cup Lens /\ mac.left \in Nat
      /\ mac'.id \in Ids /\ mac'.len \in {0} \cup Lens /\ mac'.left \in Nat
  BY MacFields DEF IInv, Types
<1>2. rx_fifo \in Seq(Words)
  BY DEF IInv, Types
<1>3. mac.len \in Nat /\ mac'.len \in Nat
  <2>1. {0} \cup Lens \subseteq Nat
    BY SizeAssumption
  <2>2. QED
    BY <1>1, <2>1
<1>4. Len(rx_fifo) \in Nat
  BY <1>2
<1>5. QED
  BY <1>1, <1>2, <1>3, <1>4

(* An edge that writes nothing.                                            *)
LEMMA NothingWritten ==
  ASSUME IInv, mac' \in Macs, UNCHANGED <<err_state, tdata>>,
         Rest \/ Refuse \/ Skip
  PROVE  Written'
<1> USE SizeAssumption
<1>1. /\ mac.left \in Nat /\ mac'.left \in Nat /\ mac.len \in Nat
      /\ mac'.len \in Nat
  BY MacFacts
<1>2. /\ Keeps /\ state # "WAIT_FOR_EOP" /\ state' \in {"IDLE", "DROP"}
  BY DEF Rest, Refuse, Skip, Fresh
<1>3. UNCHANGED <<rx_fifo, lost>>
  BY <1>2 DEF Keeps
<1>4. Newest' = Newest
  BY <1>3 DEF Newest
<1>5. Chain' /\ Room' /\ NoWordLost' /\ Reading'
  <2>1. Chain'
    BY <1>2, <1>3, <1>4 DEF IInv, Chain
  <2>2. Room' /\ NoWordLost'
    BY <1>2, <1>3 DEF IInv, Room, NoWordLost
  <2>3. Reading'
    BY <1>3 DEF IInv, Reading
  <2>4. QED
    BY <2>1, <2>2, <2>3
<1>6. Flag' /\ Framing'
  <2>1. CASE Rest
    <3>1. dropped' = dropped /\ state' = "IDLE" /\ mac'.left = 0 /\ mac'.gap
      BY <2>1 DEF Rest
    <3>2. Flag'
      BY Zenon, <3>1 DEF IInv, Flag
    <3>3. Framing'
      BY <3>1 DEF Framing
    <3>4. QED
      BY <3>2, <3>3
  <2>2. CASE Refuse
    <3>1. /\ dropped' = TRUE /\ state' = "DROP" /\ ~mac'.gap /\ mac'.len \in Lens
          /\ mac'.left = mac'.len - 1
      BY <2>2 DEF Refuse, Fresh
    <3>2. Flag'
      BY Zenon, <3>1 DEF Flag
    <3>3. Framing'
      BY <1>1, <3>1 DEF Framing
    <3>4. QED
      BY <3>2, <3>3
  <2>3. CASE Skip
    <3>1. /\ dropped' = dropped /\ mac.left > 0 /\ mac'.left = mac.left - 1
          /\ ~mac'.gap /\ mac'.len = mac.len /\ state = "DROP"
          /\ state' = "DROP" \/ (state' = "IDLE" /\ mac'.left = 0)
      BY <2>3 DEF Skip, Further, SameFrame
    <3>2. Flag'
      BY Zenon, <3>1 DEF IInv, Flag
    <3>3. dropped /\ mac.len \in Lens /\ mac.left < mac.len
      BY <1>1, <3>1 DEF IInv, Framing
    <3>4. dropped'
      BY Zenon, <3>1, <3>3
    <3>5. Framing'
      BY <1>1, <3>1, <3>3, <3>4 DEF Framing
    <3>6. QED
      BY <3>2, <3>5
  <2>4. QED
    BY <2>1, <2>2, <2>3
<1>7. QED
  BY <1>2, <1>3, <1>5, <1>6 DEF Written, IInv, Types

(* The first word of a frame: almost full leaves room for more.            *)
LEMMA BeginWritten ==
  ASSUME IInv, mac' \in Macs, UNCHANGED <<err_state, tdata>>, Begin
  PROVE  Written'
<1> USE SizeAssumption
<1> DEFINE w == Word(mac'.id, 1, FALSE)
<1>1. /\ mac'.left \in Nat /\ mac'.len \in Nat /\ mac'.id \in Ids
      /\ Len(rx_fifo) \in Nat
  BY MacFacts
<1>2. /\ state' = "WAIT_FOR_EOP" /\ state = "IDLE" /\ ~mac'.gap
      /\ mac'.len \in Lens /\ mac'.left = mac'.len - 1
      /\ Writes(w) /\ dropped' = dropped /\ ~fifo_almost_full
  BY Zenon DEF Begin, Fresh
<1>3. Len(rx_fifo) < DEPTH - ALMOST_FULL_OFFSET
  BY <1>1, <1>2 DEF fifo_almost_full
<1>4. w \in Words /\ w.id = mac'.id
  <2>1. 1 \in Nat /\ mac'.id \in Ids
    BY <1>1
  <2>2. w \in Words
    BY Zenon, <2>1 DEF Word, Words
  <2>3. w.id = mac'.id
    BY Zenon DEF Word
  <2>4. QED
    BY Zenon, <2>2, <2>3
<1>5. w = Word(w.id, 1, FALSE)
  BY <1>4
<1> HIDE DEF w
<1>6. /\ rx_fifo' \in Seq(Words) /\ Len(rx_fifo') <= DEPTH
      /\ Len(rx_fifo') <= Len(rx_fifo) + 1
      /\ lost' \in {0} \cup Lens /\ Len(rx_fifo') \in Nat
      /\ Len(rx_fifo) # DEPTH => lost' = lost
      /\ lost' = 0 => lost = 0 /\ rx_fifo' = Append(rx_fifo, w)
  BY <1>2, <1>4, WriteEffect DEF IInv
<1>7. Flag'
  BY Zenon, <1>2 DEF IInv, Flag
<1>8. Framing'
  BY <1>1, <1>2 DEF Framing
<1>9. Room'
  BY <1>1, <1>2, <1>3, <1>6 DEF Room
<1>10. NoWordLost'
  BY <1>1, <1>3, <1>6 DEF IInv, NoWordLost
<1>11. Chain'
  <2>1. SUFFICES ASSUME lost' = 0 PROVE Chain'
    BY DEF Chain
  <2>2. Follows(Newest, w)
    BY Zenon, <1>2, <1>5, <1>6, <2>1 DEF IInv, Chain, Follows
  <2>3. /\ rx_fifo' # << >> /\ Follows(tdata', rx_fifo'[1])
        /\ \A i \in 1 .. Len(rx_fifo') - 1 :
             Follows(rx_fifo'[i], rx_fifo'[i + 1])
        /\ Newest' = w
    BY <1>4, <1>6, <2>1, <2>2, WriteKeepsChain DEF IInv
  <2>4. w = Word(mac'.id, mac'.len - mac'.left, mac'.left = 0)
    <3>1. mac'.len - mac'.left = 1
      BY <1>1, <1>2
    <3>2. (mac'.left = 0) = FALSE
      BY <1>1, <1>2
    <3>3. QED
      BY Zenon, <3>1, <3>2 DEF w
  <2>5. QED
    BY Zenon, <1>2, <2>3, <2>4 DEF Chain
<1>12. Reading'
  <2>1. rx_fifo' = rx_fifo \/ rx_fifo' = Append(rx_fifo, w)
    BY <1>2 DEF Writes, Push
  <2>2. QED
    BY <1>4, <1>6, <2>1, WriteKeepsReading DEF IInv
<1>13. QED
  BY <1>2, <1>6, <1>7, <1>8, <1>9, <1>10, <1>11, <1>12 DEF Written

(* A further word of a frame: it is lost only when the frame is longer     *)
(* than the almost-full mark leaves room for.                              *)
LEMMA MoreWritten ==
  ASSUME IInv, mac' \in Macs, UNCHANGED <<err_state, tdata>>, More
  PROVE  Written'
<1> USE SizeAssumption
<1> DEFINE k == mac.len - mac.left + 1
           b == mac.left = 1
           w == Word(mac.id, k, b)
<1>1. /\ mac'.left \in Nat /\ mac'.len \in Nat /\ mac.id \in Ids
      /\ Len(rx_fifo) \in Nat /\ mac.left \in Nat /\ mac.len \in Nat
  BY MacFacts
<1>2. /\ state' = "WAIT_FOR_EOP" /\ state = "WAIT_FOR_EOP" /\ ~mac'.gap
      /\ mac.left > 0 /\ mac'.left = mac.left - 1
      /\ mac'.id = mac.id /\ mac'.len = mac.len
      /\ Writes(w) /\ dropped' = dropped
  BY Zenon DEF More, Further, SameFrame
<1>3. mac.len \in Lens /\ mac.left < mac.len
  BY <1>1, <1>2 DEF IInv, Framing
<1>4. k \in Nat /\ k = mac.len - mac.left + 1 /\ k = mac'.len - mac'.left
  BY <1>1, <1>2, <1>3
<1>5. b \in BOOLEAN /\ (b <=> mac.left = 1) /\ b = (mac'.left = 0)
  <2>1. mac.left = 1 <=> mac'.left = 0
    BY <1>1, <1>2
  <2>2. QED
    BY Zenon, <2>1
<1> HIDE DEF b, k
<1>6. w \in Words /\ w.last = b /\ w.nth = k
  <2>1. w \in Words
    BY <1>1, <1>4, <1>5, WordFields
  <2>2. w.last = b /\ w.nth = k
    BY Zenon DEF Word
  <2>3. QED
    BY <2>1, <2>2
<1>7. w = Word(mac.id, k, w.last)
  BY Zenon, <1>6
<1>8. w = Word(mac'.id, mac'.len - mac'.left, mac'.left = 0)
  BY Zenon, <1>2, <1>4, <1>5
<1> HIDE DEF w
<1>9. /\ rx_fifo' \in Seq(Words) /\ Len(rx_fifo') <= DEPTH
      /\ Len(rx_fifo') <= Len(rx_fifo) + 1
      /\ lost' \in {0} \cup Lens /\ Len(rx_fifo') \in Nat
      /\ Len(rx_fifo) # DEPTH => lost' = lost
      /\ Len(rx_fifo) = DEPTH => lost' = mac'.len
      /\ lost' = 0 => lost = 0 /\ rx_fifo' = Append(rx_fifo, w)
  BY <1>2, <1>3, <1>6, WriteEffect DEF IInv
<1>10. Len(rx_fifo) < DEPTH - ALMOST_FULL_OFFSET + (mac.len - mac.left)
  BY <1>2 DEF IInv, Room
<1>11. Flag'
  BY Zenon, <1>2 DEF IInv, Flag
<1>12. Framing'
  <2>1. mac'.left < mac'.len /\ mac'.len \in Lens
    BY <1>1, <1>2, <1>3
  <2>2. QED
    BY <1>2, <2>1 DEF Framing
<1>13. Room'
  <2>1. mac'.len - mac'.left = (mac.len - mac.left) + 1
    BY <1>1, <1>2
  <2>2. Len(rx_fifo') \in Nat /\ Len(rx_fifo') <= Len(rx_fifo) + 1
    BY <1>9
  <2>3. Len(rx_fifo') < DEPTH - ALMOST_FULL_OFFSET + (mac'.len - mac'.left)
    BY <1>1, <1>10, <2>1, <2>2
  <2>4. QED
    BY Zenon, <2>3 DEF Room
<1>14. NoWordLost'
  <2>1. CASE Len(rx_fifo) = DEPTH
    <3>1. mac.len > ALMOST_FULL_OFFSET
      BY <1>1, <1>2, <1>10, <2>1
    <3>2. QED
      BY <1>2, <1>9, <2>1, <3>1 DEF NoWordLost
  <2>2. CASE Len(rx_fifo) # DEPTH
    BY <1>9, <2>2 DEF IInv, NoWordLost
  <2>3. QED
    BY <2>1, <2>2
<1>15. Chain'
  <2>1. SUFFICES ASSUME lost' = 0 PROVE Chain'
    BY DEF Chain
  <2>2. Newest = Word(mac.id, mac.len - mac.left, mac.left = 0)
    BY Zenon, <1>2, <1>9, <2>1 DEF IInv, Chain
  <2>3. Follows(Newest, w)
    <3> DEFINE n == mac.len - mac.left
               l == mac.left = 0
    <3>1. n \in Nat /\ l \in BOOLEAN /\ ~l /\ k = n + 1
      BY <1>1, <1>2, <1>3, <1>4
    <3>2. Newest = Word(mac.id, n, l)
      BY <2>2
    <3> HIDE DEF n, l
    <3>3. /\ Newest \in Words /\ ~Newest.end /\ ~Newest.last
          /\ Newest.id = mac.id /\ Newest.nth = n
      BY <1>1, <3>1, <3>2, WordFields
    <3>4. Newest # None
      BY <3>3, NoneAssumption
    <3>5. w.last => w.nth \in Lens
      <4>1. b => k = mac.len
        BY <1>1, <1>4, <1>5
      <4>2. QED
        BY Zenon, <1>3, <1>6, <4>1
    <3>6. QED
      BY Zenon, <1>7, <3>1, <3>3, <3>4, <3>5 DEF Follows
  <2>4. /\ rx_fifo' # << >> /\ Follows(tdata', rx_fifo'[1])
        /\ \A i \in 1 .. Len(rx_fifo') - 1 :
             Follows(rx_fifo'[i], rx_fifo'[i + 1])
        /\ Newest' = w
    BY <1>6, <1>9, <2>1, <2>3, WriteKeepsChain DEF IInv
  <2>5. QED
    BY Zenon, <1>2, <1>8, <2>4 DEF Chain
<1>16. Reading'
  <2>1. rx_fifo' = rx_fifo \/ rx_fifo' = Append(rx_fifo, w)
    BY <1>2 DEF Writes, Push
  <2>2. QED
    BY <1>6, <1>9, <2>1, WriteKeepsReading DEF IInv
<1>17. QED
  BY <1>2, <1>9, <1>11, <1>12, <1>13, <1>14, <1>15, <1>16 DEF Written

(* The end mark of a frame.                                                *)
LEMMA MarkWritten ==
  ASSUME IInv, mac' \in Macs, UNCHANGED <<err_state, tdata>>, Mark
  PROVE  Written'
<1> USE SizeAssumption
<1> DEFINE w == EndMark(mac.id)
<1>1. /\ mac'.left \in Nat /\ mac'.len \in Nat /\ mac.id \in Ids
      /\ Len(rx_fifo) \in Nat /\ mac.left \in Nat /\ mac.len \in Nat
  BY MacFacts
<1>2. /\ state' = "IDLE" /\ state = "WAIT_FOR_EOP" /\ mac'.gap
      /\ mac.left = 0 /\ mac'.left = 0
      /\ mac'.id = mac.id /\ mac'.len = mac.len
      /\ Writes(w) /\ dropped' = dropped
  BY Zenon DEF Mark, SameFrame
<1>3. mac.len \in Lens
  BY <1>2 DEF IInv, Framing
<1>4. w \in Words /\ w.end
  <2>1. 1 \in Nat /\ FALSE \in BOOLEAN
    OBVIOUS
  <2>2. QED
    BY <1>1, <2>1, WordFields
<1>5. w = EndMark(mac.id)
  OBVIOUS
<1> HIDE DEF w
<1>6. /\ rx_fifo' \in Seq(Words) /\ Len(rx_fifo') <= DEPTH
      /\ lost' \in {0} \cup Lens
      /\ Len(rx_fifo) # DEPTH => lost' = lost
      /\ Len(rx_fifo) = DEPTH => lost' = mac'.len
      /\ lost' = 0 => lost = 0 /\ rx_fifo' = Append(rx_fifo, w)
  BY <1>2, <1>3, <1>4, WriteEffect DEF IInv
<1>7. Len(rx_fifo) < DEPTH - ALMOST_FULL_OFFSET + (mac.len - mac.left)
  BY <1>2 DEF IInv, Room
<1>8. Flag'
  BY Zenon, <1>2 DEF IInv, Flag
<1>9. Framing' /\ Room'
  BY <1>2 DEF Framing, Room
<1>10. NoWordLost'
  <2>1. CASE Len(rx_fifo) = DEPTH
    <3>1. mac.len > ALMOST_FULL_OFFSET
      BY <1>1, <1>2, <1>7, <2>1
    <3>2. QED
      BY <1>2, <1>6, <2>1, <3>1 DEF NoWordLost
  <2>2. CASE Len(rx_fifo) # DEPTH
    BY <1>6, <2>2 DEF IInv, NoWordLost
  <2>3. QED
    BY <2>1, <2>2
<1>11. Chain'
  <2>1. SUFFICES ASSUME lost' = 0 PROVE Chain'
    BY DEF Chain
  <2>2. Newest = Word(mac.id, mac.len - mac.left, mac.left = 0)
    BY Zenon, <1>2, <1>6, <2>1 DEF IInv, Chain
  <2>3. Follows(Newest, w)
    <3> DEFINE n == mac.len - mac.left
               l == mac.left = 0
    <3>1. n \in Nat /\ l \in BOOLEAN /\ l
      BY <1>1, <1>2
    <3>2. Newest = Word(mac.id, n, l)
      BY <2>2
    <3> HIDE DEF n, l
    <3>3. /\ Newest \in Words /\ ~Newest.end /\ Newest.last
          /\ Newest.id = mac.id
      <4>1. mac.id \in Ids
        BY <1>1
      <4>2. Newest \in Words
        BY Zenon, <3>1, <3>2, <4>1 DEF Word, Words
      <4>3. ~Newest.end /\ Newest.last /\ Newest.id = mac.id
        BY Zenon, <3>1, <3>2 DEF Word
      <4>4. QED
        BY Zenon, <4>2, <4>3
    <3>4. Newest # None
      BY <3>3, NoneAssumption
    <3>5. QED
      BY Zenon, <1>5, <3>3, <3>4 DEF Follows
  <2>4. /\ rx_fifo' # << >> /\ Follows(tdata', rx_fifo'[1])
        /\ \A i \in 1 .. Len(rx_fifo') - 1 :
             Follows(rx_fifo'[i], rx_fifo'[i + 1])
        /\ Newest' = w
    BY <1>4, <1>6, <2>1, <2>3, WriteKeepsChain DEF IInv
  <2>5. QED
    BY Zenon, <1>2, <1>4, <2>4 DEF Chain
<1>12. Reading'
  <2>1. rx_fifo' = rx_fifo \/ rx_fifo' = Append(rx_fifo, w)
    BY <1>2 DEF Writes, Push
  <2>2. QED
    BY <1>4, <1>6, <2>1, WriteKeepsReading DEF IInv
<1>13. QED
  BY <1>2, <1>6, <1>8, <1>9, <1>10, <1>11, <1>12 DEF Written

-----------------------------------------------------------------------------
(* VerdictIsOwn, as a relation of the contents of the two FIFOs.           *)
LEMMA OwnIsPaired ==
  /\ VerdictIsOwn <=> (~dropped /\ lost = 0 => Paired(rx_fifo, info_fifo))
  /\ VerdictIsOwn' <=>
       (~dropped' /\ lost' = 0 => Paired(rx_fifo', info_fifo'))
BY Zenon DEF VerdictIsOwn, Paired, Ends, EndsUpTo, EndsIn, UpTo

(* There are never more end marks than rx_info_fifo has entries.           *)
LEMMA VerdictsFit ==
  ASSUME NEW s \in Seq(Words), Len(s) <= DEPTH,
         \A i \in 1 .. Len(s) - 1 : Follows(s[i], s[i + 1])
  PROVE  Cardinality(EndsIn(s)) <= INFO_DEPTH
<1>1. /\ EndsIn(s) \in SUBSET (1 .. Len(s)) /\ Len(s) \in Nat
      /\ Cardinality(EndsIn(s)) \in Nat /\ IsFiniteSet(EndsIn(s))
  BY EndsAreFew, Positions
<1>2. CASE \E i, j \in EndsIn(s) : i < j
  <2>1. PICK l \in Lens : TRUE
    BY <1>2, FrameBetween
  <2>2. Lens \in SUBSET Nat
    BY SizeAssumption
  <2>3. PICK m \in Lens : \A n \in Lens : m <= n
    BY <2>1, <2>2, Least
  <2>4. m \in Nat
    BY <2>2
  <2> DEFINE k == m + 1
  <2>5. k \in Nat \ {0} /\ DEPTH <= k * INFO_DEPTH
    BY <2>4, InfoAssumption
  <2>6. ASSUME NEW i \in EndsIn(s), NEW j \in EndsIn(s), i < j
        PROVE  i + k <= j
    <3>1. PICK n \in Lens : i + n + 1 <= j
      BY <2>6, FrameBetween
    <3>2. /\ m <= n /\ n \in Nat /\ i \in Nat /\ j \in Nat
      BY <1>1, <2>2, <2>3
    <3>3. QED
      BY <2>4, <3>1, <3>2
  <2> HIDE DEF k
  <2>7. Len(s) <= k * INFO_DEPTH
    <3>1. k * INFO_DEPTH \in Nat /\ DEPTH \in Nat
      BY <2>5, SizeAssumption
    <3>2. QED
      BY <1>1, <2>5, <3>1
  <2>8. INFO_DEPTH \in Nat
    BY SizeAssumption
  <2>9. QED
    BY <1>1, <2>5, <2>6, <2>7, <2>8, Spaced
<1>3. CASE ~(\E i, j \in EndsIn(s) : i < j)
  <2>1. \A i, j \in EndsIn(s) : i = j
    BY <1>1, <1>3
  <2>2. Cardinality(EndsIn(s)) <= 1
    <3>1. CASE EndsIn(s) = {}
      BY <3>1, FS_EmptySet
    <3>2. CASE EndsIn(s) # {}
      <4>1. PICK i \in EndsIn(s) : TRUE
        BY <3>2
      <4>2. EndsIn(s) = {i}
        BY <2>1
      <4>3. Cardinality({i}) = 1
        BY FS_Singleton
      <4>4. QED
        BY <4>2, <4>3
    <3>3. QED
      BY <3>1, <3>2
  <2>3. QED
    BY <1>1, <2>2, SizeAssumption
<1>4. QED
  BY <1>2, <1>3

(* A verdict, when it is given, is that on the frame it is owed for.       *)
LEMMA VerdictGiven ==
  ASSUME IInv, PushVerdict
  PROVE  /\ mac.owed # None /\ info_fifo' \in Seq(VerdictSet)
         /\ Len(info_fifo') <= INFO_DEPTH
         /\ Len(info_fifo) < INFO_DEPTH =>
              \E v \in VerdictSet : v.id = mac.owed
                                    /\ info_fifo' = Append(info_fifo, v)
<1> USE SizeAssumption
<1>1. PICK v \in Verdicts : info_fifo' = Push(info_fifo, v, INFO_DEPTH)
  BY DEF PushVerdict
<1>2. mac.owed # None /\ mac.owed \in Ids
  BY MacFields DEF PushVerdict, IInv, Types
<1>3. PICK b \in BOOLEAN : v = [id |-> mac.owed, bad |-> b]
  BY Zenon DEF Verdicts
<1>4. v \in VerdictSet /\ v.id = mac.owed
  BY Zenon, <1>2, <1>3 DEF VerdictSet
<1>5. info_fifo \in Seq(VerdictSet) /\ Len(info_fifo) <= INFO_DEPTH
  BY DEF IInv, Types, VerdictSet
<1>6. CASE Len(info_fifo) < INFO_DEPTH
  <2>1. info_fifo' = Append(info_fifo, v)
    BY <1>1, <1>6 DEF Push
  <2>2. info_fifo' \in Seq(VerdictSet) /\ Len(info_fifo') = Len(info_fifo) + 1
    BY <1>4, <1>5, <2>1
  <2>3. Len(info_fifo') <= INFO_DEPTH
    BY <1>5, <1>6, <2>2
  <2>4. QED
    BY Zenon, <1>2, <1>4, <2>1, <2>2, <2>3
<1>7. CASE ~(Len(info_fifo) < INFO_DEPTH)
  <2>1. info_fifo' = info_fifo
    BY <1>1, <1>7 DEF Push
  <2>2. QED
    BY <1>2, <1>5, <1>7, <2>1
<1>8. QED
  BY <1>6, <1>7

(* After an edge of the MAC's clock each verdict is with its end mark.     *)
LEMMA MacVerdict ==
  ASSUME IInv, NEW verdict \in BOOLEAN, MacEdge(verdict), Written',
         verdict => PushVerdict, ~verdict => info_fifo' = info_fifo
  PROVE  Owing' /\ VerdictIsOwn'
<1> USE SizeAssumption
<1>1. /\ mac' \in Macs /\ Owes(verdict)
      /\ Mark \/ Rest \/ Begin \/ Refuse \/ More \/ Skip
  BY MacEdgeKinds DEF IInv
<1>2. SUFFICES ASSUME ~dropped', lost' = 0
               PROVE  /\ Paired(rx_fifo', info_fifo')
                      /\ mac'.owed = None \/ LastIsNewest' =>
                           Len(info_fifo') = Cardinality(EndsIn(rx_fifo'))
                      /\ LastIsNewest' => mac'.owed = mac'.id
                      /\ mac'.owed # None /\ ~LastIsNewest' =>
                           /\ Len(info_fifo') + 1
                                = Cardinality(EndsIn(rx_fifo'))
                           /\ LastIs(rx_fifo', mac'.owed)
  BY Zenon, OwnIsPaired DEF Owing
<1>3. /\ mac.left \in Nat /\ mac'.left \in Nat /\ mac.len \in Nat
      /\ mac'.len \in Nat /\ mac.id \in Ids /\ mac'.id \in Ids
      /\ Len(rx_fifo) \in Nat /\ rx_fifo \in Seq(Words)
  BY <1>1, MacFacts
<1>4. ~Refuse /\ ~Skip /\ ~dropped
  <2>1. ~Refuse
    BY Zenon, <1>2 DEF Refuse
  <2>2. dropped' = dropped
    BY <1>1, <2>1 DEF Mark, Rest, Begin, More, Skip
  <2>3. ~dropped
    BY Zenon, <1>2, <2>2
  <2>4. ~Skip
    BY <2>3 DEF Skip, IInv, Framing
  <2>5. QED
    BY <2>1, <2>3, <2>4
<1>5. info_fifo \in Seq(VerdictSet)
  BY DEF IInv, Types, VerdictSet
<1>6. /\ Cardinality(EndsIn(rx_fifo)) \in Nat /\ Len(info_fifo) \in Nat
  BY <1>3, <1>5, EndsAreFew
<1>7. ASSUME lost = 0
      PROVE  /\ Paired(rx_fifo, info_fifo)
             /\ Cardinality(EndsIn(rx_fifo)) <= INFO_DEPTH
             /\ mac.owed = None \/ LastIsNewest =>
                  Len(info_fifo) = Cardinality(EndsIn(rx_fifo))
             /\ LastIsNewest => mac.owed = mac.id
             /\ mac.owed # None /\ ~LastIsNewest =>
                  /\ Len(info_fifo) + 1 = Cardinality(EndsIn(rx_fifo))
                  /\ LastIs(rx_fifo, mac.owed)
  <2>1. Paired(rx_fifo, info_fifo)
    BY Zenon, <1>4, <1>7, OwnIsPaired DEF IInv
  <2>2. Cardinality(EndsIn(rx_fifo)) <= INFO_DEPTH
    <3>1. /\ Len(rx_fifo) <= DEPTH
          /\ \A i \in 1 .. Len(rx_fifo) - 1 :
               Follows(rx_fifo[i], rx_fifo[i + 1])
      BY <1>7 DEF IInv, Types, Chain
    <3>2. QED
      BY <1>3, <3>1, VerdictsFit
  <2>3. QED
    BY Zenon, <1>4, <1>7, <2>1, <2>2 DEF IInv, Owing
<1>8. CASE Mark
  <2> DEFINE w == EndMark(mac.id)
  <2>1. /\ state' = "IDLE" /\ state = "WAIT_FOR_EOP" /\ mac.left = 0
        /\ mac'.id = mac.id /\ mac'.len = mac.len /\ Writes(w)
    BY Zenon, <1>8 DEF Mark, SameFrame
  <2>2. mac.len \in Lens
    BY <2>1 DEF IInv, Framing
  <2>3. w \in Words /\ w.end /\ w.id = mac.id
    <3>1. 1 \in Nat /\ FALSE \in BOOLEAN
      OBVIOUS
    <3>2. QED
      BY <1>3, <3>1, WordFields
  <2> HIDE DEF w
  <2>4. lost = 0 /\ rx_fifo' = Append(rx_fifo, w)
    BY <1>2, <2>1, <2>2, <2>3, WriteEffect DEF IInv
  <2>5. LastIsNewest /\ ~LastIsNewest'
    BY <2>1 DEF LastIsNewest
  <2>6. /\ Paired(rx_fifo, info_fifo) /\ mac.owed = mac.id
        /\ Len(info_fifo) = Cardinality(EndsIn(rx_fifo))
    BY <1>7, <2>4, <2>5
  <2>7. /\ Paired(rx_fifo', info_fifo) /\ LastIs(rx_fifo', mac.id)
    BY <1>3, <1>5, <2>3, <2>4, <2>6, PairedMark
  <2>8. Cardinality(EndsIn(rx_fifo')) = Cardinality(EndsIn(rx_fifo)) + 1
    BY <1>3, <2>3, <2>4, MarkAppended
  <2>9. CASE verdict
    <3>1. mac'.owed = None
      BY <1>1, <2>1, <2>9 DEF Owes
    <3>2. Cardinality(EndsIn(rx_fifo')) <= INFO_DEPTH
      <4>1. /\ rx_fifo' \in Seq(Words) /\ Len(rx_fifo') <= DEPTH
            /\ \A i \in 1 .. Len(rx_fifo') - 1 :
                 Follows(rx_fifo'[i], rx_fifo'[i + 1])
        BY <1>2 DEF Written, Chain
      <4>2. QED
        BY <4>1, VerdictsFit
    <3>3. Len(info_fifo) < INFO_DEPTH
      BY <1>6, <2>6, <2>8, <3>2
    <3>4. PICK v \in VerdictSet : v.id = mac.owed
                                  /\ info_fifo' = Append(info_fifo, v)
      BY <2>9, <3>3, VerdictGiven
    <3>5. rx_fifo' \in Seq(Words)
      BY DEF Written
    <3>6. Len(info_fifo) + 1 = Cardinality(EndsIn(rx_fifo'))
      BY <1>6, <2>6, <2>8
    <3>7. Paired(rx_fifo', info_fifo')
      BY <1>5, <2>6, <2>7, <3>4, <3>5, <3>6, PairedVerdict
    <3>8. Len(info_fifo') = Len(info_fifo) + 1
      BY <1>5, <3>4
    <3>9. QED
      BY <2>5, <3>1, <3>6, <3>7, <3>8
  <2>10. CASE ~verdict
    <3>1. mac'.owed = mac.owed /\ info_fifo' = info_fifo
      BY <1>1, <2>1, <2>10 DEF Owes
    <3>2. mac.owed # None
      BY <1>3, <2>6, NoneAssumption
    <3>3. Len(info_fifo) + 1 = Cardinality(EndsIn(rx_fifo'))
      BY <1>6, <2>6, <2>8
    <3>4. QED
      BY <2>5, <2>6, <2>7, <3>1, <3>2, <3>3
  <2>11. QED
    BY <2>9, <2>10
<1>9. CASE Rest \/ Begin \/ More
  <2>1. /\ lost = 0 /\ ~LastIsNewest
        /\ mac.left # 1 => ~LastIsNewest'
        /\ mac.left = 1 => LastIsNewest' /\ mac'.id = mac.id
        /\ \/ rx_fifo' = rx_fifo
           \/ \E w \in Words : ~w.end /\ rx_fifo' = Append(rx_fifo, w)
    <3>1. CASE Rest
      BY <1>2, <3>1 DEF Rest, Keeps, LastIsNewest
    <3>2. CASE Begin
      <4> DEFINE w == Word(mac'.id, 1, FALSE)
      <4>1. /\ Writes(w) /\ mac'.len \in Lens
            /\ mac'.left = mac'.len - 1 /\ mac.left = 0 /\ state = "IDLE"
        BY <3>2 DEF Begin, Fresh
      <4>2. w \in Words /\ ~w.end
        <5>1. 1 \in Nat /\ FALSE \in BOOLEAN
          OBVIOUS
        <5>2. QED
          BY <1>3, <5>1, WordFields
      <4> HIDE DEF w
      <4>3. lost = 0 /\ rx_fifo' = Append(rx_fifo, w)
        BY <1>2, <4>1, <4>2, WriteEffect DEF IInv
      <4>4. mac'.left # 0
        BY <4>1
      <4>5. QED
        BY <4>1, <4>2, <4>3, <4>4 DEF LastIsNewest
    <3>3. CASE More
      <4> DEFINE k == mac.len - mac.left + 1
                 b == mac.left = 1
                 w == Word(mac.id, k, b)
      <4>1. /\ Writes(w) /\ mac.left > 0 /\ mac'.left = mac.left - 1
            /\ mac'.id = mac.id /\ mac'.len = mac.len
            /\ state = "WAIT_FOR_EOP" /\ state' = "WAIT_FOR_EOP"
        BY Zenon, <3>3 DEF More, Further, SameFrame
      <4>2. mac.len \in Lens /\ mac.left < mac.len
        BY <1>3, <4>1 DEF IInv, Framing
      <4>3. k \in Nat /\ b \in BOOLEAN
        BY <1>3, <4>1, <4>2
      <4> HIDE DEF k, b
      <4>4. w \in Words /\ ~w.end
        BY <1>3, <4>3, WordFields
      <4> HIDE DEF w
      <4>5. lost = 0 /\ rx_fifo' = Append(rx_fifo, w)
        BY <1>2, <4>1, <4>2, <4>4, WriteEffect DEF IInv
      <4>6. mac.left = 1 <=> mac'.left = 0
        BY <1>3, <4>1
      <4>7. QED
        BY <1>3, <4>1, <4>4, <4>5, <4>6 DEF LastIsNewest
    <3>4. QED
      BY <1>9, <3>1, <3>2, <3>3
  <2>2. /\ Cardinality(EndsIn(rx_fifo')) = Cardinality(EndsIn(rx_fifo))
        /\ Paired(rx_fifo, info_fifo') => Paired(rx_fifo', info_fifo')
        /\ LastIs(rx_fifo, mac.owed) => LastIs(rx_fifo', mac.owed)
    BY <1>3, <2>1, PairedWord
  <2>3. /\ Paired(rx_fifo, info_fifo')
        /\ verdict => Len(info_fifo') = Cardinality(EndsIn(rx_fifo))
    <3>1. CASE verdict
      <4>1. mac.owed # None
        BY <3>1, VerdictGiven
      <4>2. /\ Paired(rx_fifo, info_fifo) /\ LastIs(rx_fifo, mac.owed)
            /\ Len(info_fifo) + 1 = Cardinality(EndsIn(rx_fifo))
            /\ Cardinality(EndsIn(rx_fifo)) <= INFO_DEPTH
        BY <1>7, <2>1, <4>1
      <4>3. Len(info_fifo) < INFO_DEPTH
        BY <1>6, <4>2
      <4>4. PICK v \in VerdictSet : v.id = mac.owed
                                    /\ info_fifo' = Append(info_fifo, v)
        BY <3>1, <4>3, VerdictGiven
      <4>5. Paired(rx_fifo, info_fifo')
        BY <1>3, <1>5, <4>2, <4>4, PairedVerdict
      <4>6. Len(info_fifo') = Len(info_fifo) + 1
        BY <1>5, <4>4
      <4>7. QED
        BY <4>2, <4>5, <4>6
    <3>2. CASE ~verdict
      BY <1>7, <2>1, <3>2
    <3>3. QED
      BY <3>1, <3>2
  <2>4. CASE mac.left = 1
    <3>1. LastIsNewest' /\ mac'.owed = mac'.id
      BY <1>1, <2>1, <2>4 DEF Owes
    <3>2. Len(info_fifo') = Cardinality(EndsIn(rx_fifo))
      <4>1. CASE verdict
        BY <2>3, <4>1
      <4>2. CASE ~verdict
        <5>1. mac.owed = None
          BY <1>1, <2>4, <4>2 DEF Owes
        <5>2. QED
          BY <1>7, <2>1, <4>2, <5>1
      <4>3. QED
        BY <4>1, <4>2
    <3>3. QED
      BY <2>2, <2>3, <3>1, <3>2
  <2>5. CASE mac.left # 1
    <3>1. CASE verdict
      <4>1. mac'.owed = None
        BY <1>1, <2>5, <3>1 DEF Owes
      <4>2. QED
        BY <2>1, <2>2, <2>3, <2>5, <3>1, <4>1
    <3>2. CASE ~verdict
      <4>1. mac'.owed = mac.owed /\ info_fifo' = info_fifo
        BY <1>1, <2>5, <3>2 DEF Owes
      <4>2. QED
        BY <1>7, <2>1, <2>2, <2>3, <2>5, <4>1
    <3>3. QED
      BY <3>1, <3>2
  <2>6. QED
    BY <2>4, <2>5
<1>10. QED
  BY Zenon, <1>1, <1>4, <1>8, <1>9

(* An edge of the MAC's clock keeps the invariant.                         *)
LEMMA MacStep == IInv /\ MacClk => IInv' /\ UNCHANGED <<err_state, tdata>>
<1> SUFFICES ASSUME IInv, MacClk
             PROVE  IInv' /\ UNCHANGED <<err_state, tdata>>
  OBVIOUS
<1>1. PICK verdict \in BOOLEAN :
        /\ MacEdge(verdict)
        /\ verdict => PushVerdict
        /\ ~verdict => info_fifo' = info_fifo
  <2>1. CASE MacEdge(FALSE) /\ UNCHANGED info_fifo
    BY Zenon, <2>1
  <2>2. CASE MacEdge(TRUE) /\ PushVerdict
    BY Zenon, <2>2
  <2>3. QED
    BY Zenon, <2>1, <2>2 DEF MacClk
<1>2. /\ mac' \in Macs /\ UNCHANGED <<err_state, tdata>>
      /\ Mark \/ Rest \/ Begin \/ Refuse \/ More \/ Skip
  BY <1>1, MacEdgeKinds DEF IInv
<1>3. Written'
  BY <1>2, NothingWritten, BeginWritten, MoreWritten, MarkWritten
<1>4. info_fifo' \in Seq(VerdictSet) /\ Len(info_fifo') <= INFO_DEPTH
  <2>1. CASE verdict
    BY <1>1, <2>1, VerdictGiven
  <2>2. CASE ~verdict
    BY <1>1, <2>2 DEF IInv, Types, VerdictSet
  <2>3. QED
    BY <2>1, <2>2
<1>5. Owing' /\ VerdictIsOwn'
  BY <1>1, <1>3, MacVerdict
<1>6. Types'
  BY Zenon, <1>2, <1>3, <1>4 DEF IInv, Types, Written, VerdictSet
<1>7. QED
  BY <1>2, <1>3, <1>5, <1>6 DEF IInv, Written

-----------------------------------------------------------------------------
(* What a step may do to the word on the AXI side (WordsInOrder).          *)
Orderly ==
  lost = 0 =>
    /\ err_state = "ERR_BUBBLE" /\ err_state' = "ERR_IDLE" =>
         ~tdata'.end /\ tdata'.nth = 1
    /\ err_state = "ERR_IDLE" /\ tdata' # tdata =>
         tdata' = Word(tdata.id, tdata.nth + 1, tdata'.last)
    /\ err_state = "ERR_WAIT" /\ err_state' = "ERR_BUBBLE" =>
         tdata.last /\ tdata' = EndMark(tdata.id)

(* Taking the word at the head keeps the words in order and leaves the     *)
(* write side where it is.                                                 *)
LEMMA ReadKeepsChain ==
  ASSUME IInv, rx_fifo # << >>, ReadFifo, UNCHANGED <<mac, state, lost>>
  PROVE  /\ tdata' = rx_fifo[1] /\ tdata' \in Words
         /\ rx_fifo' = Tail(rx_fifo) /\ rx_fifo' \in Seq(Words)
         /\ Len(rx_fifo') <= DEPTH
         /\ lost = 0 => Follows(tdata, tdata')
         /\ Chain' /\ Room'
<1> USE SizeAssumption
<1>1. /\ rx_fifo \in Seq(Words) /\ Len(rx_fifo) \in Nat /\ Len(rx_fifo) > 0
      /\ Len(rx_fifo) <= DEPTH
      /\ tdata' = rx_fifo[1] /\ rx_fifo' = Tail(rx_fifo)
  BY DEF IInv, Types, ReadFifo
<1>2. /\ rx_fifo' \in Seq(Words) /\ Len(rx_fifo') = Len(rx_fifo) - 1
      /\ \A i \in 1 .. Len(rx_fifo') : rx_fifo'[i] = rx_fifo[i + 1]
  BY <1>1
<1>3. tdata' \in Words /\ Len(rx_fifo') <= DEPTH
  BY <1>1, <1>2
<1>4. rx_fifo' = << >> <=> Len(rx_fifo) = 1
  <2>1. rx_fifo' = << >> <=> Len(rx_fifo') = 0
    BY <1>2, EmptyFifo
  <2>2. QED
    BY <1>1, <1>2, <2>1
<1>5. lost = 0 => Follows(tdata, tdata')
  BY <1>1 DEF IInv, Chain
<1>6. Newest' = Newest
  <2>1. Newest = rx_fifo[Len(rx_fifo)]
    BY DEF Newest
  <2>2. CASE Len(rx_fifo) = 1
    BY <1>1, <1>4, <2>1, <2>2 DEF Newest
  <2>3. CASE Len(rx_fifo) # 1
    <3>1. Newest' = rx_fifo'[Len(rx_fifo')]
      BY <1>4, <2>3 DEF Newest
    <3>2. rx_fifo'[Len(rx_fifo')] = rx_fifo[Len(rx_fifo)]
      BY <1>1, <1>2, <2>3
    <3>3. QED
      BY <2>1, <3>1, <3>2
  <2>4. QED
    BY <2>2, <2>3
<1>7. Chain'
  <2>1. SUFFICES ASSUME lost' = 0 PROVE Chain'
    BY DEF Chain
  <2>2. ASSUME rx_fifo' # << >> PROVE Follows(tdata', rx_fifo'[1])
    <3>1. 1 \in 1 .. Len(rx_fifo) - 1 /\ rx_fifo'[1] = rx_fifo[1 + 1]
      BY <1>1, <1>2, <1>4, <2>2
    <3>2. Follows(rx_fifo[1], rx_fifo[1 + 1])
      BY <2>1, <3>1 DEF IInv, Chain
    <3>3. QED
      BY <1>1, <3>1, <3>2
  <2>3. ASSUME NEW i \in 1 .. Len(rx_fifo') - 1
        PROVE  Follows(rx_fifo'[i], rx_fifo'[i + 1])
    <3>1. /\ rx_fifo'[i] = rx_fifo[i + 1]
          /\ rx_fifo'[i + 1] = rx_fifo[(i + 1) + 1]
          /\ i + 1 \in 1 .. Len(rx_fifo) - 1
      BY <1>1, <1>2
    <3>2. Follows(rx_fifo[i + 1], rx_fifo[(i + 1) + 1])
      BY <2>1, <3>1 DEF IInv, Chain
    <3>3. QED
      BY <3>1, <3>2
  <2>4. /\ state' # "WAIT_FOR_EOP" => Newest' = None \/ Newest'.end
        /\ state' = "WAIT_FOR_EOP" =>
             Newest' = Word(mac'.id, mac'.len - mac'.left, mac'.left = 0)
    BY Zenon, <1>6, <2>1 DEF IInv, Chain
  <2>5. QED
    BY Zenon, <2>2, <2>3, <2>4 DEF Chain
<1>8. Room'
  <2>1. mac.len \in Nat /\ mac.left \in Nat
    <3>1. mac \in Macs /\ mac' \in Macs
      BY DEF IInv, Types
    <3>2. QED
      BY <3>1, MacFacts
  <2>2. QED
    BY <1>1, <1>2, <2>1 DEF IInv, Room
<1>9. QED
  BY <1>1, <1>2, <1>3, <1>5, <1>7, <1>8

(* Handing over a word that is no end mark leaves the verdicts alone.      *)
LEMMA WordRead ==
  ASSUME IInv, rx_fifo # << >>, ReadFifo,
         UNCHANGED <<mac, state, dropped, lost, info_fifo>>,
         lost = 0 => ~rx_fifo[1].end
  PROVE  Owing' /\ VerdictIsOwn'
<1>1. SUFFICES ASSUME ~dropped', lost' = 0
               PROVE  /\ Paired(rx_fifo', info_fifo')
                      /\ mac'.owed = None \/ LastIsNewest' =>
                           Len(info_fifo') = Cardinality(EndsIn(rx_fifo'))
                      /\ LastIsNewest' => mac'.owed = mac'.id
                      /\ mac'.owed # None /\ ~LastIsNewest' =>
                           /\ Len(info_fifo') + 1
                                = Cardinality(EndsIn(rx_fifo'))
                           /\ LastIs(rx_fifo', mac'.owed)
  BY Zenon, OwnIsPaired DEF Owing
<1>2. /\ rx_fifo \in Seq(Words) /\ rx_fifo' = Tail(rx_fifo)
      /\ info_fifo \in Seq(VerdictSet) /\ lost = 0
  BY <1>1 DEF IInv, Types, ReadFifo, VerdictSet
<1>3. ~dropped
  BY Zenon, <1>1
<1>4. LastIsNewest' <=> LastIsNewest
  BY Zenon DEF LastIsNewest
<1>5. Paired(rx_fifo, info_fifo)
  BY Zenon, <1>2, <1>3, OwnIsPaired DEF IInv
<1>6. /\ Paired(rx_fifo', info_fifo)
      /\ LastIs(rx_fifo, mac.owed) => LastIs(rx_fifo', mac.owed)
  BY <1>2, <1>5, PairedTaken
<1>7. Cardinality(EndsIn(rx_fifo')) = Cardinality(EndsIn(rx_fifo))
  <2>1. 0 \in {0, 1} /\ (rx_fifo[1].end <=> 0 = 1)
    BY <1>2
  <2>2. Cardinality(EndsIn(rx_fifo')) = Cardinality(EndsIn(rx_fifo)) - 0
    BY <1>2, <2>1, HeadTaken
  <2>3. Cardinality(EndsIn(rx_fifo)) \in Nat
    BY <1>2, EndsAreFew
  <2>4. QED
    BY <2>2, <2>3
<1>8. QED
  BY Zenon, <1>2, <1>3, <1>4, <1>6, <1>7 DEF IInv, Owing

(* Handing over the last word takes the frame's end mark and its verdict.  *)
LEMMA MarkRead ==
  ASSUME IInv, rx_fifo # << >>, ReadFifo, info_fifo # << >>,
         UNCHANGED <<mac, state, dropped, lost>>, rx_fifo[1].end,
         info_fifo' = Tail(info_fifo)
  PROVE  Owing' /\ VerdictIsOwn'
<1>1. SUFFICES ASSUME ~dropped', lost' = 0
               PROVE  /\ Paired(rx_fifo', info_fifo')
                      /\ mac'.owed = None \/ LastIsNewest' =>
                           Len(info_fifo') = Cardinality(EndsIn(rx_fifo'))
                      /\ LastIsNewest' => mac'.owed = mac'.id
                      /\ mac'.owed # None /\ ~LastIsNewest' =>
                           /\ Len(info_fifo') + 1
                                = Cardinality(EndsIn(rx_fifo'))
                           /\ LastIs(rx_fifo', mac'.owed)
  BY Zenon, OwnIsPaired DEF Owing
<1>2. /\ rx_fifo \in Seq(Words) /\ rx_fifo' = Tail(rx_fifo)
      /\ info_fifo \in Seq(VerdictSet) /\ lost = 0
  BY <1>1 DEF IInv, Types, ReadFifo, VerdictSet
<1>3. ~dropped
  BY Zenon, <1>1
<1>4. LastIsNewest' <=> LastIsNewest
  BY Zenon DEF LastIsNewest
<1>5. Paired(rx_fifo, info_fifo)
  BY Zenon, <1>2, <1>3, OwnIsPaired DEF IInv
<1>6. /\ Paired(rx_fifo', info_fifo')
      /\ LastIs(rx_fifo, mac.owed) => LastIs(rx_fifo', mac.owed)
  BY <1>2, <1>5, PairedTaken
<1>7. /\ Len(info_fifo) \in Nat /\ Len(info_fifo') = Len(info_fifo) - 1
  BY <1>2
<1>8. /\ Cardinality(EndsIn(rx_fifo')) = Cardinality(EndsIn(rx_fifo)) - 1
      /\ Cardinality(EndsIn(rx_fifo)) \in Nat
  <2>1. 1 \in {0, 1} /\ (rx_fifo[1].end <=> 1 = 1)
    OBVIOUS
  <2>2. Cardinality(EndsIn(rx_fifo')) = Cardinality(EndsIn(rx_fifo)) - 1
    BY <1>2, <2>1, HeadTaken
  <2>3. QED
    BY <1>2, <2>2, EndsAreFew
<1>9. /\ Len(info_fifo) = Cardinality(EndsIn(rx_fifo)) =>
           Len(info_fifo') = Cardinality(EndsIn(rx_fifo'))
      /\ Len(info_fifo) + 1 = Cardinality(EndsIn(rx_fifo)) =>
           Len(info_fifo') + 1 = Cardinality(EndsIn(rx_fifo'))
  BY <1>7, <1>8
<1>10. QED
  BY Zenon, <1>2, <1>3, <1>4, <1>6, <1>9 DEF IInv, Owing

(* FirstWord: the first word of a frame.                                   *)
LEMMA FirstWordStep == IInv /\ FirstWord => IInv' /\ Orderly
<1> SUFFICES ASSUME IInv, FirstWord PROVE IInv' /\ Orderly
  OBVIOUS
<1>1. /\ err_state = "ERR_BUBBLE" /\ rx_fifo # << >> /\ ReadFifo
      /\ err_state' = "ERR_IDLE"
      /\ UNCHANGED <<mac, state, dropped, lost, info_fifo>>
  BY DEF FirstWord, writeVars
<1>2. /\ tdata' = rx_fifo[1] /\ tdata' \in Words
      /\ rx_fifo' \in Seq(Words) /\ Len(rx_fifo') <= DEPTH
      /\ lost = 0 => Follows(tdata, tdata')
      /\ Chain' /\ Room'
  BY <1>1, ReadKeepsChain
<1>3. lost = 0 => tdata' = Word(tdata'.id, 1, FALSE)
  BY Zenon, <1>1, <1>2 DEF IInv, Reading, Follows
<1>4. lost = 0 => ~tdata'.end /\ tdata'.nth = 1
  BY <1>3 DEF Word
<1>5. Owing' /\ VerdictIsOwn'
  BY <1>1, <1>2, <1>4, WordRead
<1>6. tdata' # None
  BY <1>2, NoneAssumption
<1>7. Reading'
  BY <1>1, <1>4, <1>6 DEF Reading
<1>8. Types'
  BY Zenon, <1>1, <1>2 DEF IInv, Types
<1>9. Flag' /\ Framing' /\ NoWordLost'
  BY Zenon, <1>1 DEF IInv, Flag, Framing, NoWordLost
<1>10. Orderly
  BY <1>1, <1>4 DEF Orderly
<1>11. QED
  BY <1>2, <1>5, <1>7, <1>8, <1>9, <1>10 DEF IInv

(* NextWord: the next word of the frame.                                   *)
LEMMA NextWordStep == IInv /\ NextWord => IInv' /\ Orderly
<1> SUFFICES ASSUME IInv, NextWord PROVE IInv' /\ Orderly
  OBVIOUS
<1>1. /\ err_state = "ERR_IDLE" /\ rx_fifo # << >> /\ ReadFifo
      /\ ~Head(rx_fifo).end
      /\ UNCHANGED <<mac, state, dropped, lost, info_fifo, err_state>>
  BY DEF NextWord, writeVars
<1>2. /\ tdata' = rx_fifo[1] /\ tdata' \in Words
      /\ rx_fifo' \in Seq(Words) /\ Len(rx_fifo') <= DEPTH
      /\ lost = 0 => Follows(tdata, tdata')
      /\ Chain' /\ Room'
  BY <1>1, ReadKeepsChain
<1>3. ~tdata'.end
  BY Zenon, <1>1 DEF ReadFifo
<1>4. ASSUME lost = 0
      PROVE  tdata' = Word(tdata.id, tdata.nth + 1, tdata'.last)
  <2>1. ~(tdata = None \/ tdata.end)
    BY <1>1, <1>4 DEF IInv, Reading
  <2>2. tdata' # EndMark(tdata.id)
    BY <1>3 DEF EndMark
  <2>3. QED
    BY Zenon, <1>2, <1>4, <2>1, <2>2 DEF Follows
<1>5. Owing' /\ VerdictIsOwn'
  BY <1>1, <1>2, <1>3, WordRead
<1>6. tdata' # None
  BY <1>2, NoneAssumption
<1>7. Reading'
  BY <1>1, <1>3, <1>6 DEF Reading
<1>8. Types'
  BY Zenon, <1>1, <1>2 DEF IInv, Types
<1>9. Flag' /\ Framing' /\ NoWordLost'
  BY Zenon, <1>1 DEF IInv, Flag, Framing, NoWordLost
<1>10. Orderly
  BY Zenon, <1>1, <1>4 DEF Orderly
<1>11. QED
  BY <1>2, <1>5, <1>7, <1>8, <1>9, <1>10 DEF IInv

(* EndOfFrame: the end mark is seen and left in rx_fifo.                   *)
LEMMA EndOfFrameStep == IInv /\ EndOfFrame => IInv' /\ Orderly
<1> SUFFICES ASSUME IInv, EndOfFrame PROVE IInv' /\ Orderly
  OBVIOUS
<1>1. /\ err_state = "ERR_IDLE" /\ rx_fifo # << >> /\ Head(rx_fifo).end
      /\ err_state' = "ERR_WAIT"
      /\ UNCHANGED <<mac, state, dropped, lost, rx_fifo, info_fifo, tdata>>
  BY DEF EndOfFrame, writeVars
<1>2. Head(rx_fifo) = rx_fifo[1]
  BY <1>1 DEF IInv, Types
<1>3. Reading'
  BY <1>1, <1>2 DEF IInv, Reading
<1>4. Types'
  BY Zenon, <1>1 DEF IInv, Types
<1>5. Flag' /\ Framing' /\ NoWordLost' /\ Room' /\ Chain'
  BY Zenon, <1>1 DEF IInv, Flag, Framing, NoWordLost, Room, Chain, Newest
<1>6. Owing' /\ VerdictIsOwn'
  <2>1. Owing'
    BY Zenon, <1>1 DEF IInv, Owing, LastIsNewest
  <2>2. VerdictIsOwn'
    BY Zenon, <1>1, OwnIsPaired DEF IInv
  <2>3. QED
    BY <2>1, <2>2
<1>7. Orderly
  BY <1>1 DEF Orderly
<1>8. QED
  BY <1>3, <1>4, <1>5, <1>6, <1>7 DEF IInv

(* LastWord: the last word with its frame's verdict.                       *)
LEMMA LastWordStep == IInv /\ LastWord => IInv' /\ Orderly
<1> SUFFICES ASSUME IInv, LastWord PROVE IInv' /\ Orderly
  OBVIOUS
<1> USE SizeAssumption
<1>1. /\ err_state = "ERR_WAIT" /\ info_fifo # << >> /\ ReadFifo
      /\ info_fifo' = Tail(info_fifo) /\ err_state' = "ERR_BUBBLE"
      /\ UNCHANGED <<mac, state, dropped, lost>>
  BY DEF LastWord, writeVars
<1>2. rx_fifo # << >> /\ rx_fifo[1].end
  BY <1>1 DEF IInv, Reading
<1>3. /\ tdata' = rx_fifo[1] /\ tdata' \in Words
      /\ rx_fifo' \in Seq(Words) /\ Len(rx_fifo') <= DEPTH
      /\ lost = 0 => Follows(tdata, tdata')
      /\ Chain' /\ Room'
  BY <1>1, <1>2, ReadKeepsChain
<1>4. tdata'.end
  BY Zenon, <1>2, <1>3
<1>5. ASSUME lost = 0
      PROVE  tdata.last /\ tdata' = EndMark(tdata.id)
  <2>1. ~(tdata = None \/ tdata.end)
    BY <1>1, <1>5 DEF IInv, Reading
  <2>2. tdata' # Word(tdata.id, tdata.nth + 1, tdata'.last)
    <3>1. ~Word(tdata.id, tdata.nth + 1, tdata'.last).end
      BY Zenon DEF Word
    <3>2. QED
      BY Zenon, <1>4, <3>1
  <2>3. QED
    BY Zenon, <1>3, <1>5, <2>1, <2>2 DEF Follows
<1>6. Owing' /\ VerdictIsOwn'
  BY <1>1, <1>2, MarkRead
<1>7. info_fifo' \in Seq(VerdictSet) /\ Len(info_fifo') <= INFO_DEPTH
  BY <1>1 DEF IInv, Types, VerdictSet
<1>8. Reading'
  BY <1>1, <1>4 DEF Reading
<1>9. Types'
  BY Zenon, <1>1, <1>3, <1>7 DEF IInv, Types, VerdictSet
<1>10. Flag' /\ Framing' /\ NoWordLost'
  BY Zenon, <1>1 DEF IInv, Flag, Framing, NoWordLost
<1>11. Orderly
  BY Zenon, <1>1, <1>5 DEF Orderly
<1>12. QED
  BY <1>3, <1>6, <1>8, <1>9, <1>10, <1>11 DEF IInv


(* Each step of either clock keeps the invariant and the order of words.   *)
LEMMA NextStep == IInv /\ [Next]_vars => IInv' /\ (Orderly \/ UNCHANGED vars)
<1> SUFFICES ASSUME IInv, [Next]_vars
             PROVE  IInv' /\ (Orderly \/ UNCHANGED vars)
  OBVIOUS
<1>1. CASE MacClk
  <2>1. IInv' /\ UNCHANGED <<err_state, tdata>>
    BY <1>1, MacStep
  <2>2. err_state' = err_state /\ tdata' = tdata
    BY Zenon, <2>1
  <2>3. Orderly
    BY <2>2 DEF Orderly
  <2>4. QED
    BY <2>1, <2>3
<1>2. CASE AxiClk
  BY <1>2, FirstWordStep, NextWordStep, EndOfFrameStep, LastWordStep
     DEF AxiClk
<1>3. CASE UNCHANGED vars
  <2>1. UNCHANGED <<mac, state, dropped, lost, rx_fifo, info_fifo,
                    err_state, tdata>>
    BY <1>3 DEF vars, writeVars, readVars
  <2>2. Types' /\ Flag' /\ Framing' /\ Room' /\ NoWordLost' /\ Reading'
    BY Zenon, <2>1 DEF IInv, Types, Flag, Framing, Room, NoWordLost, Reading
  <2>3. Chain' /\ Owing'
    BY Zenon, <2>1 DEF IInv, Chain, Newest, Owing, LastIsNewest
  <2>4. VerdictIsOwn'
    BY Zenon, <2>1, OwnIsPaired DEF IInv
  <2>5. QED
    BY <1>3, <2>2, <2>3, <2>4 DEF IInv
<1>4. QED
  BY <1>1, <1>2, <1>3 DEF Next

(* The inductive invariant holds.                                          *)
THEOREM IInvHolds == Spec => []IInv
<1>1. IInv /\ [Next]_vars => IInv'
  BY NextStep
<1>2. QED
  BY InitInv, <1>1, PTL DEF Spec

(* Whatever the clocks do, registers and FIFOs keep their types and        *)
(* bounds, and no word is lost but of a frame longer than the almost-full  *)
(* mark leaves room for (FifoSound).                                       *)
THEOREM FifoIsSound == Spec => []FifoSound
<1>1. IInv => FifoSound
  <2>1. SUFFICES ASSUME IInv PROVE FifoSound
    OBVIOUS
  <2>2. \A i \in DOMAIN rx_fifo : rx_fifo[i] \in Words
    BY <2>1 DEF IInv, Types
  <2>3. \A i \in DOMAIN info_fifo : info_fifo[i] \in VerdictSet
    <3>1. info_fifo \in Seq(VerdictSet)
      BY <2>1 DEF IInv, Types, VerdictSet
    <3>2. QED
      BY <3>1
  <2>4. /\ Range(rx_fifo) \subseteq Words
        /\ Range(info_fifo) \subseteq [id : Ids, bad : BOOLEAN]
    BY Zenon, <2>2, <2>3 DEF Range, VerdictSet
  <2>5. TypeOK
    BY Zenon, <2>1, <2>4 DEF IInv, Types, Flag, TypeOK, Macs
  <2>6. QED
    BY <2>1, <2>5 DEF IInv, FifoSound
<1>2. QED
  BY IInvHolds, <1>1, PTL

(* Until a frame is dropped or a word is lost, the verdict given with a    *)
(* frame's last word is the MAC's verdict on that frame (VerdictIsOwn).    *)
THEOREM VerdictsAreOwn == Spec => []VerdictIsOwn
<1>1. IInv => VerdictIsOwn
  BY DEF IInv
<1>2. QED
  BY IInvHolds, <1>1, PTL

(* Until a word is lost, the AXI side is handed the words of one frame     *)
(* after another, each frame from its first word to its last, none twice   *)
(* and none left out (WordsInOrder).                                       *)
THEOREM WordsAreInOrder == Spec => WordsInOrder
<1>1. IInv /\ [Next]_vars => [Orderly]_vars
  BY NextStep
<1>2. Spec => [][Orderly]_vars
  BY IInvHolds, <1>1, PTL DEF Spec
<1>3. QED
  BY <1>2 DEF WordsInOrder, Orderly
=============================================================================
