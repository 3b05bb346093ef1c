--------------------------- MODULE Transfers_proofs ---------------------------
(***************************************************************************)
(* Proofs about the bytes that go from one place to another: uploads of    *)
(* contents to blob storage by two threads (BlobUpload), for contents of   *)
(* any length and any sizes of reads; and reading from a worker            *)
(* (WorkerReads), for any number of requests and disturbances.             *)
(***************************************************************************)
EXTENDS BlobUpload, WorkerReads, SequenceTheorems, TLAPS

-----------------------------------------------------------------------------
(* Uploads to blob storage: what a step of a thread does (...Does), and    *)
(* that it keeps UploadInv (...Keeps).                                     *)

-----------------------------------------------------------------------------
(* Bytes and chunks *)

(* q is what there is from the byte after i to j, cut into chunks.         *)
CutAt(q, i, j, cut) ==
    /\ cut \in [0 .. Len(q) -> Nat]
    /\ cut[0] = i /\ cut[Len(q)] = j
    /\ \A m, n \in 0 .. Len(q) : m < n => cut[m] < cut[n]
    /\ \A n \in 1 .. Len(q) : q[n] = Bytes(cut[n - 1] + 1, cut[n])

Covers(q, i, j) == \E cut : CutAt(q, i, j, cut)

(* The bytes after i up to j: that many, in their order. *)
LEMMA BytesType ==
    ASSUME NEW i \in Nat, NEW j \in Nat, i <= j
    PROVE  /\ Bytes(i + 1, j) \in Seq(Nat) /\ Len(Bytes(i + 1, j)) = j - i
           /\ \A n \in 1 .. j - i : Bytes(i + 1, j)[n] = i + n
           /\ Bytes(i + 1, j) = <<>> <=> i = j
<1>1. Bytes(i + 1, j) = [k \in 1 .. j - i |-> i + k]
  <2>1. j - (i + 1) + 1 = j - i /\ \A k \in 1 .. j - i : (i + 1) + k - 1 = i + k
    OBVIOUS
  <2>2. QED
    BY <2>1 DEF Bytes
<1>2. j - i \in Nat /\ \A k \in 1 .. j - i : i + k \in Nat
  OBVIOUS
<1>3. QED
  BY <1>1, <1>2

(* Two pieces that follow each other are one. *)
LEMMA BytesJoin ==
    ASSUME NEW i \in Nat, NEW m \in Nat, NEW j \in Nat, i <= m, m <= j
    PROVE  Bytes(i + 1, m) \o Bytes(m + 1, j) = Bytes(i + 1, j)
<1> DEFINE q == Bytes(i + 1, m)
           r == Bytes(m + 1, j)
           s == Bytes(i + 1, j)
<1>1. /\ q \in Seq(Nat) /\ Len(q) = m - i /\ \A n \in 1 .. m - i : q[n] = i + n
      /\ r \in Seq(Nat) /\ Len(r) = j - m /\ \A n \in 1 .. j - m : r[n] = m + n
      /\ s \in Seq(Nat) /\ Len(s) = j - i /\ \A n \in 1 .. j - i : s[n] = i + n
  <2>1. q \in Seq(Nat) /\ Len(q) = m - i /\ \A n \in 1 .. m - i : q[n] = i + n
    BY BytesType
  <2>2. r \in Seq(Nat) /\ Len(r) = j - m /\ \A n \in 1 .. j - m : r[n] = m + n
    BY BytesType
  <2>3. s \in Seq(Nat) /\ Len(s) = j - i /\ \A n \in 1 .. j - i : s[n] = i + n
    <3>1. i <= j
      OBVIOUS
    <3>2. QED
      BY <3>1, BytesType
  <2> HIDE DEF q, r, s
  <2>4. QED
    BY <2>1, <2>2, <2>3
<1> HIDE DEF q, r, s
<1>2. /\ q \o r \in Seq(Nat) /\ Len(q \o r) = Len(q) + Len(r)
      /\ \A n \in 1 .. Len(q) + Len(r) : (q \o r)[n] = IF n <= Len(q) THEN q[n] ELSE r[n - Len(q)]
  BY <1>1, ConcatProperties
<1>3. \A n \in 1 .. Len(q \o r) : (q \o r)[n] = s[n]
  <2> SUFFICES ASSUME NEW n \in 1 .. Len(q \o r) PROVE (q \o r)[n] = s[n]
    OBVIOUS
  <2>1. n \in 1 .. j - i /\ (q \o r)[n] = IF n <= m - i THEN q[n] ELSE r[n - (m - i)]
    <3>1. n \in 1 .. Len(q) + Len(r) /\ Len(q) = m - i /\ Len(q) + Len(r) = j - i
      BY <1>1, <1>2
    <3>2. QED
      BY <1>2, <3>1
  <2>2. CASE n <= m - i
    BY <1>1, <2>1, <2>2
  <2>3. CASE ~(n <= m - i)
    <3>1. n - (m - i) \in 1 .. j - m /\ m + (n - (m - i)) = i + n
      BY <2>1, <2>3
    <3>2. QED
      BY <1>1, <2>1, <2>3, <3>1
  <2>4. QED
    BY <2>2, <2>3
<1>4. Len(q \o r) = Len(s)
  BY <1>1, <1>2
<1>5. q \o r = s
  BY <1>1, <1>2, <1>3, <1>4, SeqEqual
<1>6. QED
  BY <1>5 DEF q, r, s

(* The two pieces of a piece. *)
LEMMA BytesParts ==
    ASSUME NEW i \in Nat, NEW m \in Nat, NEW j \in Nat, i <= m, m <= j
    PROVE  /\ SubSeq(Bytes(i + 1, j), 1, m - i) = Bytes(i + 1, m)
           /\ SubSeq(Bytes(i + 1, j), m - i + 1, j - i) = Bytes(m + 1, j)
<1> DEFINE q == Bytes(i + 1, m)
           r == Bytes(m + 1, j)
           s == Bytes(i + 1, j)
<1>1. /\ q \in Seq(Nat) /\ Len(q) = m - i /\ \A n \in 1 .. m - i : q[n] = i + n
      /\ r \in Seq(Nat) /\ Len(r) = j - m /\ \A n \in 1 .. j - m : r[n] = m + n
      /\ s \in Seq(Nat) /\ Len(s) = j - i /\ \A n \in 1 .. j - i : s[n] = i + n
  <2>1. q \in Seq(Nat) /\ Len(q) = m - i /\ \A n \in 1 .. m - i : q[n] = i + n
    BY BytesType
  <2>2. r \in Seq(Nat) /\ Len(r) = j - m /\ \A n \in 1 .. j - m : r[n] = m + n
    BY BytesType
  <2>3. s \in Seq(Nat) /\ Len(s) = j - i /\ \A n \in 1 .. j - i : s[n] = i + n
    <3>1. i <= j
      OBVIOUS
    <3>2. QED
      BY <3>1, BytesType
  <2> HIDE DEF q, r, s
  <2>4. QED
    BY <2>1, <2>2, <2>3
<1> HIDE DEF q, r, s
<1> DEFINE a == SubSeq(s, 1, m - i)
           b == SubSeq(s, m - i + 1, j - i)
<1>2. /\ \A n \in 1 .. m - i : s[n] \in Nat
      /\ \A n \in m - i + 1 .. j - i : s[n] \in Nat
  <2>1. \A n \in 1 .. j - i : s[n] \in Nat
    BY <1>1
  <2>2. 1 .. m - i \subseteq 1 .. j - i /\ m - i + 1 .. j - i \subseteq 1 .. j - i
    OBVIOUS
  <2>3. QED
    BY <2>1, <2>2
<1>3. /\ a \in Seq(Nat) /\ Len(a) = IF 1 <= m - i THEN (m - i) - 1 + 1 ELSE 0
      /\ \A n \in 1 .. (m - i) - 1 + 1 : a[n] = s[1 + n - 1]
  BY <1>2, SubSeqProperties
<1>4. /\ b \in Seq(Nat)
      /\ Len(b) = IF m - i + 1 <= j - i THEN (j - i) - (m - i + 1) + 1 ELSE 0
      /\ \A n \in 1 .. (j - i) - (m - i + 1) + 1 : b[n] = s[(m - i + 1) + n - 1]
  BY <1>2, SubSeqProperties
<1> HIDE DEF a, b
<1>5. Len(a) = Len(q) /\ \A n \in 1 .. Len(a) : a[n] = q[n]
  BY <1>1, <1>3
<1>6. Len(b) = Len(r) /\ \A n \in 1 .. Len(b) : b[n] = r[n]
  BY <1>1, <1>4
<1>7. a = q /\ b = r
  BY <1>1, <1>3, <1>4, <1>5, <1>6, SeqEqual
<1>8. QED
  BY <1>7 DEF a, b, q, r, s

(* The cuts lie between the ends. *)
LEMMA CutBounds ==
    ASSUME NEW q \in Seq(Seq(Nat)), NEW i \in Nat, NEW j \in Nat, NEW cut, CutAt(q, i, j, cut)
    PROVE  \A n \in 0 .. Len(q) : cut[n] \in Nat /\ i <= cut[n] /\ cut[n] <= j
<1> SUFFICES ASSUME NEW n \in 0 .. Len(q) PROVE cut[n] \in Nat /\ i <= cut[n] /\ cut[n] <= j
  OBVIOUS
<1>1. /\ cut \in [0 .. Len(q) -> Nat] /\ cut[0] = i /\ cut[Len(q)] = j
      /\ \A k, m \in 0 .. Len(q) : k < m => cut[k] < cut[m]
  BY DEF CutAt
<1>2. Len(q) \in Nat /\ 0 \in 0 .. Len(q) /\ Len(q) \in 0 .. Len(q)
  OBVIOUS
<1>3. (n = 0 \/ 0 < n) /\ (n = Len(q) \/ n < Len(q))
  BY <1>2
<1>4. cut[n] \in Nat
  BY <1>1
<1>5. i <= cut[n]
  BY <1>1, <1>2, <1>3, <1>4
<1>6. cut[n] <= j
  BY <1>1, <1>2, <1>3, <1>4
<1>7. QED
  BY <1>4, <1>5, <1>6

(* There are no chunks just when there is nothing to cover. *)
LEMMA CoversNothing ==
    ASSUME NEW q \in Seq(Seq(Nat)), NEW i \in Nat, NEW j \in Nat, Covers(q, i, j)
    PROVE  i <= j /\ (q = <<>> <=> i = j)
<1>1. PICK cut : CutAt(q, i, j, cut)
  BY DEF Covers
<1>2. CASE q = <<>>
  BY <1>1, <1>2 DEF CutAt
<1>3. CASE q # <<>>
  <2>1. Len(q) \in Nat /\ Len(q) > 0
    BY <1>3
  <2>2. cut[0] < cut[Len(q)]
    <3>1. 0 \in 0 .. Len(q) /\ Len(q) \in 0 .. Len(q) /\ 0 < Len(q)
      BY <2>1
    <3>2. QED
      BY <1>1, <3>1 DEF CutAt
  <2>3. QED
    BY <1>1, <1>3, <2>2 DEF CutAt
<1>4. QED
  BY <1>2, <1>3

(* No chunks cover nothing. *)
LEMMA CoversEmpty ==
    ASSUME NEW i \in Nat PROVE Covers(<<>>, i, i)
<1>1. CutAt(<<>>, i, i, [n \in 0 .. 0 |-> i])
  BY DEF CutAt
<1>2. QED
  BY <1>1 DEF Covers

(* A chunk is appended. *)
LEMMA CoversAppend ==
    ASSUME NEW q \in Seq(Seq(Nat)), NEW i \in Nat, NEW j \in Nat, NEW k \in Nat, Covers(q, i, j), j < k
    PROVE  Covers(Append(q, Bytes(j + 1, k)), i, k)
<1>1. PICK cut : CutAt(q, i, j, cut)
  BY DEF Covers
<1> DEFINE r == Append(q, Bytes(j + 1, k))
           longer == [n \in 0 .. Len(q) + 1 |-> IF n = Len(q) + 1 THEN k ELSE cut[n]]
<1>2. Len(q) \in Nat /\ Len(r) = Len(q) + 1 /\ r[Len(q) + 1] = Bytes(j + 1, k)
      /\ \A n \in 1 .. Len(q) : r[n] = q[n]
  <2>1. Bytes(j + 1, k) \in Seq(Nat)
    BY BytesType
  <2>2. QED
    BY <2>1, AppendProperties
<1>3. \A n \in 0 .. Len(q) : cut[n] \in Nat /\ cut[n] <= j
  BY <1>1, CutBounds
<1>4. CutAt(r, i, k, longer)
  <2> HIDE DEF r
  <2>1. longer \in [0 .. Len(r) -> Nat] /\ longer[0] = i /\ longer[Len(r)] = k
    BY <1>1, <1>2, <1>3 DEF CutAt
  <2>2. \A m, n \in 0 .. Len(r) : m < n => longer[m] < longer[n]
    BY <1>1, <1>2, <1>3 DEF CutAt
  <2>3. \A n \in 1 .. Len(r) : r[n] = Bytes(longer[n - 1] + 1, longer[n])
    <3> SUFFICES ASSUME NEW n \in 1 .. Len(r) PROVE r[n] = Bytes(longer[n - 1] + 1, longer[n])
      OBVIOUS
    <3>1. CASE n = Len(q) + 1
      BY <1>1, <1>2, <3>1 DEF CutAt
    <3>2. CASE n # Len(q) + 1
      <4>1. n \in 1 .. Len(q) /\ longer[n] = cut[n] /\ longer[n - 1] = cut[n - 1]
        BY <1>2, <3>2
      <4>2. QED
        BY <1>1, <1>2, <4>1 DEF CutAt
    <3>3. QED
      BY <3>1, <3>2
  <2>4. QED
    BY <2>1, <2>2, <2>3 DEF CutAt
<1>5. QED
  BY <1>4 DEF Covers

(* The first chunk is taken. *)
LEMMA CoversTail ==
    ASSUME NEW q \in Seq(Seq(Nat)), NEW i \in Nat, NEW j \in Nat, Covers(q, i, j), q # <<>>
    PROVE  \E m \in Nat : i < m /\ m <= j /\ Head(q) = Bytes(i + 1, m) /\ Covers(Tail(q), m, j)
<1>1. PICK cut : CutAt(q, i, j, cut)
  BY DEF Covers
<1> DEFINE r == Tail(q)
           shorter == [n \in 0 .. Len(q) - 1 |-> cut[n + 1]]
<1>2. Len(q) \in Nat \ {0} /\ Len(r) = Len(q) - 1 /\ \A n \in 1 .. Len(q) - 1 : r[n] = q[n + 1]
  OBVIOUS
<1>3. cut[1] \in Nat /\ i < cut[1] /\ cut[1] <= j
  <2>1. 0 \in 0 .. Len(q) /\ 1 \in 0 .. Len(q) /\ 0 < 1
    BY <1>2
  <2>2. cut[0] < cut[1] /\ cut[0] = i
    BY <1>1, <2>1 DEF CutAt
  <2>3. cut[1] \in Nat /\ cut[1] <= j
    BY <1>1, <2>1, CutBounds
  <2>4. QED
    BY <2>2, <2>3
<1>4. Head(q) = Bytes(i + 1, cut[1])
  BY <1>1, <1>2 DEF CutAt
<1>5. CutAt(r, cut[1], j, shorter)
  <2> HIDE DEF r
  <2>1. shorter \in [0 .. Len(r) -> Nat] /\ shorter[0] = cut[1] /\ shorter[Len(r)] = j
    BY <1>1, <1>2 DEF CutAt
  <2>2. \A m, n \in 0 .. Len(r) : m < n => shorter[m] < shorter[n]
    BY <1>1, <1>2 DEF CutAt
  <2>3. \A n \in 1 .. Len(r) : r[n] = Bytes(shorter[n - 1] + 1, shorter[n])
    BY <1>1, <1>2 DEF CutAt
  <2>4. QED
    BY <2>1, <2>2, <2>3 DEF CutAt
<1>6. QED
  BY <1>3, <1>4, <1>5 DEF Covers

(* A chunk is put back in front. *)
LEMMA CoversPush ==
    ASSUME NEW q \in Seq(Seq(Nat)), NEW h \in Nat, NEW i \in Nat, NEW j \in Nat, Covers(q, i, j), h < i
    PROVE  Covers(<<Bytes(h + 1, i)>> \o q, h, j)
<1>1. PICK cut : CutAt(q, i, j, cut)
  BY DEF Covers
<1> DEFINE r == <<Bytes(h + 1, i)>> \o q
           longer == [n \in 0 .. Len(q) + 1 |-> IF n = 0 THEN h ELSE cut[n - 1]]
<1>2. Len(q) \in Nat /\ Len(r) = Len(q) + 1 /\ r[1] = Bytes(h + 1, i)
      /\ \A n \in 2 .. Len(q) + 1 : r[n] = q[n - 1]
  <2> DEFINE one == <<Bytes(h + 1, i)>>
  <2>1. Bytes(h + 1, i) \in Seq(Nat)
    BY BytesType
  <2>2. one \in Seq(Seq(Nat)) /\ Len(one) = 1 /\ one[1] = Bytes(h + 1, i) /\ Len(q) \in Nat
    BY <2>1
  <2> HIDE DEF one
  <2>3. /\ Len(one \o q) = Len(one) + Len(q)
        /\ \A n \in 1 .. Len(one) + Len(q) :
               (one \o q)[n] = IF n <= Len(one) THEN one[n] ELSE q[n - Len(one)]
    BY <2>2, ConcatProperties
  <2>4. QED
    BY <2>2, <2>3 DEF one
<1>3. \A n \in 0 .. Len(q) : cut[n] \in Nat /\ cut[n] >= i
  BY <1>1, CutBounds
<1>4. CutAt(r, h, j, longer)
  <2> HIDE DEF r
  <2>1. longer \in [0 .. Len(r) -> Nat] /\ longer[0] = h /\ longer[Len(r)] = j
    BY <1>1, <1>2, <1>3 DEF CutAt
  <2>2. \A m, n \in 0 .. Len(r) : m < n => longer[m] < longer[n]
    <3> SUFFICES ASSUME NEW m \in 0 .. Len(r), NEW n \in 0 .. Len(r), m < n
                 PROVE  longer[m] < longer[n]
      OBVIOUS
    <3>1. n - 1 \in 0 .. Len(q) /\ n # 0 /\ longer[n] = cut[n - 1]
      BY <1>2
    <3>2. CASE m = 0
      <4>1. longer[m] = h /\ cut[n - 1] \in Nat /\ i <= cut[n - 1]
        BY <1>2, <1>3, <3>1, <3>2
      <4>2. QED
        BY <3>1, <4>1
    <3>3. CASE m # 0
      <4>1. m - 1 \in 0 .. Len(q) /\ longer[m] = cut[m - 1] /\ m - 1 < n - 1
        BY <1>2, <3>3
      <4>2. QED
        BY <1>1, <3>1, <4>1 DEF CutAt
    <3>4. QED
      BY <3>2, <3>3
  <2>3. \A n \in 1 .. Len(r) : r[n] = Bytes(longer[n - 1] + 1, longer[n])
    <3> SUFFICES ASSUME NEW n \in 1 .. Len(r) PROVE r[n] = Bytes(longer[n - 1] + 1, longer[n])
      OBVIOUS
    <3>1. CASE n = 1
      <4>1. longer[1 - 1] = h /\ longer[1] = cut[0] /\ cut[0] = i
        BY <1>1, <1>2 DEF CutAt
      <4>2. QED
        BY <1>2, <3>1, <4>1
    <3>2. CASE n # 1
      <4>1. n - 1 \in 1 .. Len(q) /\ n \in 2 .. Len(q) + 1 /\ (n - 1) - 1 = n - 2
        BY <1>2, <3>2
      <4>2. longer[n] = cut[n - 1] /\ longer[n - 1] = cut[(n - 1) - 1] /\ r[n] = q[n - 1]
        BY <1>2, <4>1
      <4>3. q[n - 1] = Bytes(cut[(n - 1) - 1] + 1, cut[n - 1])
        BY <1>1, <4>1 DEF CutAt
      <4>4. QED
        BY <4>2, <4>3
    <3>3. QED
      BY <3>1, <3>2
  <2>4. QED
    BY <2>1, <2>2, <2>3 DEF CutAt
<1>5. QED
  BY <1>4 DEF Covers

-----------------------------------------------------------------------------
(* Types *)

ThreadPcs == {"none", "between", "lock", "fill", "append", "add", "added",
        "take", "subtract", "subtracted", "ended", "failed"}
ThreadStates == [pc : ThreadPcs, want : Nat, data : Seq(Nat), to : Threads, size : Int]

(* The types of what a thread has. *)
LEMMA ThreadsTyped ==
    ASSUME UploadTypeOK
    PROVE  /\ DOMAIN thread = Threads
           /\ \A t \in Threads :
                  /\ thread[t] \in ThreadStates
                  /\ thread[t].pc \in ThreadPcs /\ thread[t].want \in Nat /\ thread[t].data \in Seq(Nat)
                  /\ thread[t].to \in Threads /\ thread[t].size \in Int
                  /\ buf[t] \in Seq(Seq(Nat)) /\ bufSize[t] \in Int /\ got[t] \in Seq(Nat)
                  /\ Len(thread[t].data) \in Nat /\ Len(got[t]) \in Nat
           /\ fed \in Nat /\ fed <= ContentLength /\ ContentLength \in Nat
<1> USE ReadSizesAssumption
<1>1. thread \in [Threads -> ThreadStates]
  BY DEF UploadTypeOK, ThreadStates, ThreadPcs
<1>2. fed \in Nat /\ fed <= ContentLength /\ ContentLength \in Nat
  BY DEF UploadTypeOK
<1>3. DOMAIN thread = Threads
  BY <1>1
<1>4. SUFFICES ASSUME NEW t \in Threads
               PROVE  /\ thread[t] \in ThreadStates
                      /\ thread[t].pc \in ThreadPcs /\ thread[t].want \in Nat /\ thread[t].data \in Seq(Nat)
                      /\ thread[t].to \in Threads /\ thread[t].size \in Int
                      /\ buf[t] \in Seq(Seq(Nat)) /\ bufSize[t] \in Int /\ got[t] \in Seq(Nat)
                      /\ Len(thread[t].data) \in Nat /\ Len(got[t]) \in Nat
  BY <1>2, <1>3
<1>5. thread[t] \in ThreadStates
  BY <1>1
<1>6. /\ thread[t].pc \in ThreadPcs /\ thread[t].want \in Nat /\ thread[t].data \in Seq(Nat)
      /\ thread[t].to \in Threads /\ thread[t].size \in Int
  BY <1>5 DEF ThreadStates
<1>7. buf[t] \in Seq(Seq(Nat)) /\ bufSize[t] \in Int /\ got[t] \in Seq(Nat)
  BY DEF UploadTypeOK
<1>8. QED
  BY <1>5, <1>6, <1>7

(* A thread between two reads is one of the states of threads. *)
LEMMA BetweenTyped == \A pc \in ThreadPcs : [Between EXCEPT !.pc = pc] \in ThreadStates
<1>1. Between \in ThreadStates
  BY DEF Between, ThreadStates, ThreadPcs, Threads
<1>2. QED
  BY <1>1 DEF ThreadStates

(* What one thread does to its own state. *)
Becomes(t, new) == thread' = [thread EXCEPT ![t] = new]

(* The threads after a step of one of them. *)
LEMMA ThreadMoves ==
    ASSUME UploadTypeOK, NEW t \in Threads, NEW new \in ThreadStates, Becomes(t, new)
    PROVE  /\ thread' \in [Threads -> ThreadStates] /\ thread'[t] = new
           /\ \A u \in Threads \ {t} : thread'[u] = thread[u]
<1>1. thread \in [Threads -> ThreadStates]
  BY DEF UploadTypeOK, ThreadStates, ThreadPcs
<1>2. QED
  BY <1>1 DEF Becomes

(* What the other threads have is left alone. *)
OthersStay(t) == \A u \in Threads \ {t} : thread'[u] = thread[u]

LEMMA ReadDoes ==
    ASSUME UploadTypeOK, NEW t \in Threads, Read(t)
    PROVE  /\ thread[t].pc = "between" /\ OthersStay(t)
           /\ thread'[t].pc = "lock" /\ thread'[t].want > 0
           /\ thread'[t].data = thread[t].data /\ thread'[t].to = thread[t].to
           /\ thread' \in [Threads -> ThreadStates]
<1>1. PICK n \in ReadLengths[t] : thread' = [thread EXCEPT ![t].pc = "lock", ![t].want = n]
  BY DEF Read
<1> DEFINE new == [thread[t] EXCEPT !.pc = "lock", !.want = n]
<1>2. n \in Nat /\ n > 0
  BY ReadSizesAssumption
<1>3. new \in ThreadStates /\ new.pc = "lock" /\ new.want = n
      /\ new.data = thread[t].data /\ new.to = thread[t].to
  <2>1. thread[t] \in ThreadStates /\ n \in Nat
    BY <1>2, ThreadsTyped
  <2>2. QED
    BY <2>1 DEF ThreadStates, ThreadPcs
<1>4. Becomes(t, new)
  BY <1>1, ThreadsTyped DEF Becomes
<1> HIDE DEF new
<1>5. QED
  BY <1>2, <1>3, <1>4, ThreadMoves DEF Read, OthersStay

LEMMA LockDoes ==
    ASSUME UploadTypeOK, NEW t \in Threads, Lock(t)
    PROVE  /\ thread[t].pc = "lock" /\ bufLock = NoThread /\ bufLock' = t /\ OthersStay(t)
           /\ thread'[t].pc = "fill" /\ thread'[t].want = thread[t].want
           /\ thread'[t].data = thread[t].data
           /\ thread' \in [Threads -> ThreadStates]
<1> DEFINE new == [thread[t] EXCEPT !.pc = "fill"]
<1>1. new \in ThreadStates /\ new.pc = "fill" /\ new.want = thread[t].want /\ new.data = thread[t].data
  BY ThreadsTyped DEF ThreadStates, ThreadPcs
<1>2. Becomes(t, new)
  BY ThreadsTyped DEF Becomes, Lock
<1> HIDE DEF new
<1>3. QED
  BY <1>1, <1>2, ThreadMoves DEF Lock, OthersStay

LEMMA ReadStreamDoes ==
    ASSUME UploadTypeOK, NEW t \in Threads, ReadStream(t), thread[t].want > 0
    PROVE  /\ thread[t].pc = "fill" /\ OthersStay(t)
           /\ fed' \in Nat /\ fed < fed' /\ fed' <= ContentLength
           /\ thread'[t].pc = "append" /\ thread'[t].want = thread[t].want
           /\ thread'[t].data = Bytes(fed + 1, fed') /\ thread'[t].to = "file"
           /\ Len(thread'[t].data) = fed' - fed
           /\ thread' \in [Threads -> ThreadStates]
<1> DEFINE new == [thread[t] EXCEPT !.pc = "append", !.data = Bytes(fed + 1, fed'), !.to = "file"]
<1>1. fed' \in Nat /\ fed < fed' /\ fed' <= ContentLength
  <2>1. fed' = Least(fed + thread[t].want, ContentLength) /\ fed # ContentLength
    BY DEF ReadStream, EnoughBytes
  <2>2. QED
    BY <2>1, ThreadsTyped DEF Least
<1>2. Bytes(fed + 1, fed') \in Seq(Nat) /\ Len(Bytes(fed + 1, fed')) = fed' - fed
  BY <1>1, BytesType, ThreadsTyped, SMTT(30)
<1>3. new \in ThreadStates /\ new.pc = "append" /\ new.want = thread[t].want
      /\ new.data = Bytes(fed + 1, fed') /\ new.to = "file"
  BY <1>2, ThreadsTyped DEF ThreadStates, ThreadPcs, Threads
<1>4. Becomes(t, new)
  BY ThreadsTyped DEF Becomes, ReadStream
<1> HIDE DEF new
<1>5. QED
  BY <1>1, <1>2, <1>3, <1>4, ThreadMoves DEF ReadStream, OthersStay

LEMMA UnlockDoes ==
    ASSUME UploadTypeOK, NEW t \in Threads, Unlock(t)
    PROVE  /\ thread[t].pc = "fill" /\ EnoughBytes(t) /\ bufLock' = NoThread /\ OthersStay(t)
           /\ thread'[t].pc = "take" /\ thread'[t].want = thread[t].want
           /\ thread'[t].data = <<>>
           /\ thread' \in [Threads -> ThreadStates]
<1> DEFINE new == [thread[t] EXCEPT !.pc = "take", !.data = <<>>]
<1>1. new \in ThreadStates /\ new.pc = "take" /\ new.want = thread[t].want /\ new.data = <<>>
  <2>1. thread[t] \in ThreadStates /\ <<>> \in Seq(Nat)
    BY ThreadsTyped
  <2>2. QED
    BY <2>1 DEF ThreadStates, ThreadPcs
<1>2. Becomes(t, new)
  BY ThreadsTyped DEF Becomes, Unlock
<1> HIDE DEF new
<1>3. QED
  BY <1>1, <1>2, ThreadMoves DEF Unlock, OthersStay

LEMMA AppendChunkDoes ==
    ASSUME UploadTypeOK, NEW t \in Threads, AppendChunk(t)
    PROVE  /\ thread[t].pc = "append" /\ OthersStay(t)
           /\ thread'[t].pc = "add" /\ thread'[t].want = thread[t].want
           /\ thread'[t].data = thread[t].data /\ thread'[t].to = thread[t].to
           /\ buf'[thread[t].to] = Append(buf[thread[t].to], thread[t].data)
           /\ \A u \in Threads \ {thread[t].to} : buf'[u] = buf[u]
           /\ buf' \in [Threads -> Seq(Seq(Nat))]
           /\ thread' \in [Threads -> ThreadStates]
<1> DEFINE new == [thread[t] EXCEPT !.pc = "add"]
<1>1. new \in ThreadStates /\ new.pc = "add" /\ new.want = thread[t].want
      /\ new.data = thread[t].data /\ new.to = thread[t].to
  BY ThreadsTyped DEF ThreadStates, ThreadPcs
<1>2. Becomes(t, new)
  BY ThreadsTyped DEF Becomes, AppendChunk
<1> HIDE DEF new
<1>3. /\ thread[t].pc = "append" /\ OthersStay(t) /\ thread'[t] = new
      /\ thread' \in [Threads -> ThreadStates]
  BY <1>1, <1>2, ThreadMoves DEF AppendChunk, OthersStay
<1>4. /\ buf'[thread[t].to] = Append(buf[thread[t].to], thread[t].data)
      /\ \A u \in Threads \ {thread[t].to} : buf'[u] = buf[u]
      /\ buf' \in [Threads -> Seq(Seq(Nat))]
  <2>1. buf' = [buf EXCEPT ![thread[t].to] = Append(buf[thread[t].to], thread[t].data)]
    BY DEF AppendChunk
  <2>2. Append(buf[thread[t].to], thread[t].data) \in Seq(Seq(Nat))
    BY ThreadsTyped, AppendProperties
  <2>3. buf \in [Threads -> Seq(Seq(Nat))] /\ thread[t].to \in Threads
    BY ThreadsTyped DEF UploadTypeOK
  <2>4. QED
    BY <2>1, <2>2, <2>3
<1>5. QED
  BY <1>1, <1>3, <1>4

LEMMA LoadToAddDoes ==
    ASSUME UploadTypeOK, NEW t \in Threads, LoadToAdd(t)
    PROVE  /\ thread[t].pc = "add" /\ OthersStay(t)
           /\ thread'[t].pc = "added" /\ thread'[t].want = thread[t].want
           /\ thread'[t].data = thread[t].data /\ thread'[t].to = thread[t].to
           /\ thread' \in [Threads -> ThreadStates]
<1> DEFINE new == [thread[t] EXCEPT !.pc = "added", !.size = bufSize[thread[t].to]]
<1>1. new \in ThreadStates /\ new.pc = "added" /\ new.want = thread[t].want
      /\ new.data = thread[t].data /\ new.to = thread[t].to
  <2>1. thread[t] \in ThreadStates /\ bufSize[thread[t].to] \in Int
    BY ThreadsTyped
  <2>2. QED
    BY <2>1 DEF ThreadStates, ThreadPcs
<1>2. Becomes(t, new)
  BY ThreadsTyped DEF Becomes, LoadToAdd
<1> HIDE DEF new
<1>3. QED
  BY <1>1, <1>2, ThreadMoves DEF LoadToAdd, OthersStay

LEMMA StoreSizeDoes ==
    ASSUME UploadTypeOK, NEW t \in Threads, NEW of \in Threads, NEW n \in Int, StoreSize(t, of, n)
    PROVE  /\ bufSize'[of] = n /\ \A u \in Threads \ {of} : bufSize'[u] = bufSize[u]
           /\ bufSize' \in [Threads -> Int] /\ lostUpdate' \in BOOLEAN
           /\ ~lostUpdate' => ~lostUpdate /\ bufSize[of] = thread[t].size
<1>1. bufSize \in [Threads -> Int] /\ bufSize' = [bufSize EXCEPT ![of] = n]
  BY DEF UploadTypeOK, StoreSize
<1>2. /\ lostUpdate' \in BOOLEAN
      /\ ~lostUpdate' => ~lostUpdate /\ bufSize[of] = thread[t].size
  BY ReadSizesAssumption DEF UploadTypeOK, StoreSize
<1>3. /\ bufSize'[of] = n /\ \A u \in Threads \ {of} : bufSize'[u] = bufSize[u]
      /\ bufSize' \in [Threads -> Int]
  BY <1>1
<1>4. QED
  BY <1>2, <1>3

LEMMA StoreAddedDoes ==
    ASSUME UploadTypeOK, NEW t \in Threads, StoreAdded(t)
    PROVE  /\ thread[t].pc = "added" /\ OthersStay(t) /\ thread'[t].want = thread[t].want
           /\ \/ /\ thread[t].to = "file" /\ thread'[t].pc = "append" /\ thread'[t].to = "index"
                 /\ thread'[t].data = thread[t].data
              \/ thread[t].to = "index" /\ thread'[t].pc = "fill" /\ thread'[t].data = <<>>
           /\ bufSize'[thread[t].to] = thread[t].size + Len(thread[t].data)
           /\ \A u \in Threads \ {thread[t].to} : bufSize'[u] = bufSize[u]
           /\ bufSize' \in [Threads -> Int] /\ lostUpdate' \in BOOLEAN
           /\ ~lostUpdate' => ~lostUpdate /\ bufSize[thread[t].to] = thread[t].size
           /\ thread' \in [Threads -> ThreadStates]
<1>1. StoreSize(t, thread[t].to, thread[t].size + Len(thread[t].data)) /\ thread[t].pc = "added"
  BY DEF StoreAdded
<1>2. thread[t].to \in Threads /\ thread[t].size + Len(thread[t].data) \in Int
  BY ThreadsTyped
<1>3. /\ bufSize'[thread[t].to] = thread[t].size + Len(thread[t].data)
      /\ \A u \in Threads \ {thread[t].to} : bufSize'[u] = bufSize[u]
      /\ bufSize' \in [Threads -> Int] /\ lostUpdate' \in BOOLEAN
      /\ ~lostUpdate' => ~lostUpdate /\ bufSize[thread[t].to] = thread[t].size
  BY <1>1, <1>2, StoreSizeDoes
<1>4. /\ OthersStay(t) /\ thread' \in [Threads -> ThreadStates] /\ thread'[t].want = thread[t].want
      /\ \/ /\ thread[t].to = "file" /\ thread'[t].pc = "append" /\ thread'[t].to = "index"
            /\ thread'[t].data = thread[t].data
         \/ thread[t].to = "index" /\ thread'[t].pc = "fill" /\ thread'[t].data = <<>>
  <2>1. CASE thread[t].to = "file"
    <3> DEFINE new == [thread[t] EXCEPT !.pc = "append", !.to = "index"]
    <3>1. new \in ThreadStates /\ new.pc = "append" /\ new.to = "index"
          /\ new.data = thread[t].data /\ new.want = thread[t].want
      BY ThreadsTyped DEF ThreadStates, ThreadPcs, Threads
    <3>2. Becomes(t, new)
      BY <2>1, ThreadsTyped DEF Becomes, StoreAdded
    <3> HIDE DEF new
    <3>3. QED
      BY <2>1, <3>1, <3>2, ThreadMoves DEF OthersStay
  <2>2. CASE thread[t].to # "file"
    <3> DEFINE new == [thread[t] EXCEPT !.pc = "fill", !.data = <<>>]
    <3>1. new \in ThreadStates /\ new.pc = "fill" /\ new.data = <<>> /\ new.want = thread[t].want
      <4>1. thread[t] \in ThreadStates /\ <<>> \in Seq(Nat)
        BY ThreadsTyped
      <4>2. QED
        BY <4>1 DEF ThreadStates, ThreadPcs
    <3>2. Becomes(t, new)
      BY <2>2, ThreadsTyped DEF Becomes, StoreAdded
    <3> HIDE DEF new
    <3>3. thread[t].to = "index"
      BY <1>2, <2>2 DEF Threads
    <3>4. QED
      BY <3>1, <3>2, <3>3, ThreadMoves DEF OthersStay
  <2>3. QED
    BY <2>1, <2>2
<1>5. QED
  BY <1>1, <1>3, <1>4

LEMMA TakeChunkDoes ==
    ASSUME UploadTypeOK, NEW t \in Threads, TakeChunk(t)
    PROVE  /\ thread[t].pc = "take" /\ Wanting(t) /\ OthersStay(t)
           /\ thread'[t].pc = "take" /\ thread'[t].want = thread[t].want
           /\ thread'[t].data = thread[t].data \o Head(buf[t])
           /\ buf'[t] = Tail(buf[t]) /\ \A u \in Threads \ {t} : buf'[u] = buf[u]
           /\ buf' \in [Threads -> Seq(Seq(Nat))]
           /\ thread' \in [Threads -> ThreadStates]
<1> DEFINE new == [thread[t] EXCEPT !.data = thread[t].data \o Head(buf[t])]
<1>1. buf[t] \in Seq(Seq(Nat)) /\ buf[t] # <<>>
  BY ThreadsTyped DEF TakeChunk, Wanting
<1>2. Head(buf[t]) \in Seq(Nat) /\ Tail(buf[t]) \in Seq(Seq(Nat))
  BY <1>1, HeadTailProperties
<1>3. thread[t].data \o Head(buf[t]) \in Seq(Nat)
  BY <1>2, ThreadsTyped, ConcatProperties
<1>4. new \in ThreadStates /\ new.pc = thread[t].pc /\ new.want = thread[t].want
      /\ new.data = thread[t].data \o Head(buf[t])
  <2>1. thread[t] \in ThreadStates /\ thread[t].data \o Head(buf[t]) \in Seq(Nat)
    BY <1>3, ThreadsTyped
  <2>2. QED
    BY <2>1 DEF ThreadStates, ThreadPcs
<1>5. Becomes(t, new)
  BY ThreadsTyped DEF Becomes, TakeChunk
<1> HIDE DEF new
<1>6. /\ buf'[t] = Tail(buf[t]) /\ \A u \in Threads \ {t} : buf'[u] = buf[u]
      /\ buf' \in [Threads -> Seq(Seq(Nat))]
  BY <1>2 DEF UploadTypeOK, TakeChunk
<1>7. thread[t].pc = "take" /\ Wanting(t)
  BY DEF TakeChunk
<1>8. QED
  BY <1>4, <1>5, <1>6, <1>7, ThreadMoves DEF OthersStay

LEMMA GiveBackRestDoes ==
    ASSUME UploadTypeOK, NEW t \in Threads, GiveBackRest(t)
    PROVE  LET n == Len(thread[t].data)
               taken == Least(thread[t].want, n)
               rest == SubSeq(thread[t].data, taken + 1, n)
           IN  /\ thread[t].pc = "take" /\ ~Wanting(t) /\ OthersStay(t)
               /\ thread'[t].pc = "subtract" /\ thread'[t].data = SubSeq(thread[t].data, 1, taken)
               /\ buf'[t] = (IF rest = <<>> THEN <<>> ELSE <<rest>>) \o buf[t]
               /\ \A u \in Threads \ {t} : buf'[u] = buf[u]
               /\ buf' \in [Threads -> Seq(Seq(Nat))]
               /\ thread' \in [Threads -> ThreadStates]
<1> DEFINE n == Len(thread[t].data)
           taken == Least(thread[t].want, n)
           start == SubSeq(thread[t].data, 1, taken)
           rest == SubSeq(thread[t].data, taken + 1, n)
           back == (IF rest = <<>> THEN <<>> ELSE <<rest>>) \o buf[t]
           new == [thread[t] EXCEPT !.pc = "subtract", !.data = start]
<1>1. n \in Nat /\ taken \in Nat /\ taken <= n
  BY ThreadsTyped DEF Least
<1>2. start \in Seq(Nat) /\ rest \in Seq(Nat)
  <2>1. \A m \in 1 .. n : thread[t].data[m] \in Nat
    BY ThreadsTyped
  <2>2. (\A m \in 1 .. taken : m \in 1 .. n) /\ (\A m \in taken + 1 .. n : m \in 1 .. n)
    BY <1>1
  <2>3. (\A m \in 1 .. taken : thread[t].data[m] \in Nat)
        /\ (\A m \in taken + 1 .. n : thread[t].data[m] \in Nat)
    BY <2>1, <2>2
  <2>4. start \in Seq(Nat)
    BY <1>1, <2>3, SubSeqProperties
  <2>5. rest \in Seq(Nat)
    BY <1>1, <2>3, SubSeqProperties
  <2>6. QED
    BY <2>4, <2>5
<1>3. Becomes(t, new) /\ buf' = [buf EXCEPT ![t] = back] /\ thread[t].pc = "take" /\ ~Wanting(t)
  BY ThreadsTyped DEF Becomes, GiveBackRest
<1> HIDE DEF n, taken, start, rest
<1>4. back \in Seq(Seq(Nat))
  <2>1. <<>> \in Seq(Seq(Nat)) /\ <<rest>> \in Seq(Seq(Nat))
    BY <1>2
  <2>2. QED
    BY <2>1, ThreadsTyped, ConcatProperties
<1>5. new \in ThreadStates /\ new.pc = "subtract" /\ new.data = start
  <2>1. thread[t] \in ThreadStates /\ start \in Seq(Nat)
    BY <1>2, ThreadsTyped
  <2>2. QED
    BY <2>1 DEF ThreadStates, ThreadPcs
<1> HIDE DEF new, back
<1>6. /\ buf'[t] = back /\ \A u \in Threads \ {t} : buf'[u] = buf[u]
      /\ buf' \in [Threads -> Seq(Seq(Nat))]
  BY <1>3, <1>4 DEF UploadTypeOK
<1>7. OthersStay(t) /\ thread'[t] = new /\ thread' \in [Threads -> ThreadStates]
  BY <1>3, <1>5, ThreadMoves DEF OthersStay
<1>8. QED
  BY <1>3, <1>5, <1>6, <1>7 DEF n, taken, start, rest, back

LEMMA LoadToSubtractDoes ==
    ASSUME UploadTypeOK, NEW t \in Threads, LoadToSubtract(t)
    PROVE  /\ thread[t].pc = "subtract" /\ OthersStay(t)
           /\ thread'[t].pc = "subtracted" /\ thread'[t].data = thread[t].data
           /\ thread' \in [Threads -> ThreadStates]
<1> DEFINE new == [thread[t] EXCEPT !.pc = "subtracted", !.size = bufSize[t]]
<1>1. new \in ThreadStates /\ new.pc = "subtracted" /\ new.data = thread[t].data
  <2>1. thread[t] \in ThreadStates /\ bufSize[t] \in Int
    BY ThreadsTyped
  <2>2. QED
    BY <2>1 DEF ThreadStates, ThreadPcs
<1>2. Becomes(t, new)
  BY ThreadsTyped DEF Becomes, LoadToSubtract
<1> HIDE DEF new
<1>3. QED
  BY <1>1, <1>2, ThreadMoves DEF LoadToSubtract, OthersStay

LEMMA StoreSubtractedDoes ==
    ASSUME UploadTypeOK, NEW t \in Threads, StoreSubtracted(t)
    PROVE  /\ thread[t].pc = "subtracted" /\ OthersStay(t)
           /\ \/ thread[t].data # <<>> /\ thread'[t].pc = "between"
              \/ thread[t].data = <<>> /\ thread'[t].pc \in {"ended", "failed"}
           /\ thread'[t].data = <<>>
           /\ got'[t] = got[t] \o thread[t].data /\ \A u \in Threads \ {t} : got'[u] = got[u]
           /\ got' \in [Threads -> Seq(Nat)]
           /\ bufSize'[t] = thread[t].size - Len(thread[t].data)
           /\ \A u \in Threads \ {t} : bufSize'[u] = bufSize[u]
           /\ bufSize' \in [Threads -> Int] /\ lostUpdate' \in BOOLEAN
           /\ ~lostUpdate' => ~lostUpdate /\ bufSize[t] = thread[t].size
           /\ thread' \in [Threads -> ThreadStates]
<1>1. StoreSize(t, t, thread[t].size - Len(thread[t].data)) /\ thread[t].pc = "subtracted"
  BY DEF StoreSubtracted
<1>2. thread[t].size - Len(thread[t].data) \in Int
  BY ThreadsTyped
<1>3. /\ bufSize'[t] = thread[t].size - Len(thread[t].data)
      /\ \A u \in Threads \ {t} : bufSize'[u] = bufSize[u]
      /\ bufSize' \in [Threads -> Int] /\ lostUpdate' \in BOOLEAN
      /\ ~lostUpdate' => ~lostUpdate /\ bufSize[t] = thread[t].size
  BY <1>1, <1>2, StoreSizeDoes
<1>4. /\ got'[t] = got[t] \o thread[t].data /\ \A u \in Threads \ {t} : got'[u] = got[u]
      /\ got' \in [Threads -> Seq(Nat)]
  <2>1. got[t] \o thread[t].data \in Seq(Nat)
    BY ThreadsTyped, ConcatProperties
  <2>2. QED
    BY <2>1 DEF UploadTypeOK, StoreSubtracted
<1>5. PICK pc \in IF thread[t].data # <<>> THEN {"between"}
                  ELSE IF t = "index" /\ got[t] # Content THEN {"ended", "failed"} ELSE {"ended"} :
          thread' = [thread EXCEPT ![t] = [Between EXCEPT !.pc = pc]]
  BY DEF StoreSubtracted
<1> DEFINE new == [Between EXCEPT !.pc = pc]
<1>6. \/ thread[t].data # <<>> /\ pc = "between"
      \/ thread[t].data = <<>> /\ pc \in {"ended", "failed"}
  BY <1>5
<1>7. new \in ThreadStates /\ new.pc = pc /\ new.data = <<>>
  <2>1. pc \in ThreadPcs
    BY <1>6 DEF ThreadPcs
  <2>2. QED
    BY <2>1, BetweenTyped DEF Between
<1>8. Becomes(t, new)
  BY <1>5 DEF Becomes
<1> HIDE DEF new
<1>9. OthersStay(t) /\ thread'[t] = new /\ thread' \in [Threads -> ThreadStates]
  BY <1>7, <1>8, ThreadMoves DEF OthersStay
<1>10. QED
  BY <1>1, <1>3, <1>4, <1>6, <1>7, <1>9

-----------------------------------------------------------------------------
(* The inductive invariant *)

Alive(t) == thread[t].pc \notin {"ended", "failed"}
Taking(t) == thread[t].pc \in {"take", "subtract", "subtracted"}

(* Who holds the lock has read from the stream and not yet told both       *)
(* buffers of it.                                                          *)
Telling == {"append", "add", "added"}
Filling == bufLock \in Threads /\ thread[bufLock].pc \in Telling
HasChunk(t) ==
    \/ t = "file" /\ thread[bufLock].to = "index"
    \/ t = thread[bufLock].to /\ thread[bufLock].pc \in {"add", "added"}
CountsChunk(t) == t = "file" /\ thread[bufLock].to = "index"

(* The bytes that have been put in a thread's buffer, those its size       *)
(* counts, and those the thread has taken out and not returned.            *)
Delivered(t) == IF Filling /\ ~HasChunk(t) THEN fed - Len(thread[bufLock].data) ELSE fed
Counted(t) == IF Filling /\ ~CountsChunk(t) THEN fed - Len(thread[bufLock].data) ELSE fed
InHand(t) == IF Taking(t) THEN Len(thread[t].data) ELSE 0

NotStarted == uploader = "start" => \A t \in Threads : thread[t].pc = "none"
Locked ==
    \A t \in Threads : thread[t].pc \in {"fill"} \union Telling => bufLock = t
Wants ==
    \A t \in Threads : thread[t].pc \in {"lock", "fill", "take"} \union Telling => thread[t].want > 0
ChunkIsLast ==
    Filling => LET d == Len(thread[bufLock].data)
               IN 0 < d /\ d <= fed /\ thread[bufLock].data = Bytes(fed - d + 1, fed)

(* Of a thread: what it was given is the beginning of the contents; what   *)
(* it has taken out and then what is in its buffer continue it; the size   *)
(* of its buffer is true; it finds nothing only at the end.                *)
InOrder(t) == Len(got[t]) <= fed /\ got[t] = Bytes(1, Len(got[t]))
Continues(t) ==
    Alive(t) =>
        /\ Taking(t) => thread[t].data = Bytes(Len(got[t]) + 1, Len(got[t]) + InHand(t))
        /\ Covers(buf[t], Len(got[t]) + InHand(t), Delivered(t))
SizeTrue(t) == ~lostUpdate /\ Alive(t) => bufSize[t] = Counted(t) - Len(got[t])
EmptyAtEnd(t) ==
    ~lostUpdate /\ Taking(t) /\ thread[t].data = <<>> =>
        \/ thread[t].pc = "take" /\ Delivered(t) > Len(got[t])
        \/ Len(got[t]) = ContentLength
HasAll(t) == ~lostUpdate /\ t = "file" /\ thread[t].pc = "ended" => Len(got[t]) = ContentLength

ThreadInv(t) == InOrder(t) /\ Continues(t) /\ SizeTrue(t) /\ EmptyAtEnd(t) /\ HasAll(t)

UploadInv ==
    /\ UploadTypeOK /\ NotStarted /\ Locked /\ Wants /\ ChunkIsLast
    /\ \A t \in Threads : ThreadInv(t)

(* Intermediate values are bytes of the stream. *)
LEMMA DeliveredIsNat ==
    ASSUME UploadTypeOK, ChunkIsLast, NEW t \in Threads
    PROVE  /\ Delivered(t) \in Nat /\ Delivered(t) <= fed
           /\ Counted(t) \in Nat /\ InHand(t) \in Nat
<1>1. CASE Filling
  <2>1. Len(thread[bufLock].data) \in Nat /\ Len(thread[bufLock].data) <= fed
    BY <1>1, ThreadsTyped DEF ChunkIsLast, Filling
  <2>2. QED
    BY <1>1, <2>1, ThreadsTyped DEF Delivered, Counted, InHand
<1>2. CASE ~Filling
  BY <1>2, ThreadsTyped DEF Delivered, Counted, InHand
<1>3. QED
  BY <1>1, <1>2

(* A step that has nothing to do with what was last read from the stream.  *)
LEMMA ChunkStays ==
    ASSUME NEW t \in Threads, OthersStay(t), fed' = fed,
           thread[t].pc \notin Telling, thread'[t].pc \notin Telling,
           \/ bufLock' = bufLock
           \/ bufLock \in {t, NoThread} /\ bufLock' \in {t, NoThread}
    PROVE  /\ \A u \in Threads : Delivered(u)' = Delivered(u) /\ Counted(u)' = Counted(u)
           /\ ChunkIsLast => ChunkIsLast'
<1>1. CASE bufLock \in Threads \ {t}
  <2>1. bufLock' = bufLock /\ thread'[bufLock] = thread[bufLock]
    BY <1>1, ReadSizesAssumption DEF OthersStay
  <2>2. Filling' <=> Filling
    BY <2>1 DEF Filling
  <2>3. \A u \in Threads : (HasChunk(u)' <=> HasChunk(u)) /\ (CountsChunk(u)' <=> CountsChunk(u))
    BY <2>1 DEF HasChunk, CountsChunk
  <2>4. \A u \in Threads : Delivered(u)' = Delivered(u) /\ Counted(u)' = Counted(u)
    BY <2>1, <2>2, <2>3 DEF Delivered, Counted
  <2>5. ChunkIsLast => ChunkIsLast'
    BY <2>1, <2>2 DEF ChunkIsLast
  <2>6. QED
    BY <2>4, <2>5
<1>2. CASE bufLock \notin Threads \ {t}
  <2>1. ~Filling /\ ~Filling'
    BY <1>2, ReadSizesAssumption DEF Filling
  <2>2. QED
    BY <2>1 DEF Delivered, Counted, ChunkIsLast
<1>3. QED
  BY <1>1, <1>2

(* What is asked of a thread holds on when only the size of its buffer may *)
(* be lost track of, and more may be delivered to it than before.          *)
LEMMA ThreadStays ==
    ASSUME NEW u \in Threads, ThreadInv(u), UploadTypeOK, UploadTypeOK', ChunkIsLast,
           thread'[u] = thread[u], got'[u] = got[u], buf'[u] = buf[u], bufSize'[u] = bufSize[u],
           Delivered(u)' = Delivered(u), Counted(u)' = Counted(u), fed <= fed',
           ~lostUpdate' => ~lostUpdate
    PROVE  ThreadInv(u)'
<1>1. (Alive(u)' <=> Alive(u)) /\ (Taking(u)' <=> Taking(u)) /\ InHand(u)' = InHand(u)
  BY DEF Alive, Taking, InHand
<1>2. InOrder(u)'
  <2>1. Len(got[u]) \in Nat /\ fed \in Nat /\ fed' \in Nat
    BY ThreadsTyped DEF UploadTypeOK
  <2>2. QED
    BY <2>1 DEF ThreadInv, InOrder
<1>3. Continues(u)'
  BY <1>1 DEF ThreadInv, Continues
<1>4. SizeTrue(u)'
  BY <1>1 DEF ThreadInv, SizeTrue
<1>5. EmptyAtEnd(u)'
  BY <1>1 DEF ThreadInv, EmptyAtEnd
<1>6. HasAll(u)'
  BY DEF ThreadInv, HasAll
<1>7. QED
  BY <1>2, <1>3, <1>4, <1>5, <1>6 DEF ThreadInv

(* The same of the thread that moves on, with nothing in hand before or    *)
(* after.                                                                  *)
LEMMA ThreadGoesOn ==
    ASSUME NEW t \in Threads, ThreadInv(t), UploadTypeOK, UploadTypeOK', ChunkIsLast,
           Alive(t), ~Taking(t), ~Taking(t)', thread'[t].pc # "ended",
           got'[t] = got[t], buf'[t] = buf[t], bufSize'[t] = bufSize[t],
           Delivered(t)' = Delivered(t), Counted(t)' = Counted(t), fed <= fed',
           ~lostUpdate' => ~lostUpdate
    PROVE  ThreadInv(t)'
<1>1. InHand(t)' = InHand(t)
  BY DEF InHand
<1>2. InOrder(t)'
  <2>1. Len(got[t]) \in Nat /\ fed \in Nat /\ fed' \in Nat
    BY ThreadsTyped DEF UploadTypeOK
  <2>2. QED
    BY <2>1 DEF ThreadInv, InOrder
<1>3. Continues(t)'
  BY <1>1 DEF ThreadInv, Continues
<1>4. SizeTrue(t)'
  BY <1>1 DEF ThreadInv, SizeTrue
<1>5. EmptyAtEnd(t)' /\ HasAll(t)'
  BY DEF EmptyAtEnd, HasAll
<1>6. QED
  BY <1>2, <1>3, <1>4, <1>5 DEF ThreadInv

-----------------------------------------------------------------------------
(* The steps *)

(* A step at the stream keeps the types. *)
LEMMA StreamTyped ==
    ASSUME UploadTypeOK, NEW t \in Threads, Stream(t), thread[t].pc = "fill" => thread[t].want > 0
    PROVE  UploadTypeOK'
<1>1. UNCHANGED <<uploader, bundle, uploadFaults>>
  BY DEF Stream
<1>2. SUFFICES /\ fed' \in 0 .. ContentLength /\ bufLock' \in Threads \union {NoThread}
               /\ buf' \in [Threads -> Seq(Seq(Nat))] /\ bufSize' \in [Threads -> Int]
               /\ thread' \in [Threads -> ThreadStates] /\ got' \in [Threads -> Seq(Nat)]
               /\ lostUpdate' \in BOOLEAN
  BY <1>1 DEF UploadTypeOK, ThreadStates, ThreadPcs
<1>3. CASE Read(t)
  BY <1>3, ReadDoes DEF Read, UploadTypeOK
<1>4. CASE Lock(t)
  BY <1>4, LockDoes DEF Lock, UploadTypeOK
<1>5. CASE ReadStream(t)
  <2>1. /\ fed' \in Nat /\ fed < fed' /\ fed' <= ContentLength
        /\ thread' \in [Threads -> ThreadStates]
    BY <1>5, ReadStreamDoes DEF ReadStream
  <2>2. fed' \in 0 .. ContentLength
    BY <2>1, ThreadsTyped
  <2>3. QED
    BY <1>5, <2>1, <2>2 DEF ReadStream, UploadTypeOK
<1>6. CASE Unlock(t)
  BY <1>6, UnlockDoes DEF Unlock, UploadTypeOK
<1>7. CASE AppendChunk(t)
  BY <1>7, AppendChunkDoes DEF AppendChunk, UploadTypeOK
<1>8. CASE LoadToAdd(t)
  BY <1>8, LoadToAddDoes DEF LoadToAdd, UploadTypeOK
<1>9. CASE StoreAdded(t)
  BY <1>9, StoreAddedDoes DEF StoreAdded, UploadTypeOK
<1>10. CASE TakeChunk(t)
  BY <1>10, TakeChunkDoes DEF TakeChunk, UploadTypeOK
<1>11. CASE GiveBackRest(t)
  BY <1>11, GiveBackRestDoes DEF GiveBackRest, UploadTypeOK
<1>12. CASE LoadToSubtract(t)
  BY <1>12, LoadToSubtractDoes DEF LoadToSubtract, UploadTypeOK
<1>13. CASE StoreSubtracted(t)
  BY <1>13, StoreSubtractedDoes DEF StoreSubtracted, UploadTypeOK
<1>14. QED
  BY <1>3, <1>4, <1>5, <1>6, <1>7, <1>8, <1>9, <1>10, <1>11, <1>12, <1>13 DEF Stream

(* A step that keeps hold of the lock, or leaves it, keeps what it stands  *)
(* for.                                                                    *)
LEMMA LockStays ==
    ASSUME UploadInv, NEW t \in Threads, OthersStay(t), thread[t].pc # "none", uploader' = uploader,
           thread'[t].pc \in {"fill"} \union Telling => bufLock' = t,
           thread'[t].pc \in {"lock", "fill", "take"} \union Telling => thread'[t].want > 0,
           \/ bufLock' = bufLock
           \/ bufLock \in {t, NoThread} /\ bufLock' \in {t, NoThread}
    PROVE  NotStarted' /\ Locked' /\ Wants'
<1>1. NotStarted'
  BY DEF UploadInv, NotStarted
<1>2. Locked'
  <2> SUFFICES ASSUME NEW u \in Threads, thread'[u].pc \in {"fill"} \union Telling
               PROVE  bufLock' = u
    BY DEF Locked
  <2>1. CASE u # t
    <3>1. thread'[u] = thread[u]
      BY <2>1 DEF OthersStay
    <3>2. bufLock = u /\ bufLock # t /\ bufLock # NoThread
      BY <2>1, <3>1, ReadSizesAssumption DEF UploadInv, Locked
    <3>3. QED
      BY <3>2
  <2>2. QED
    BY <2>1
<1>3. Wants'
  BY DEF UploadInv, Wants, OthersStay
<1>4. QED
  BY <1>1, <1>2, <1>3

(* What Locked says of the thread that reads and tells.                    *)
LEMMA TheTeller ==
    ASSUME UploadInv, NEW t \in Threads, thread[t].pc \in Telling
    PROVE  /\ bufLock = t /\ Filling
           /\ 0 < Len(thread[t].data) /\ Len(thread[t].data) <= fed
           /\ thread[t].data = Bytes(fed - Len(thread[t].data) + 1, fed)
<1>1. bufLock = t /\ Filling
  BY DEF UploadInv, Locked, Filling
<1>2. QED
  BY <1>1 DEF UploadInv, ChunkIsLast

LEMMA ReadKeeps ==
    ASSUME UploadInv, UploadTypeOK', NEW t \in Threads, Read(t), uploader' = uploader
    PROVE  UploadInv'
<1>1. UploadTypeOK /\ ChunkIsLast /\ \A u \in Threads : ThreadInv(u)
  BY DEF UploadInv
<1>2. /\ thread[t].pc = "between" /\ OthersStay(t)
      /\ thread'[t].pc = "lock" /\ thread'[t].want > 0
  BY <1>1, ReadDoes
<1>3. UNCHANGED <<fed, bufLock, buf, bufSize, got, lostUpdate>>
  BY DEF Read
<1>4. /\ \A u \in Threads : Delivered(u)' = Delivered(u) /\ Counted(u)' = Counted(u)
      /\ ChunkIsLast'
  BY <1>1, <1>2, <1>3, ChunkStays DEF Telling
<1>5. NotStarted' /\ Locked' /\ Wants'
  BY <1>2, <1>3, LockStays DEF Telling
<1>6. fed \in Nat /\ fed <= fed' /\ (~lostUpdate' => ~lostUpdate)
  BY <1>1, <1>3, ThreadsTyped
<1>7. ThreadInv(t)'
  <2>1. Alive(t) /\ ~Taking(t) /\ ~Taking(t)' /\ thread'[t].pc # "ended"
    BY <1>2 DEF Alive, Taking
  <2>2. QED
    BY <1>1, <1>3, <1>4, <1>6, <2>1, ThreadGoesOn
<1>8. \A u \in Threads \ {t} : ThreadInv(u)'
  BY <1>1, <1>2, <1>3, <1>4, <1>6, ThreadStays DEF OthersStay
<1>9. QED
  BY <1>4, <1>5, <1>7, <1>8 DEF UploadInv

LEMMA LockKeeps ==
    ASSUME UploadInv, UploadTypeOK', NEW t \in Threads, Lock(t), uploader' = uploader
    PROVE  UploadInv'
<1>1. UploadTypeOK /\ ChunkIsLast /\ \A u \in Threads : ThreadInv(u)
  BY DEF UploadInv
<1>2. /\ thread[t].pc = "lock" /\ bufLock = NoThread /\ bufLock' = t /\ OthersStay(t)
      /\ thread'[t].pc = "fill" /\ thread'[t].want = thread[t].want
  BY <1>1, LockDoes
<1>3. UNCHANGED <<fed, buf, bufSize, got, lostUpdate>>
  BY DEF Lock
<1>4. /\ \A u \in Threads : Delivered(u)' = Delivered(u) /\ Counted(u)' = Counted(u)
      /\ ChunkIsLast'
  BY <1>1, <1>2, <1>3, ChunkStays DEF Telling
<1>5. NotStarted' /\ Locked' /\ Wants'
  <2>1. thread[t].want > 0
    BY <1>2 DEF UploadInv, Wants
  <2>2. QED
    BY <1>2, <1>3, <2>1, LockStays DEF Telling
<1>6. fed \in Nat /\ fed <= fed' /\ (~lostUpdate' => ~lostUpdate)
  BY <1>1, <1>3, ThreadsTyped
<1>7. ThreadInv(t)'
  <2>1. Alive(t) /\ ~Taking(t) /\ ~Taking(t)' /\ thread'[t].pc # "ended"
    BY <1>2 DEF Alive, Taking
  <2>2. QED
    BY <1>1, <1>3, <1>4, <1>6, <2>1, ThreadGoesOn
<1>8. \A u \in Threads \ {t} : ThreadInv(u)'
  BY <1>1, <1>2, <1>3, <1>4, <1>6, ThreadStays DEF OthersStay
<1>9. QED
  BY <1>4, <1>5, <1>7, <1>8 DEF UploadInv

LEMMA ReadStreamKeeps ==
    ASSUME UploadInv, UploadTypeOK', NEW t \in Threads, ReadStream(t), uploader' = uploader
    PROVE  UploadInv'
<1>1. UploadTypeOK /\ ChunkIsLast /\ \A u \in Threads : ThreadInv(u)
  BY DEF UploadInv
<1>2. thread[t].pc = "fill" /\ thread[t].want > 0 /\ bufLock = t
  BY DEF ReadStream, UploadInv, Wants, Locked
<1>3. /\ OthersStay(t) /\ fed' \in Nat /\ fed < fed' /\ fed' <= ContentLength
      /\ thread'[t].pc = "append" /\ thread'[t].want = thread[t].want
      /\ thread'[t].data = Bytes(fed + 1, fed') /\ thread'[t].to = "file"
      /\ Len(thread'[t].data) = fed' - fed
  BY <1>1, <1>2, ReadStreamDoes
<1>4. UNCHANGED <<bufLock, buf, bufSize, got, lostUpdate>>
  BY DEF ReadStream
<1>5. fed \in Nat /\ fed <= fed' /\ (~lostUpdate' => ~lostUpdate)
  BY <1>1, <1>3, <1>4, ThreadsTyped
<1>6. ~Filling /\ Filling' /\ \A u \in Threads : ~HasChunk(u)' /\ ~CountsChunk(u)'
  BY <1>2, <1>3, <1>4 DEF Filling, Telling, HasChunk, CountsChunk
<1>7. fed' - Len(thread'[t].data) = fed
  BY <1>3, <1>5
<1>8. \A u \in Threads : Delivered(u)' = Delivered(u) /\ Counted(u)' = Counted(u)
  BY <1>2, <1>4, <1>6, <1>7 DEF Delivered, Counted
<1>9. ChunkIsLast'
  BY <1>2, <1>3, <1>4, <1>5, <1>7 DEF ChunkIsLast
<1>10. NotStarted' /\ Locked' /\ Wants'
  BY <1>2, <1>3, <1>4, LockStays
<1>11. ThreadInv(t)'
  <2>1. Alive(t) /\ ~Taking(t) /\ ~Taking(t)' /\ thread'[t].pc # "ended"
    BY <1>2, <1>3 DEF Alive, Taking
  <2>2. QED
    BY <1>1, <1>4, <1>5, <1>8, <2>1, ThreadGoesOn
<1>12. \A u \in Threads \ {t} : ThreadInv(u)'
  BY <1>1, <1>3, <1>4, <1>5, <1>8, ThreadStays DEF OthersStay
<1>13. QED
  BY <1>9, <1>10, <1>11, <1>12 DEF UploadInv

LEMMA UnlockKeeps ==
    ASSUME UploadInv, UploadTypeOK', NEW t \in Threads, Unlock(t), uploader' = uploader
    PROVE  UploadInv'
<1>1. UploadTypeOK /\ ChunkIsLast /\ \A u \in Threads : ThreadInv(u)
  BY DEF UploadInv
<1>2. /\ thread[t].pc = "fill" /\ EnoughBytes(t) /\ bufLock' = NoThread /\ OthersStay(t)
      /\ thread'[t].pc = "take" /\ thread'[t].want = thread[t].want
      /\ thread'[t].data = <<>>
  BY <1>1, UnlockDoes
<1>3. UNCHANGED <<fed, buf, bufSize, got, lostUpdate>>
  BY DEF Unlock
<1>4. bufLock = t /\ thread[t].want > 0
  BY <1>2 DEF UploadInv, Locked, Wants
<1>5. /\ \A u \in Threads : Delivered(u)' = Delivered(u) /\ Counted(u)' = Counted(u)
      /\ ChunkIsLast'
  BY <1>1, <1>2, <1>3, <1>4, ChunkStays DEF Telling
<1>6. NotStarted' /\ Locked' /\ Wants'
  BY <1>2, <1>3, <1>4, LockStays DEF Telling
<1>7. fed \in Nat /\ fed <= fed' /\ (~lostUpdate' => ~lostUpdate) /\ Len(got[t]) \in Nat
  BY <1>1, <1>3, ThreadsTyped
<1>8. ThreadInv(t)'
  <2>1. Alive(t) /\ ~Taking(t) /\ Taking(t)' /\ InHand(t) = 0 /\ InHand(t)' = 0
    BY <1>2 DEF Alive, Taking, InHand
  <2>2. InOrder(t)'
    BY <1>1, <1>3 DEF ThreadInv, InOrder
  <2>3. Continues(t)'
    <3>1. Bytes(Len(got[t]) + 1, Len(got[t]) + 0) = <<>>
      BY <1>7, BytesType
    <3>2. QED
      BY <1>1, <1>2, <1>3, <1>5, <2>1, <3>1 DEF ThreadInv, Continues
  <2>4. SizeTrue(t)'
    BY <1>1, <1>3, <1>5, <2>1 DEF ThreadInv, SizeTrue
  <2>5. EmptyAtEnd(t)'
    <3> SUFFICES ASSUME ~lostUpdate PROVE Delivered(t) > Len(got[t]) \/ Len(got[t]) = ContentLength
      BY <1>2, <1>3, <1>5 DEF EmptyAtEnd
    <3>1. ~Filling
      BY <1>2, <1>4 DEF Filling, Telling
    <3>2. Delivered(t) = fed /\ Counted(t) = fed
      BY <3>1 DEF Delivered, Counted
    <3>3. bufSize[t] = fed - Len(got[t]) /\ Len(got[t]) <= fed
      BY <1>1, <2>1, <3>2 DEF ThreadInv, SizeTrue, InOrder
    <3>4. fed - Len(got[t]) >= thread[t].want \/ fed = ContentLength
      BY <1>2, <3>3 DEF EnoughBytes
    <3>5. QED
      BY <1>1, <1>4, <1>7, <3>2, <3>3, <3>4, ThreadsTyped
  <2>6. HasAll(t)'
    BY <1>2 DEF HasAll
  <2>7. QED
    BY <2>2, <2>3, <2>4, <2>5, <2>6 DEF ThreadInv
<1>9. \A u \in Threads \ {t} : ThreadInv(u)'
  BY <1>1, <1>2, <1>3, <1>5, <1>7, ThreadStays DEF OthersStay
<1>10. QED
  BY <1>5, <1>6, <1>8, <1>9 DEF UploadInv

(* The size of a buffer is written after the bytes are in it.              *)
LEMMA CountKeeps ==
    ASSUME UploadInv, UploadTypeOK', NEW t \in Threads, NEW of \in Threads, NEW d \in Nat,
           OthersStay(t), thread[t].pc = "added", thread'[t].pc \in {"append", "fill"},
           bufSize'[of] = thread[t].size + d,
           \A u \in Threads \ {of} : bufSize'[u] = bufSize[u],
           ~lostUpdate' => ~lostUpdate /\ bufSize[of] = thread[t].size,
           UNCHANGED <<fed, buf, got>>,
           \A u \in Threads : Delivered(u)' = Delivered(u),
           \A u \in Threads \ {of} : Counted(u)' = Counted(u),
           Counted(of) = fed - d, Counted(of)' = fed,
           ChunkIsLast', NotStarted', Locked', Wants'
    PROVE  UploadInv'
<1>1. UploadTypeOK /\ ChunkIsLast /\ \A u \in Threads : ThreadInv(u)
  BY DEF UploadInv
<1>2. fed \in Nat /\ fed <= fed' /\ (~lostUpdate' => ~lostUpdate)
  BY <1>1, ThreadsTyped
<1>3. /\ \A u \in Threads : (Alive(u)' <=> Alive(u)) /\ (Taking(u)' <=> Taking(u)) /\ InHand(u)' = InHand(u)
      /\ \A u \in Threads : Taking(u) => thread'[u].data = thread[u].data /\ thread'[u].pc = thread[u].pc
      /\ \A u \in Threads : thread'[u].pc = "ended" => thread[u].pc = "ended"
  BY DEF Alive, Taking, InHand, OthersStay
<1>4. ASSUME NEW u \in Threads PROVE InOrder(u)' /\ Continues(u)' /\ EmptyAtEnd(u)' /\ HasAll(u)'
  <2>1. InOrder(u)'
    BY <1>1 DEF ThreadInv, InOrder
  <2>2. Continues(u)'
    BY <1>1, <1>3 DEF ThreadInv, Continues
  <2>3. EmptyAtEnd(u)'
    BY <1>1, <1>2, <1>3 DEF ThreadInv, EmptyAtEnd
  <2>4. HasAll(u)'
    BY <1>1, <1>2, <1>3 DEF ThreadInv, HasAll
  <2>5. QED
    BY <2>1, <2>2, <2>3, <2>4
<1>5. SizeTrue(of)'
  <2> SUFFICES ASSUME ~lostUpdate', Alive(of) PROVE bufSize'[of] = fed - Len(got[of])
    BY <1>3 DEF SizeTrue
  <2>1. bufSize[of] = (fed - d) - Len(got[of]) /\ bufSize[of] = thread[t].size
    BY <1>1 DEF ThreadInv, SizeTrue
  <2>2. Len(got[of]) \in Nat
    BY <1>1, ThreadsTyped
  <2>3. QED
    BY <1>2, <2>1, <2>2
<1>6. \A u \in Threads \ {of} : SizeTrue(u)'
  BY <1>1, <1>2, <1>3 DEF ThreadInv, SizeTrue
<1>7. QED
  BY <1>4, <1>5, <1>6 DEF UploadInv, ThreadInv

LEMMA AppendChunkKeeps ==
    ASSUME UploadInv, UploadTypeOK', NEW t \in Threads, AppendChunk(t), uploader' = uploader
    PROVE  UploadInv'
<1>0. PICK of \in Threads : of = thread[t].to
  BY ThreadsTyped DEF UploadInv
<1> DEFINE d == Len(thread[t].data)
<1>1. UploadTypeOK /\ ChunkIsLast /\ \A u \in Threads : ThreadInv(u)
  BY DEF UploadInv
<1>2. /\ thread[t].pc = "append" /\ OthersStay(t)
      /\ thread'[t].pc = "add" /\ thread'[t].want = thread[t].want
      /\ thread'[t].data = thread[t].data /\ thread'[t].to = of
      /\ buf'[of] = Append(buf[of], thread[t].data)
      /\ \A u \in Threads \ {of} : buf'[u] = buf[u]
  BY <1>0, <1>1, AppendChunkDoes
<1>3. UNCHANGED <<fed, bufLock, bufSize, got, lostUpdate>>
  BY DEF AppendChunk
<1>4. /\ bufLock = t /\ Filling /\ 0 < d /\ d <= fed
      /\ thread[t].data = Bytes(fed - d + 1, fed)
  BY <1>2, TheTeller DEF Telling
<1>5. fed \in Nat /\ d \in Nat /\ of \in Threads /\ fed <= fed' /\ (~lostUpdate' => ~lostUpdate)
  BY <1>1, <1>3, ThreadsTyped
<1>6. Filling'
  BY <1>2, <1>3, <1>4 DEF Filling, Telling
<1>7. \A u \in Threads : Counted(u)' = Counted(u)
  BY <1>0, <1>2, <1>3, <1>4, <1>6 DEF Counted, CountsChunk
<1>8. \A u \in Threads \ {of} : Delivered(u)' = Delivered(u)
  <2> SUFFICES ASSUME NEW u \in Threads \ {of} PROVE Delivered(u)' = Delivered(u)
    OBVIOUS
  <2>1. HasChunk(u)' <=> HasChunk(u)
    BY <1>0, <1>2, <1>3, <1>4 DEF HasChunk
  <2>2. QED
    BY <1>2, <1>3, <1>4, <1>6, <2>1 DEF Delivered
<1>9. Delivered(of) = fed - d /\ Delivered(of)' = fed
  <2>1. ~HasChunk(of) /\ HasChunk(of)'
    BY <1>0, <1>2, <1>3, <1>4 DEF HasChunk
  <2>2. QED
    BY <1>3, <1>4, <1>6, <2>1 DEF Delivered
<1>10. ChunkIsLast'
  BY <1>1, <1>2, <1>3, <1>4, <1>6 DEF ChunkIsLast
<1>11. NotStarted' /\ Locked' /\ Wants'
  <2>1. thread[t].want > 0
    BY <1>2 DEF UploadInv, Wants, Telling
  <2>2. QED
    BY <1>2, <1>3, <1>4, <2>1, LockStays
<1>12. /\ \A u \in Threads : (Alive(u)' <=> Alive(u)) /\ (Taking(u)' <=> Taking(u)) /\ InHand(u)' = InHand(u)
       /\ \A u \in Threads : Taking(u) => thread'[u].data = thread[u].data /\ thread'[u].pc = thread[u].pc
  BY <1>2 DEF Alive, Taking, InHand, OthersStay
<1>13. ThreadInv(of)'
  <2>1. InOrder(of)' /\ HasAll(of)' /\ SizeTrue(of)'
    <3>1. InOrder(of)'
      BY <1>1, <1>3, <1>5 DEF ThreadInv, InOrder
    <3>2. HasAll(of)'
      BY <1>1, <1>2, <1>3, <1>5 DEF ThreadInv, HasAll, OthersStay
    <3>3. SizeTrue(of)'
      BY <1>1, <1>3, <1>5, <1>7, <1>12 DEF ThreadInv, SizeTrue
    <3>4. QED
      BY <3>1, <3>2, <3>3
  <2>2. Continues(of)'
    <3> SUFFICES ASSUME Alive(of)
                 PROVE  /\ Taking(of) => thread[of].data = Bytes(Len(got[of]) + 1, Len(got[of]) + InHand(of))
                        /\ Covers(buf'[of], Len(got[of]) + InHand(of), fed)
      BY <1>3, <1>5, <1>9, <1>12 DEF Continues
    <3>1. /\ Taking(of) => thread[of].data = Bytes(Len(got[of]) + 1, Len(got[of]) + InHand(of))
          /\ Covers(buf[of], Len(got[of]) + InHand(of), fed - d)
      BY <1>1, <1>5, <1>9 DEF ThreadInv, Continues
    <3>2. buf[of] \in Seq(Seq(Nat)) /\ Len(got[of]) + InHand(of) \in Nat
      <4>1. Len(got[of]) \in Nat /\ InHand(of) \in Nat
        BY <1>1, <1>5, ThreadsTyped, DeliveredIsNat
      <4>2. QED
        BY <1>1, <1>5, <4>1, ThreadsTyped
    <3>3. fed - d \in Nat /\ fed - d < fed
      BY <1>4, <1>5
    <3> HIDE DEF d
    <3>4. Covers(Append(buf[of], Bytes((fed - d) + 1, fed)), Len(got[of]) + InHand(of), fed)
      BY <1>5, <3>1, <3>2, <3>3, CoversAppend
    <3>5. QED
      BY <1>2, <1>4, <3>1, <3>4
  <2>3. EmptyAtEnd(of)'
    <3> SUFFICES ASSUME ~lostUpdate, Taking(of), thread[of].data = <<>>
                 PROVE  \/ thread[of].pc = "take" /\ fed > Len(got[of])
                        \/ Len(got[of]) = ContentLength
      BY <1>3, <1>5, <1>9, <1>12 DEF EmptyAtEnd
    <3>1. \/ thread[of].pc = "take" /\ fed - d > Len(got[of])
          \/ Len(got[of]) = ContentLength
      BY <1>1, <1>5, <1>9 DEF ThreadInv, EmptyAtEnd
    <3>2. Len(got[of]) \in Nat
      BY <1>1, <1>5, ThreadsTyped
    <3>3. QED
      BY <1>4, <1>5, <3>1, <3>2
  <2>4. QED
    BY <2>1, <2>2, <2>3 DEF ThreadInv
<1>14. ASSUME NEW u \in Threads \ {of} PROVE ThreadInv(u)'
  <2>1. CASE u # t
    BY <1>1, <1>2, <1>3, <1>5, <1>7, <1>8, <2>1, ThreadStays DEF OthersStay
  <2>2. CASE u = t
    <3>1. Alive(t) /\ ~Taking(t) /\ ~Taking(t)' /\ thread'[t].pc # "ended"
      BY <1>2 DEF Alive, Taking
    <3>2. QED
      BY <1>1, <1>2, <1>3, <1>5, <1>7, <1>8, <2>2, <3>1, ThreadGoesOn
  <2>3. QED
    BY <2>1, <2>2
<1>15. QED
  BY <1>10, <1>11, <1>13, <1>14 DEF UploadInv

LEMMA LoadToAddKeeps ==
    ASSUME UploadInv, UploadTypeOK', NEW t \in Threads, LoadToAdd(t), uploader' = uploader
    PROVE  UploadInv'
<1>1. UploadTypeOK /\ ChunkIsLast /\ \A u \in Threads : ThreadInv(u)
  BY DEF UploadInv
<1>2. /\ thread[t].pc = "add" /\ OthersStay(t)
      /\ thread'[t].pc = "added" /\ thread'[t].want = thread[t].want
      /\ thread'[t].data = thread[t].data /\ thread'[t].to = thread[t].to
  BY <1>1, LoadToAddDoes
<1>3. UNCHANGED <<fed, bufLock, buf, bufSize, got, lostUpdate>>
  BY DEF LoadToAdd
<1>4. bufLock = t /\ Filling
  BY <1>2, TheTeller DEF Telling
<1>5. fed \in Nat /\ fed <= fed' /\ (~lostUpdate' => ~lostUpdate)
  BY <1>1, <1>3, ThreadsTyped
<1>6. Filling'
  BY <1>2, <1>3, <1>4 DEF Filling, Telling
<1>7. \A u \in Threads : (HasChunk(u)' <=> HasChunk(u)) /\ (CountsChunk(u)' <=> CountsChunk(u))
  BY <1>2, <1>3, <1>4 DEF HasChunk, CountsChunk
<1>8. \A u \in Threads : Delivered(u)' = Delivered(u) /\ Counted(u)' = Counted(u)
  BY <1>2, <1>3, <1>4, <1>6, <1>7 DEF Delivered, Counted
<1>9. ChunkIsLast'
  BY <1>1, <1>2, <1>3, <1>4, <1>6 DEF ChunkIsLast
<1>10. NotStarted' /\ Locked' /\ Wants'
  <2>1. thread[t].want > 0
    BY <1>2 DEF UploadInv, Wants, Telling
  <2>2. QED
    BY <1>2, <1>3, <1>4, <2>1, LockStays
<1>11. ThreadInv(t)'
  <2>1. Alive(t) /\ ~Taking(t) /\ ~Taking(t)' /\ thread'[t].pc # "ended"
    BY <1>2 DEF Alive, Taking
  <2>2. QED
    BY <1>1, <1>3, <1>5, <1>8, <2>1, ThreadGoesOn
<1>12. \A u \in Threads \ {t} : ThreadInv(u)'
  BY <1>1, <1>2, <1>3, <1>5, <1>8, ThreadStays DEF OthersStay
<1>13. QED
  BY <1>9, <1>10, <1>11, <1>12 DEF UploadInv

LEMMA StoreAddedKeeps ==
    ASSUME UploadInv, UploadTypeOK', NEW t \in Threads, StoreAdded(t), uploader' = uploader
    PROVE  UploadInv'
<1>0. PICK of \in Threads : of = thread[t].to
  BY ThreadsTyped DEF UploadInv
<1> DEFINE d == Len(thread[t].data)
<1>1. UploadTypeOK /\ ChunkIsLast /\ \A u \in Threads : ThreadInv(u)
  BY DEF UploadInv
<1>2. /\ thread[t].pc = "added" /\ OthersStay(t) /\ thread'[t].want = thread[t].want
      /\ \/ /\ of = "file" /\ thread'[t].pc = "append" /\ thread'[t].to = "index"
            /\ thread'[t].data = thread[t].data
         \/ of = "index" /\ thread'[t].pc = "fill" /\ thread'[t].data = <<>>
      /\ bufSize'[of] = thread[t].size + d
      /\ \A u \in Threads \ {of} : bufSize'[u] = bufSize[u]
      /\ ~lostUpdate' => ~lostUpdate /\ bufSize[of] = thread[t].size
  BY <1>0, <1>1, StoreAddedDoes
<1>3. UNCHANGED <<fed, bufLock, buf, got>>
  BY DEF StoreAdded
<1>4. /\ bufLock = t /\ Filling /\ 0 < d /\ d <= fed
      /\ thread[t].data = Bytes(fed - d + 1, fed)
  BY <1>2, TheTeller DEF Telling
<1>5. fed \in Nat /\ d \in Nat /\ of \in Threads /\ fed <= fed' /\ "file" # "index"
  BY <1>1, <1>3, ThreadsTyped
<1>6. CASE of = "file"
  <2>1. /\ thread'[t].pc = "append" /\ thread'[t].to = "index"
        /\ thread'[t].data = thread[t].data
    BY <1>2, <1>6
  <2>2. Filling'
    BY <1>3, <1>4, <2>1 DEF Filling, Telling
  <2>3. \A u \in Threads : HasChunk(u)' <=> HasChunk(u)
    BY <1>0, <1>2, <1>3, <1>4, <1>6, <2>1 DEF HasChunk, Threads
  <2>4. \A u \in Threads : Delivered(u)' = Delivered(u)
    BY <1>3, <1>4, <2>1, <2>2, <2>3 DEF Delivered
  <2>5. Counted("file") = fed - d /\ Counted("file")' = fed
    BY <1>0, <1>3, <1>4, <1>6, <2>1, <2>2 DEF Counted, CountsChunk
  <2>6. Counted("index")' = Counted("index")
    BY <1>0, <1>3, <1>4, <2>1, <2>2 DEF Counted, CountsChunk
  <2>7. ChunkIsLast'
    BY <1>1, <1>3, <1>4, <2>1, <2>2 DEF ChunkIsLast
  <2>8. NotStarted' /\ Locked' /\ Wants'
    <3>1. thread[t].want > 0
      BY <1>2 DEF UploadInv, Wants, Telling
    <3>2. QED
      BY <1>2, <1>3, <1>4, <3>1, LockStays
  <2>9. thread'[t].pc = "append"
    BY <2>1
  <2> HIDE DEF d
  <2>10. /\ \A u \in Threads \ {of} : Counted(u)' = Counted(u)
         /\ Counted(of) = fed - d /\ Counted(of)' = fed
    BY <1>6, <2>5, <2>6 DEF Threads
  <2>11. QED
    BY <1>1, <1>2, <1>3, <1>5, <2>4, <2>7, <2>8, <2>9, <2>10, CountKeeps DEF d
<1>7. CASE of = "index"
  <2>1. thread'[t].pc = "fill"
    BY <1>2, <1>7
  <2>2. ~Filling'
    BY <1>3, <1>4, <2>1 DEF Filling, Telling
  <2>3. \A u \in Threads : HasChunk(u)
    BY <1>0, <1>2, <1>4, <1>7 DEF HasChunk, Threads
  <2>4. \A u \in Threads : Delivered(u)' = Delivered(u)
    BY <1>3, <2>2, <2>3 DEF Delivered
  <2>5. Counted("index") = fed - d /\ Counted("index")' = fed
    BY <1>0, <1>3, <1>4, <2>2 DEF Counted, CountsChunk
  <2>6. Counted("file")' = Counted("file")
    BY <1>0, <1>3, <1>4, <1>7, <2>2 DEF Counted, CountsChunk
  <2>7. ChunkIsLast'
    BY <2>2 DEF ChunkIsLast
  <2>8. NotStarted' /\ Locked' /\ Wants'
    <3>1. thread[t].want > 0
      BY <1>2 DEF UploadInv, Wants, Telling
    <3>2. QED
      BY <1>2, <1>3, <1>4, <3>1, LockStays
  <2> HIDE DEF d
  <2>9. /\ \A u \in Threads \ {of} : Counted(u)' = Counted(u)
        /\ Counted(of) = fed - d /\ Counted(of)' = fed
    BY <1>7, <2>5, <2>6 DEF Threads
  <2>10. QED
    BY <1>1, <1>2, <1>3, <1>5, <2>1, <2>4, <2>7, <2>8, <2>9, CountKeeps DEF d
<1>8. QED
  BY <1>2, <1>6, <1>7

LEMMA TakeChunkKeeps ==
    ASSUME UploadInv, UploadTypeOK', NEW t \in Threads, TakeChunk(t), uploader' = uploader
    PROVE  UploadInv'
<1> DEFINE L == Len(got[t])
           h == InHand(t)
<1>1. UploadTypeOK /\ ChunkIsLast /\ \A u \in Threads : ThreadInv(u)
  BY DEF UploadInv
<1>2. /\ thread[t].pc = "take" /\ Wanting(t) /\ OthersStay(t)
      /\ thread'[t].pc = "take" /\ thread'[t].want = thread[t].want
      /\ thread'[t].data = thread[t].data \o Head(buf[t])
      /\ buf'[t] = Tail(buf[t]) /\ \A u \in Threads \ {t} : buf'[u] = buf[u]
  BY <1>1, TakeChunkDoes
<1>3. UNCHANGED <<fed, bufLock, bufSize, got, lostUpdate>>
  BY DEF TakeChunk
<1>4. /\ \A u \in Threads : Delivered(u)' = Delivered(u) /\ Counted(u)' = Counted(u)
      /\ ChunkIsLast'
  BY <1>1, <1>2, <1>3, ChunkStays DEF Telling
<1>5. fed \in Nat /\ fed <= fed' /\ (~lostUpdate' => ~lostUpdate) /\ L \in Nat /\ h \in Nat
  BY <1>1, <1>3, ThreadsTyped, DeliveredIsNat
<1>6. NotStarted' /\ Locked' /\ Wants'
  <2>1. thread[t].want > 0
    BY <1>2 DEF UploadInv, Wants
  <2>2. QED
    BY <1>2, <1>3, <2>1, LockStays DEF Telling
<1>7. ThreadInv(t)'
  <2>1. Alive(t) /\ Taking(t) /\ Alive(t)' /\ Taking(t)'
    BY <1>2 DEF Alive, Taking
  <2>2. thread[t].data = Bytes(L + 1, L + h) /\ Covers(buf[t], L + h, Delivered(t))
    BY <1>1, <2>1 DEF ThreadInv, Continues
  <2>3. buf[t] \in Seq(Seq(Nat)) /\ buf[t] # <<>> /\ L + h \in Nat /\ Delivered(t) \in Nat
    BY <1>1, <1>2, <1>5, ThreadsTyped, DeliveredIsNat DEF Wanting
  <2>4. PICK m \in Nat : /\ L + h < m /\ m <= Delivered(t) /\ Head(buf[t]) = Bytes((L + h) + 1, m)
                         /\ Covers(Tail(buf[t]), m, Delivered(t))
    <3> HIDE DEF L, h
    <3>1. QED
      BY <2>2, <2>3, CoversTail
  <2>5. L < m /\ L <= L + h /\ L + h <= m
    BY <1>5, <2>4
  <2>6. thread'[t].data = Bytes(L + 1, m)
    <3> HIDE DEF L, h
    <3>1. Bytes(L + 1, L + h) \o Bytes((L + h) + 1, m) = Bytes(L + 1, m)
      BY <1>5, <2>3, <2>4, <2>5, BytesJoin
    <3>2. QED
      BY <1>2, <2>2, <2>4, <3>1
  <2>7. Len(Bytes(L + 1, m)) = m - L /\ Bytes(L + 1, m) # <<>>
    <3> HIDE DEF L
    <3>1. L <= m /\ L # m
      BY <1>5, <2>5
    <3>2. QED
      BY <1>5, <3>1, BytesType
  <2>8. InHand(t)' = m - L /\ L + (m - L) = m
    <3>1. InHand(t)' = m - L
      BY <2>1, <2>6, <2>7 DEF InHand
    <3> HIDE DEF L
    <3>2. QED
      BY <1>5, <3>1
  <2>9. InOrder(t)'
    BY <1>1, <1>3 DEF ThreadInv, InOrder
  <2>10. Continues(t)'
    BY <1>2, <1>3, <1>4, <2>4, <2>6, <2>8 DEF Continues
  <2>11. SizeTrue(t)'
    BY <1>1, <1>3, <1>4, <2>1 DEF ThreadInv, SizeTrue
  <2>12. EmptyAtEnd(t)'
    BY <2>6, <2>7 DEF EmptyAtEnd
  <2>13. HasAll(t)'
    BY <1>2 DEF HasAll
  <2>14. QED
    BY <2>9, <2>10, <2>11, <2>12, <2>13 DEF ThreadInv
<1>8. \A u \in Threads \ {t} : ThreadInv(u)'
  BY <1>1, <1>2, <1>3, <1>4, <1>5, ThreadStays DEF OthersStay
<1>9. QED
  BY <1>4, <1>6, <1>7, <1>8 DEF UploadInv

LEMMA GiveBackRestKeeps ==
    ASSUME UploadInv, UploadTypeOK', NEW t \in Threads, GiveBackRest(t), uploader' = uploader
    PROVE  UploadInv'
<1> DEFINE L == Len(got[t])
           h == Len(thread[t].data)
           k == Least(thread[t].want, h)
           rest == SubSeq(thread[t].data, k + 1, h)
<1>1. UploadTypeOK /\ ChunkIsLast /\ \A u \in Threads : ThreadInv(u)
  BY DEF UploadInv
<1>2. /\ thread[t].pc = "take" /\ ~Wanting(t) /\ OthersStay(t)
      /\ thread'[t].pc = "subtract" /\ thread'[t].data = SubSeq(thread[t].data, 1, k)
      /\ buf'[t] = (IF rest = <<>> THEN <<>> ELSE <<rest>>) \o buf[t]
      /\ \A u \in Threads \ {t} : buf'[u] = buf[u]
  BY <1>1, GiveBackRestDoes
<1>3. UNCHANGED <<fed, bufLock, bufSize, got, lostUpdate>>
  BY DEF GiveBackRest
<1>4. /\ \A u \in Threads : Delivered(u)' = Delivered(u) /\ Counted(u)' = Counted(u)
      /\ ChunkIsLast'
  BY <1>1, <1>2, <1>3, ChunkStays DEF Telling
<1>5. fed \in Nat /\ fed <= fed' /\ (~lostUpdate' => ~lostUpdate) /\ L \in Nat /\ h \in Nat
  BY <1>1, <1>3, ThreadsTyped
<1>6. thread[t].want > 0 /\ thread[t].want \in Nat
  BY <1>1, <1>2, ThreadsTyped DEF UploadInv, Wants
<1>7. NotStarted' /\ Locked' /\ Wants'
  BY <1>2, <1>3, LockStays DEF Telling
<1>8. ThreadInv(t)'
  <2>1. Alive(t) /\ Taking(t) /\ Alive(t)' /\ Taking(t)' /\ InHand(t) = h
    BY <1>2 DEF Alive, Taking, InHand
  <2>2. thread[t].data = Bytes(L + 1, L + h) /\ Covers(buf[t], L + h, Delivered(t))
    BY <1>1, <2>1 DEF ThreadInv, Continues
  <2>3. k \in Nat /\ k <= h /\ (k = 0 => h = 0)
    BY <1>5, <1>6 DEF Least
  <2>4. buf[t] \in Seq(Seq(Nat)) /\ Delivered(t) \in Nat
    BY <1>1, ThreadsTyped, DeliveredIsNat
  <2>5. (L + k) - L = k /\ (L + h) - L = h
    BY <1>5, <2>3
  <2>6. thread'[t].data = Bytes(L + 1, L + k) /\ rest = Bytes((L + k) + 1, L + h)
    <3> HIDE DEF L, h, k
    <3>1. L + k \in Nat /\ L + h \in Nat /\ L <= L + k /\ L + k <= L + h
      BY <1>5, <2>3
    <3>2. /\ SubSeq(Bytes(L + 1, L + h), 1, (L + k) - L) = Bytes(L + 1, L + k)
          /\ SubSeq(Bytes(L + 1, L + h), (L + k) - L + 1, (L + h) - L) = Bytes((L + k) + 1, L + h)
      BY <1>5, <3>1, BytesParts, ZenonT(60)
    <3>3. QED
      BY <1>2, <2>2, <2>5, <3>2
  <2> HIDE DEF L, h, k, rest
  <2>7. /\ Len(Bytes(L + 1, L + k)) = k /\ (Bytes(L + 1, L + k) = <<>> => k = 0)
        /\ rest = <<>> <=> k = h
    <3>1. L + k \in Nat /\ L + h \in Nat /\ L <= L + k /\ L + k <= L + h
          /\ (L + k) - L = k /\ (L = L + k => k = 0) /\ (L + k = L + h <=> k = h)
      BY <1>5, <2>3
    <3>2. Len(Bytes(L + 1, L + k)) = (L + k) - L /\ (Bytes(L + 1, L + k) = <<>> <=> L = L + k)
      BY <1>5, <3>1, BytesType
    <3>3. Bytes((L + k) + 1, L + h) = <<>> <=> L + k = L + h
      BY <3>1, BytesType
    <3>4. QED
      BY <2>6, <3>1, <3>2, <3>3
  <2>8. InHand(t)' = k
    BY <2>1, <2>6, <2>7 DEF InHand
  <2>9. Covers(buf'[t], L + k, Delivered(t))
    <3>1. CASE k = h
      <4>1. buf'[t] = buf[t]
        BY <1>2, <2>4, <2>7, <3>1, ConcatEmptySeq DEF rest, h, k
      <4>2. QED
        BY <2>2, <3>1, <4>1
    <3>2. CASE k # h
      <4>1. L + k \in Nat /\ L + h \in Nat /\ L + k < L + h
        BY <1>5, <2>3, <3>2
      <4>2. buf'[t] = <<Bytes((L + k) + 1, L + h)>> \o buf[t]
        BY <1>2, <2>6, <2>7, <3>2 DEF rest, h, k
      <4>3. QED
        BY <2>2, <2>4, <4>1, <4>2, CoversPush, SMTT(30)
    <3>3. QED
      BY <3>1, <3>2
  <2>10. InOrder(t)'
    BY <1>1, <1>3 DEF ThreadInv, InOrder
  <2>11. Continues(t)'
    BY <1>3, <1>4, <2>6, <2>8, <2>9 DEF Continues, L
  <2>12. SizeTrue(t)'
    BY <1>1, <1>3, <1>4, <2>1 DEF ThreadInv, SizeTrue
  <2>13. EmptyAtEnd(t)'
    <3> SUFFICES ASSUME ~lostUpdate, k = 0 PROVE L = ContentLength
      BY <1>3, <2>6, <2>7 DEF EmptyAtEnd, L
    <3>1. h = 0 /\ thread[t].data = <<>>
      BY <1>1, <2>3, ThreadsTyped DEF h
    <3>2. buf[t] = <<>>
      BY <1>2, <1>6, <3>1 DEF Wanting, h
    <3>3. L = Delivered(t)
      <4>1. Covers(buf[t], L, Delivered(t))
        BY <1>5, <2>2, <3>1
      <4>2. QED
        BY <1>5, <2>4, <3>2, <4>1, CoversNothing
    <3>4. Delivered(t) > L \/ L = ContentLength
      BY <1>1, <2>1, <3>1 DEF ThreadInv, EmptyAtEnd, L
    <3>5. QED
      BY <1>5, <3>3, <3>4
  <2>14. HasAll(t)'
    BY <1>2 DEF HasAll
  <2>15. QED
    BY <2>10, <2>11, <2>12, <2>13, <2>14 DEF ThreadInv
<1>9. \A u \in Threads \ {t} : ThreadInv(u)'
  BY <1>1, <1>2, <1>3, <1>4, <1>5, ThreadStays DEF OthersStay
<1>10. QED
  BY <1>4, <1>7, <1>8, <1>9 DEF UploadInv

LEMMA LoadToSubtractKeeps ==
    ASSUME UploadInv, UploadTypeOK', NEW t \in Threads, LoadToSubtract(t), uploader' = uploader
    PROVE  UploadInv'
<1>1. UploadTypeOK /\ ChunkIsLast /\ \A u \in Threads : ThreadInv(u)
  BY DEF UploadInv
<1>2. /\ thread[t].pc = "subtract" /\ OthersStay(t)
      /\ thread'[t].pc = "subtracted" /\ thread'[t].data = thread[t].data
  BY <1>1, LoadToSubtractDoes
<1>3. UNCHANGED <<fed, bufLock, buf, bufSize, got, lostUpdate>>
  BY DEF LoadToSubtract
<1>4. /\ \A u \in Threads : Delivered(u)' = Delivered(u) /\ Counted(u)' = Counted(u)
      /\ ChunkIsLast'
  BY <1>1, <1>2, <1>3, ChunkStays DEF Telling
<1>5. fed \in Nat /\ fed <= fed' /\ (~lostUpdate' => ~lostUpdate)
  BY <1>1, <1>3, ThreadsTyped
<1>6. NotStarted' /\ Locked' /\ Wants'
  BY <1>2, <1>3, LockStays DEF Telling
<1>7. ThreadInv(t)'
  <2>1. Alive(t) /\ Taking(t) /\ Alive(t)' /\ Taking(t)' /\ InHand(t)' = InHand(t)
    BY <1>2 DEF Alive, Taking, InHand
  <2>2. InOrder(t)' /\ HasAll(t)'
    BY <1>1, <1>2, <1>3 DEF ThreadInv, InOrder, HasAll
  <2>3. Continues(t)'
    BY <1>1, <1>2, <1>3, <1>4, <2>1 DEF ThreadInv, Continues
  <2>4. SizeTrue(t)'
    BY <1>1, <1>3, <1>4, <2>1 DEF ThreadInv, SizeTrue
  <2>5. EmptyAtEnd(t)'
    BY <1>1, <1>2, <1>3, <1>5, <2>1 DEF ThreadInv, EmptyAtEnd
  <2>6. QED
    BY <2>2, <2>3, <2>4, <2>5 DEF ThreadInv
<1>8. \A u \in Threads \ {t} : ThreadInv(u)'
  BY <1>1, <1>2, <1>3, <1>4, <1>5, ThreadStays DEF OthersStay
<1>9. QED
  BY <1>4, <1>6, <1>7, <1>8 DEF UploadInv

LEMMA StoreSubtractedKeeps ==
    ASSUME UploadInv, UploadTypeOK', NEW t \in Threads, StoreSubtracted(t), uploader' = uploader
    PROVE  UploadInv'
<1> DEFINE L == Len(got[t])
           h == Len(thread[t].data)
<1>1. UploadTypeOK /\ ChunkIsLast /\ \A u \in Threads : ThreadInv(u)
  BY DEF UploadInv
<1>2. /\ thread[t].pc = "subtracted" /\ OthersStay(t)
      /\ \/ thread[t].data # <<>> /\ thread'[t].pc = "between"
         \/ thread[t].data = <<>> /\ thread'[t].pc \in {"ended", "failed"}
      /\ thread'[t].data = <<>>
      /\ got'[t] = got[t] \o thread[t].data /\ \A u \in Threads \ {t} : got'[u] = got[u]
      /\ bufSize'[t] = thread[t].size - h
      /\ \A u \in Threads \ {t} : bufSize'[u] = bufSize[u]
      /\ ~lostUpdate' => ~lostUpdate /\ bufSize[t] = thread[t].size
  BY <1>1, StoreSubtractedDoes
<1>3. UNCHANGED <<fed, bufLock, buf>>
  BY DEF StoreSubtracted
<1>4. /\ \A u \in Threads : Delivered(u)' = Delivered(u) /\ Counted(u)' = Counted(u)
      /\ ChunkIsLast'
  BY <1>1, <1>2, <1>3, ChunkStays DEF Telling
<1>5. fed \in Nat /\ fed <= fed' /\ (~lostUpdate' => ~lostUpdate) /\ L \in Nat /\ h \in Nat
  BY <1>1, <1>2, <1>3, ThreadsTyped
<1>6. NotStarted' /\ Locked' /\ Wants'
  BY <1>2, <1>3, LockStays DEF Telling
<1>7. ThreadInv(t)'
  <2>1. Alive(t) /\ Taking(t) /\ InHand(t) = h /\ ~Taking(t)' /\ InHand(t)' = 0
    BY <1>2 DEF Alive, Taking, InHand
  <2>2. thread[t].data = Bytes(L + 1, L + h) /\ Covers(buf[t], L + h, Delivered(t))
    BY <1>1, <2>1 DEF ThreadInv, Continues
  <2>3. L + h <= Delivered(t) /\ Delivered(t) <= fed /\ Delivered(t) \in Nat
    <3>1. buf[t] \in Seq(Seq(Nat)) /\ Delivered(t) \in Nat /\ Delivered(t) <= fed
      BY <1>1, ThreadsTyped, DeliveredIsNat
    <3> HIDE DEF L, h
    <3>2. L + h \in Nat
      BY <1>5
    <3>3. QED
      BY <2>2, <3>1, <3>2, CoversNothing
  <2>4. got'[t] = Bytes(1, L + h) /\ Len(got'[t]) = L + h
    <3>1. got[t] = Bytes(0 + 1, L)
      BY <1>1 DEF ThreadInv, InOrder
    <3> HIDE DEF L, h
    <3>2. L + h \in Nat /\ 0 <= L /\ L <= L + h /\ 0 <= L + h /\ (L + h) - 0 = L + h /\ 0 + 1 = 1
      BY <1>5
    <3>3. Bytes(0 + 1, L) \o Bytes(L + 1, L + h) = Bytes(0 + 1, L + h)
      BY <1>5, <3>2, BytesJoin
    <3>4. Len(Bytes(0 + 1, L + h)) = (L + h) - 0
      BY <3>2, BytesType
    <3>5. QED
      BY <1>2, <2>2, <3>1, <3>2, <3>3, <3>4
  <2>5. InOrder(t)'
    <3> HIDE DEF L, h
    <3>1. L + h <= fed
      BY <1>5, <2>3
    <3>2. QED
      BY <1>3, <2>4, <3>1 DEF InOrder
  <2>6. Continues(t)'
    <3>1. (L + h) + 0 = L + h
      BY <1>5
    <3>2. QED
      BY <1>3, <1>4, <2>1, <2>2, <2>4, <3>1 DEF Continues
  <2>7. SizeTrue(t)'
    <3> SUFFICES ASSUME ~lostUpdate' PROVE bufSize'[t] = Counted(t) - (L + h)
      BY <1>4, <2>4 DEF SizeTrue
    <3>1. bufSize[t] = Counted(t) - L /\ bufSize[t] = thread[t].size /\ bufSize[t] \in Int
      BY <1>1, <1>2, <2>1, ThreadsTyped DEF ThreadInv, SizeTrue
    <3>2. Counted(t) \in Nat
      BY <1>1, DeliveredIsNat
    <3> HIDE DEF L, h
    <3>3. QED
      BY <1>2, <1>5, <3>1, <3>2
  <2>8. EmptyAtEnd(t)'
    BY <2>1 DEF EmptyAtEnd
  <2>9. HasAll(t)'
    <3> SUFFICES ASSUME ~lostUpdate', thread'[t].pc = "ended" PROVE Len(got'[t]) = ContentLength
      BY DEF HasAll
    <3>1. thread[t].data = <<>> /\ ~lostUpdate
      BY <1>2
    <3>2. h = 0 /\ L = ContentLength
      BY <1>1, <1>2, <2>1, <3>1 DEF ThreadInv, EmptyAtEnd
    <3>3. QED
      BY <1>5, <2>4, <3>2
  <2>10. QED
    BY <2>5, <2>6, <2>7, <2>8, <2>9 DEF ThreadInv
<1>8. \A u \in Threads \ {t} : ThreadInv(u)'
  BY <1>1, <1>2, <1>3, <1>4, <1>5, ThreadStays DEF OthersStay
<1>9. QED
  BY <1>4, <1>6, <1>7, <1>8 DEF UploadInv

LEMMA ThreadFailsKeeps ==
    ASSUME UploadInv, UploadTypeOK', NEW t \in Threads, ThreadFails(t)
    PROVE  UploadInv'
<1>1. UploadTypeOK /\ ChunkIsLast /\ \A u \in Threads : ThreadInv(u)
  BY DEF UploadInv
<1>2. thread[t].pc = "between" /\ thread'[t].pc = "failed" /\ OthersStay(t)
  <2> DEFINE new == [Between EXCEPT !.pc = "failed"]
  <2>1. new \in ThreadStates /\ new.pc = "failed"
    BY BetweenTyped DEF ThreadPcs, Between
  <2>2. Becomes(t, new)
    BY DEF Becomes, ThreadFails
  <2> HIDE DEF new
  <2>3. QED
    BY <1>1, <2>1, <2>2, ThreadMoves DEF ThreadFails, OthersStay
<1>3. UNCHANGED <<fed, bufLock, buf, bufSize, got, uploader, lostUpdate>>
  BY DEF ThreadFails
<1>4. /\ \A u \in Threads : Delivered(u)' = Delivered(u) /\ Counted(u)' = Counted(u)
      /\ ChunkIsLast'
  BY <1>1, <1>2, <1>3, ChunkStays DEF Telling
<1>5. fed \in Nat /\ fed <= fed' /\ (~lostUpdate' => ~lostUpdate)
  BY <1>1, <1>3, ThreadsTyped
<1>6. NotStarted' /\ Locked' /\ Wants'
  BY <1>2, <1>3, LockStays DEF Telling
<1>7. ThreadInv(t)'
  BY <1>1, <1>2, <1>3 DEF ThreadInv, InOrder, Continues, SizeTrue, EmptyAtEnd, HasAll, Alive, Taking
<1>8. \A u \in Threads \ {t} : ThreadInv(u)'
  BY <1>1, <1>2, <1>3, <1>4, <1>5, ThreadStays DEF OthersStay
<1>9. QED
  BY <1>4, <1>6, <1>7, <1>8 DEF UploadInv

LEMMA StartThreadsKeeps ==
    ASSUME UploadInv, UploadTypeOK', StartThreads
    PROVE  UploadInv'
<1>1. UploadTypeOK /\ ChunkIsLast /\ \A u \in Threads : ThreadInv(u)
  BY DEF UploadInv
<1>2. /\ \A u \in Threads : thread[u].pc = "none" /\ thread'[u] = Between
      /\ uploader' = "join" /\ UNCHANGED <<fed, bufLock, buf, bufSize, got, lostUpdate>>
  BY DEF StartThreads, UploadInv, NotStarted
<1>3. \A u \in Threads : thread'[u].pc = "between"
  BY <1>2 DEF Between
<1>4. ~Filling /\ ~Filling'
  BY <1>2, <1>3, ReadSizesAssumption DEF Filling, Telling
<1>5. \A u \in Threads : Delivered(u)' = Delivered(u) /\ Counted(u)' = Counted(u)
  BY <1>2, <1>4 DEF Delivered, Counted
<1>6. ChunkIsLast' /\ NotStarted' /\ Locked' /\ Wants'
  BY <1>2, <1>3, <1>4 DEF ChunkIsLast, NotStarted, Locked, Wants, Telling
<1>7. ASSUME NEW t \in Threads PROVE ThreadInv(t)'
  <2>1. Alive(t) /\ ~Taking(t) /\ ~Taking(t)' /\ thread'[t].pc # "ended"
    BY <1>2, <1>3 DEF Alive, Taking
  <2>2. fed \in Nat /\ fed <= fed' /\ (~lostUpdate' => ~lostUpdate)
    BY <1>1, <1>2, ThreadsTyped
  <2>3. QED
    BY <1>1, <1>2, <1>5, <2>1, <2>2, ThreadGoesOn
<1>8. QED
  BY <1>6, <1>7 DEF UploadInv

LEMMA ClientDiesKeeps ==
    ASSUME UploadInv, UploadTypeOK', ClientDies
    PROVE  UploadInv'
<1>1. \A u \in Threads : ThreadInv(u)
  BY DEF UploadInv
<1>2. /\ \A u \in Threads : thread'[u] = [Between EXCEPT !.pc = "failed"]
      /\ uploader' = "dead" /\ UNCHANGED <<fed, bufLock, buf, bufSize, got, lostUpdate>>
  BY DEF ClientDies
<1>3. \A u \in Threads : thread'[u].pc = "failed"
  BY <1>2 DEF Between
<1>4. ~Filling'
  BY <1>2, <1>3, ReadSizesAssumption DEF Filling, Telling
<1>5. ChunkIsLast' /\ NotStarted' /\ Locked' /\ Wants'
  BY <1>2, <1>3, <1>4 DEF ChunkIsLast, NotStarted, Locked, Wants, Telling
<1>6. \A u \in Threads : ThreadInv(u)'
  BY <1>1, <1>2, <1>3
     DEF ThreadInv, InOrder, Continues, SizeTrue, EmptyAtEnd, HasAll, Alive, Taking
<1>7. QED
  BY <1>5, <1>6 DEF UploadInv

(* The uploading thread only waits and reports.                            *)
LEMMA StreamUntouched ==
    ASSUME UploadInv, UploadTypeOK', UNCHANGED streamVars, uploader' # "start"
    PROVE  UploadInv'
<1>1. UNCHANGED <<fed, bufLock, buf, bufSize, thread, got, lostUpdate>>
  BY DEF streamVars
<1>2. (Filling' <=> Filling) /\ \A u \in Threads : (HasChunk(u)' <=> HasChunk(u)) /\ (CountsChunk(u)' <=> CountsChunk(u))
  BY <1>1 DEF Filling, HasChunk, CountsChunk
<1>3. \A u \in Threads : Delivered(u)' = Delivered(u) /\ Counted(u)' = Counted(u)
  BY <1>1, <1>2 DEF Delivered, Counted
<1>4. fed <= fed' /\ (~lostUpdate' => ~lostUpdate)
  BY <1>1, ThreadsTyped DEF UploadInv
<1>5. \A u \in Threads : ThreadInv(u)'
  BY <1>1, <1>3, <1>4, ThreadStays DEF UploadInv
<1>6. ChunkIsLast' /\ NotStarted' /\ Locked' /\ Wants'
  BY <1>1, <1>2 DEF UploadInv, ChunkIsLast, NotStarted, Locked, Wants
<1>7. QED
  BY <1>5, <1>6 DEF UploadInv

-----------------------------------------------------------------------------
(* The invariant holds at the start. *)
LEMMA UploadInvInit == UploadInit => UploadInv
<1> SUFFICES ASSUME UploadInit PROVE UploadInv
  OBVIOUS
<1>1. /\ fed = 0 /\ bufLock = NoThread /\ uploader = "start" /\ bundle = "uploading"
      /\ uploadFaults = 0 /\ lostUpdate = FALSE
      /\ buf = [t \in Threads |-> <<>>] /\ bufSize = [t \in Threads |-> 0]
      /\ got = [t \in Threads |-> <<>>] /\ thread = [t \in Threads |-> [Between EXCEPT !.pc = "none"]]
  BY DEF UploadInit
<1>2. /\ \A t \in Threads : thread[t].pc = "none" /\ buf[t] = <<>> /\ bufSize[t] = 0 /\ got[t] = <<>>
      /\ thread \in [Threads -> ThreadStates]
  <2>1. [Between EXCEPT !.pc = "none"] \in ThreadStates
    BY BetweenTyped DEF ThreadPcs
  <2>2. QED
    BY <1>1, <2>1 DEF Between
<1>3. UploadTypeOK
  <2>1. <<>> \in Seq(Seq(Nat)) /\ <<>> \in Seq(Nat) /\ 0 \in 0 .. ContentLength /\ 0 \in 0 .. MaxUploadFaults
    BY ReadSizesAssumption
  <2>2. lostUpdate \in BOOLEAN
    BY <1>1
  <2>3. /\ fed \in 0 .. ContentLength /\ bufLock \in Threads \union {NoThread}
        /\ buf \in [Threads -> Seq(Seq(Nat))] /\ got \in [Threads -> Seq(Nat)]
        /\ bufSize \in [Threads -> Int]
    BY <1>1, <2>1
  <2>4. uploader \in {"start", "join", "report", "apologize", "done", "dead"}
        /\ bundle \in {"uploading", "ready", "failed"} /\ uploadFaults \in 0 .. MaxUploadFaults
    BY <1>1, <2>1
  <2>5. QED
    BY <1>2, <2>2, <2>3, <2>4 DEF UploadTypeOK, ThreadStates, ThreadPcs
<1>4. ~Filling
  BY <1>1, ReadSizesAssumption DEF Filling
<1>5. NotStarted /\ Locked /\ Wants /\ ChunkIsLast
  BY <1>2, <1>4 DEF NotStarted, Locked, Wants, ChunkIsLast, Telling
<1>6. ASSUME NEW t \in Threads PROVE ThreadInv(t)
  <2>1. Len(got[t]) = 0 /\ fed = 0 /\ Delivered(t) = 0 /\ Counted(t) = 0 /\ ~Taking(t) /\ InHand(t) = 0
    BY <1>1, <1>2, <1>4 DEF Delivered, Counted, Taking, InHand
  <2>2. InOrder(t)
    <3>1. Bytes(0 + 1, 0) = <<>>
      BY BytesType
    <3>2. QED
      BY <1>2, <2>1, <3>1 DEF InOrder
  <2>3. Continues(t)
    <3>1. Covers(<<>>, 0, 0)
      BY CoversEmpty
    <3>2. QED
      BY <1>2, <2>1, <3>1 DEF Continues
  <2>4. SizeTrue(t) /\ EmptyAtEnd(t) /\ HasAll(t)
    BY <1>2, <2>1 DEF SizeTrue, EmptyAtEnd, HasAll
  <2>5. QED
    BY <2>2, <2>3, <2>4 DEF ThreadInv
<1>7. QED
  BY <1>3, <1>5, <1>6 DEF UploadInv

(* Every step keeps the types. *)
LEMMA UploadTypeNext ==
    ASSUME UploadInv, UploadNext
    PROVE  UploadTypeOK'
<1>1. UploadTypeOK /\ uploadFaults \in Nat /\ MaxUploadFaults \in Nat
  BY ReadSizesAssumption DEF UploadInv, UploadTypeOK
<1>2. UploadFault => uploadFaults' \in 0 .. MaxUploadFaults
  BY <1>1 DEF UploadFault
<1>3. \A pc \in ThreadPcs : [t \in Threads |-> [Between EXCEPT !.pc = pc]] \in [Threads -> ThreadStates]
  BY BetweenTyped
<1>4. [t \in Threads |-> Between] \in [Threads -> ThreadStates]
  BY DEF Between, ThreadStates, ThreadPcs, Threads
<1>5. CASE StartThreads
  BY <1>1, <1>4, <1>5 DEF StartThreads, UploadTypeOK, ThreadStates, ThreadPcs
<1>6. CASE Join
  BY <1>1, <1>2, <1>6 DEF Join, UploadTypeOK, streamVars
<1>7. CASE ReportSuccess
  BY <1>1, <1>2, <1>7 DEF ReportSuccess, UploadTypeOK, streamVars
<1>8. CASE ReportFailure
  BY <1>1, <1>8 DEF ReportFailure, UploadTypeOK, streamVars
<1>9. CASE ClientDies
  <2>1. thread' \in [Threads -> ThreadStates]
    BY <1>3, <1>9 DEF ClientDies, ThreadPcs
  <2>2. QED
    BY <1>1, <1>2, <1>9, <2>1 DEF ClientDies, UploadTypeOK, ThreadStates, ThreadPcs
<1>10. ASSUME NEW t \in Threads, Stream(t) PROVE UploadTypeOK'
  BY <1>1, <1>10, StreamTyped DEF UploadInv, Wants
<1>11. ASSUME NEW t \in Threads, ThreadFails(t) PROVE UploadTypeOK'
  <2>1. Becomes(t, [Between EXCEPT !.pc = "failed"]) /\ [Between EXCEPT !.pc = "failed"] \in ThreadStates
    BY <1>11, BetweenTyped DEF ThreadFails, Becomes, ThreadPcs
  <2>2. thread' \in [Threads -> ThreadStates]
    BY <1>1, <2>1, ThreadMoves
  <2>3. QED
    BY <1>1, <1>2, <1>11, <2>2 DEF ThreadFails, UploadTypeOK, ThreadStates, ThreadPcs
<1>12. QED
  BY <1>5, <1>6, <1>7, <1>8, <1>9, <1>10, <1>11 DEF UploadNext

(* Every step keeps the invariant. *)
LEMMA UploadInvNext == UploadInv /\ [UploadNext]_uploadVars => UploadInv'
<1> SUFFICES ASSUME UploadInv, [UploadNext]_uploadVars PROVE UploadInv'
  OBVIOUS
<1>1. ASSUME UNCHANGED uploadVars PROVE UploadInv'
  BY <1>1, ZenonT(60) DEF uploadVars, streamVars, UploadInv, UploadTypeOK, NotStarted, Locked, Wants, ChunkIsLast,
     ThreadInv, InOrder, Continues, SizeTrue, EmptyAtEnd, HasAll, Alive, Taking, Filling, HasChunk,
     CountsChunk, Delivered, Counted, InHand
<1>2. ASSUME UploadNext PROVE UploadInv'
  <2>1. UploadTypeOK'
    BY <1>2, UploadTypeNext
  <2>2. CASE StartThreads
    BY <2>1, <2>2, StartThreadsKeeps
  <2>3. CASE Join \/ ReportSuccess \/ ReportFailure
    <3>1. UNCHANGED streamVars /\ uploader' # "start"
      <4>1. CASE Join
        BY <4>1 DEF Join
      <4>2. CASE ReportSuccess
        BY <4>2 DEF ReportSuccess
      <4>3. CASE ReportFailure
        BY <4>3 DEF ReportFailure
      <4>4. QED
        BY <2>3, <4>1, <4>2, <4>3
    <3>2. QED
      BY <2>1, <3>1, StreamUntouched
  <2>4. CASE ClientDies
    BY <2>1, <2>4, ClientDiesKeeps
  <2>5. ASSUME NEW t \in Threads, ThreadFails(t) PROVE UploadInv'
    BY <2>1, <2>5, ThreadFailsKeeps
  <2>6. ASSUME NEW t \in Threads, Stream(t) PROVE UploadInv'
    <3>1. uploader' = uploader
      BY <2>6 DEF Stream
    <3>2. QED
      BY <2>1, <2>6, <3>1, ReadKeeps, LockKeeps, ReadStreamKeeps, UnlockKeeps, AppendChunkKeeps,
         LoadToAddKeeps, StoreAddedKeeps, TakeChunkKeeps, GiveBackRestKeeps, LoadToSubtractKeeps,
         StoreSubtractedKeeps DEF Stream
  <2>7. QED
    BY <1>2, <2>2, <2>3, <2>4, <2>5, <2>6 DEF UploadNext
<1>3. QED
  BY <1>1, <1>2

(* The invariant says of a finished upload that it is intact. *)
LEMMA UploadInvIntact == UploadInv => UploadIntact
<1> SUFFICES ASSUME UploadInv PROVE UploadIntact
  OBVIOUS
<1>1. ASSUME NEW t \in Threads PROVE got[t] = SubSeq(Content, 1, Len(got[t]))
  <2> DEFINE L == Len(got[t])
  <2>1. L \in Nat /\ L <= fed /\ fed \in Nat /\ fed <= ContentLength /\ ContentLength \in Nat
        /\ got[t] = Bytes(1, L)
    BY ThreadsTyped DEF UploadInv, ThreadInv, InOrder
  <2> HIDE DEF L
  <2>2. 0 <= L /\ L <= ContentLength /\ L - 0 = L /\ 0 + 1 = 1
    BY <2>1
  <2>3. SubSeq(Bytes(0 + 1, ContentLength), 1, L - 0) = Bytes(0 + 1, L)
    BY <2>1, <2>2, BytesParts
  <2>4. got[t] = SubSeq(Content, 1, L)
    BY <2>1, <2>2, <2>3 DEF Content
  <2>5. QED
    BY <2>4 DEF L
<1>2. ASSUME thread["file"].pc = "ended", ~lostUpdate PROVE got["file"] = Content
  <2>1. "file" \in Threads
    BY DEF Threads
  <2>2. got["file"] = Bytes(1, Len(got["file"])) /\ Len(got["file"]) = ContentLength
    BY <1>2, <2>1 DEF UploadInv, ThreadInv, InOrder, HasAll
  <2>3. QED
    BY <2>2 DEF Content
<1>3. QED
  BY <1>1, <1>2 DEF UploadIntact

LEMMA UploadInvHolds == UploadSpec => []UploadInv
<1>1. UploadInv /\ [UploadNext]_uploadVars => UploadInv'
  BY UploadInvNext
<1>2. QED
  BY <1>1, UploadInvInit, PTL DEF UploadSpec

(* The buffers and the threads keep their types, for contents of any       *)
(* length.                                                                 *)
THEOREM UploadTypeCorrect == UploadSpec => []UploadTypeOK
<1>1. UploadInv => UploadTypeOK
  BY DEF UploadInv
<1>2. QED
  BY <1>1, UploadInvHolds, PTL

(* Each thread is given the bytes of the contents in their order, none     *)
(* left out and none twice, however the two interleave on the buffers they *)
(* share and wherever they fail; and the thread that uploads ends with all *)
(* of them, unless one change of a buffer's size was written over another. *)
THEOREM UploadedAsRead == UploadSpec => []UploadIntact
BY UploadInvHolds, UploadInvIntact, PTL

-----------------------------------------------------------------------------
(* Reading from a worker *)

Over == target \in {"finalizing", "final"}

(* A socket id stands for one message that goes to the worker or one reply *)
(* that comes from it; only first tries get that far.                      *)
OneMessage ==
    /\ \A s \in asked : s[2] = 1
    /\ \A r \in replies : r.socket[2] = 1 /\ r.socket \notin asked
    /\ \A r1, r2 \in replies : r1.socket = r2.socket => r1 = r2

(* A run is missing at the worker only when it is over. *)
RepliesOK ==
    /\ ~atWorker => Over
    /\ \A r \in replies : r.kind = "missing" => Over

(* Nothing is under way for a request before it asks, and its socket is    *)
(* known as long as it listens.                                            *)
Unasked(q) ==
    request[q].pc \in {"idle", "begin", "lookup", "send"} => ~Answerable(<<q, 1>>)

Known(q) ==
    request[q].pc \in {"send", "listen", "header", "data", "close", "free"} =>
        <<q, 1>> \in allocated

SocketClosed(q) ==
    <<q, 1>> \in listening => request[q].pc \in {"header", "data", "close"}

(* What an undisturbed request waits for is on its way.                    *)
HeaderComes(q) ==
    request[q].pc \in {"listen", "header"} =>
        \/ <<q, 1>> \in asked
        \/ \E r \in replies : r.socket = <<q, 1>> /\ r.pc \in {"permission", "connect", "connected"}

DataCome(q) ==
    request[q].pc = "data" =>
        \E r \in replies : /\ r.socket = <<q, 1>> /\ r.kind = "data"
                           /\ r.pc \in {"stream", "streaming"}

GoodResult(q) ==
    request[q].pc \in {"close", "free", "done"} =>
        /\ request[q].result \notin {"none", "unreachable", "garbled"}
        /\ request[q].pc = "done" => request[q].result # "missing"

(* What the invariant says of one request: who is told that a run is       *)
(* missing asks again, and reads the store then.                           *)
RequestOK(q) ==
    /\ request[q].result = "missing" => Over
    /\ request[q].attempt = 2 => Over /\ request[q].pc \in {"begin", "done"}
    /\ request[q].attempt = 1 => Unasked(q)
    /\ Known(q) /\ SocketClosed(q)
    /\ q \notin disturbed => HeaderComes(q) /\ DataCome(q) /\ GoodResult(q)

ReadInv == ReadTypeOK /\ OneMessage /\ RepliesOK /\ \A q \in Reads : RequestOK(q)

RequestRecord ==
    [pc : {"idle", "begin", "lookup", "send", "listen", "header", "data", "close", "free", "done"},
     attempt : {1, 2}, result : Results]

-----------------------------------------------------------------------------
(* A step of one request that changes no reply leaves the others as they   *)
(* are.                                                                    *)
LEMMA OtherRequests ==
    ASSUME ReadInv, NEW q \in Reads, NEW p \in Reads, p # q,
           request'[p] = request[p],
           UNCHANGED <<target, atWorker, replies>>,
           disturbed \subseteq disturbed',
           asked' \ {<<q, 1>>} = asked \ {<<q, 1>>},
           allocated \ {<<q, 1>>} \subseteq allocated',
           listening' \ {<<q, 1>>} \subseteq listening
    PROVE  RequestOK(p)'
<1>1. RequestOK(p)
  BY DEF ReadInv
<1>2. <<p, 1>> # <<q, 1>>
  OBVIOUS
<1>3. /\ <<p, 1>> \in asked' <=> <<p, 1>> \in asked
      /\ <<p, 1>> \in allocated => <<p, 1>> \in allocated'
      /\ <<p, 1>> \in listening' => <<p, 1>> \in listening
  BY <1>2
<1>4. QED
  BY <1>1, <1>3
  DEF RequestOK, Over, Unasked, Answerable, Known, SocketClosed, HeaderComes, DataCome,
      GoodResult

(* Asking the worker. *)
LEMMA RequestKeepsInv ==
    ASSUME ReadInv, NEW q \in Reads,
           BeginRead(q) \/ ReadState(q) \/ FindWorker(q) \/ SendRead(q) \/ Listen(q)
    PROVE  ReadInv'
<1>1. RequestOK(q) /\ ReadTypeOK /\ OneMessage /\ RepliesOK
  BY DEF ReadInv
<1>2. UNCHANGED <<target, atWorker, replies, disturbed, readFaults>>
  BY DEF BeginRead, ReadState, FindWorker, SendRead, Listen
<1>3. request[q] \in RequestRecord /\ request \in [Reads -> RequestRecord]
  BY <1>1 DEF ReadTypeOK, RequestRecord
<1>4. request[q].pc \in {"lookup", "send", "listen"} => SocketOf(q) = <<q, 1>>
  BY <1>1, <1>3 DEF RequestOK, SocketOf, RequestRecord
<1>5. PICK new \in RequestRecord : request' = [request EXCEPT ![q] = new]
  <2>1. \A pc \in {"begin", "lookup", "send", "listen", "header"} :
          [request[q] EXCEPT !.pc = pc] \in RequestRecord
    BY <1>3 DEF RequestRecord
  <2>2. \A result \in Results :
          [request[q] EXCEPT !.pc = "done", !.result = result] \in RequestRecord
    BY <1>3 DEF RequestRecord
  <2>3. QED
    BY <2>1, <2>2, <1>3
    DEF BeginRead, ReadState, FindWorker, SendRead, Listen, Move, Return, Results
<1>6. asked' \in {asked, asked \union {<<q, 1>>}}
  BY <1>4 DEF BeginRead, ReadState, FindWorker, SendRead, Listen, ReadAt
<1>7. allocated' \in {allocated, allocated \union {<<q, 1>>}}
  BY <1>4 DEF BeginRead, ReadState, FindWorker, SendRead, Listen, ReadAt
<1>8. listening' \in {listening, listening \union {<<q, 1>>}}
  BY <1>4 DEF BeginRead, ReadState, FindWorker, SendRead, Listen, ReadAt
<1>9. ReadTypeOK'
  <2>1. <<q, 1>> \in ReadSockets
    BY DEF ReadSockets
  <2>2. request' \in [Reads -> RequestRecord]
    BY <1>3, <1>5
  <2>3. listening' \subseteq allocated'
    <3>1. CASE Listen(q)
      <4>1. listening' = listening \union {<<q, 1>>} /\ allocated' = allocated
        BY <1>4, <3>1 DEF Listen, ReadAt
      <4>2. <<q, 1>> \in allocated
        BY <1>1, <3>1 DEF Listen, ReadAt, RequestOK, Known
      <4>3. QED
        BY <1>1, <4>1, <4>2 DEF ReadTypeOK
    <3>2. CASE ~Listen(q)
      BY <1>1, <1>7, <3>2 DEF ReadTypeOK, BeginRead, ReadState, FindWorker, SendRead
    <3>3. QED
      BY <3>1, <3>2
  <2>4. QED
    BY <1>1, <1>2, <1>6, <1>7, <2>1, <2>2, <2>3 DEF ReadTypeOK, RequestRecord
<1>10. OneMessage'
  <2>1. CASE asked' = asked
    BY <1>1, <1>2, <2>1 DEF OneMessage
  <2>2. CASE SendRead(q)
    <3>1. ~Answerable(<<q, 1>>)
      BY <1>1, <1>3, <2>2 DEF SendRead, ReadAt, RequestOK, Unasked, RequestRecord
    <3>2. QED
      BY <1>1, <1>2, <1>6, <3>1 DEF OneMessage, Answerable
  <2>3. QED
    BY <2>1, <2>2 DEF BeginRead, ReadState, FindWorker, Listen
<1>11. RepliesOK'
  BY <1>1, <1>2 DEF RepliesOK, Over
<1>12. ASSUME NEW p \in Reads, p # q PROVE RequestOK(p)'
  BY <1>2, <1>3, <1>5, <1>6, <1>7, <1>8, <1>12, OtherRequests
<1>13. RequestOK(q)'
  <2> USE DEF RequestOK, Over, Unasked, Answerable, Known, SocketClosed, HeaderComes, DataCome,
              GoodResult
  <2>1. CASE BeginRead(q)
    BY <1>1, <1>2, <1>3, <2>1 DEF BeginRead, ReadAt, Move, RequestRecord
  <2>2. CASE ReadState(q)
    BY <1>1, <1>2, <1>3, <2>2 DEF ReadState, ReadAt, Move, Return, RequestRecord
  <2>3. CASE FindWorker(q)
    BY <1>1, <1>2, <1>3, <1>4, <2>3 DEF FindWorker, ReadAt, Move, Return, RequestRecord
  <2>4. CASE SendRead(q)
    BY <1>1, <1>2, <1>3, <1>4, <2>4 DEF SendRead, ReadAt, Move, RequestRecord
  <2>5. CASE Listen(q)
    BY <1>1, <1>2, <1>3, <1>4, <2>5 DEF Listen, ReadAt, Move, RequestRecord
  <2>6. QED
    BY <2>1, <2>2, <2>3, <2>4, <2>5
<1>14. QED
  BY <1>9, <1>10, <1>11, <1>12, <1>13 DEF ReadInv

(* A request stops to wait only if it was disturbed: otherwise something   *)
(* is on its way.                                                          *)
LEMMA StopKeepsInv ==
    ASSUME ReadInv, NEW q \in Reads,
           \/ StopWaiting(q) /\ ReadFault({q})
           \/ StopWaitingInVain(q) /\ UNCHANGED <<disturbed, readFaults>>
    PROVE  ReadInv'
<1>1. RequestOK(q) /\ ReadTypeOK /\ OneMessage /\ RepliesOK
  BY DEF ReadInv
<1>2. UNCHANGED <<target, atWorker, allocated, listening, asked, replies>>
  BY DEF StopWaiting, StopWaitingInVain
<1>3. request[q] \in RequestRecord /\ request \in [Reads -> RequestRecord]
  BY <1>1 DEF ReadTypeOK, RequestRecord
<1>4. request[q].pc \in {"header", "data"} /\ request[q].attempt = 1
  BY <1>1, <1>3 DEF StopWaiting, StopWaitingInVain, ReadAt, RequestOK, RequestRecord
<1>5. request' = [request EXCEPT ![q].pc = "close", ![q].result = "unreachable"]
  BY DEF StopWaiting, StopWaitingInVain, Return
<1>6. /\ request'[q] \in RequestRecord
      /\ request'[q].pc = "close" /\ request'[q].result = "unreachable"
      /\ request'[q].attempt = 1
      /\ \A p \in Reads : p # q => request'[p] = request[p]
  BY <1>3, <1>4, <1>5 DEF RequestRecord, Results
<1>7. q \in disturbed'
  <2>1. CASE StopWaitingInVain(q) /\ UNCHANGED <<disturbed, readFaults>>
    <3>1. ~Answerable(<<q, 1>>)
      BY <1>4, <2>1 DEF StopWaitingInVain, SocketOf
    <3>2. q \in disturbed
      BY <1>1, <1>4, <3>1 DEF RequestOK, HeaderComes, DataCome, Answerable
    <3>3. QED
      BY <2>1, <3>2
  <2>2. QED
    BY <2>1 DEF ReadFault
<1>8. disturbed \subseteq disturbed' /\ disturbed' \subseteq Reads
      /\ readFaults' \in 0 .. MaxReadFaults
  BY <1>1, ReadsAssumption DEF ReadFault, ReadTypeOK
<1>9. ReadTypeOK'
  <2>1. request' \in [Reads -> RequestRecord]
    BY <1>3, <1>5, <1>6
  <2>2. QED
    BY <1>1, <1>2, <1>8, <2>1 DEF ReadTypeOK, RequestRecord
<1>10. OneMessage' /\ RepliesOK'
  BY <1>1, <1>2 DEF OneMessage, RepliesOK, Over
<1>11. ASSUME NEW p \in Reads, p # q PROVE RequestOK(p)'
  BY <1>2, <1>6, <1>8, <1>11, OtherRequests
<1>12. RequestOK(q)'
  BY <1>1, <1>2, <1>4, <1>6, <1>7 DEF RequestOK, Known, SocketClosed, Unasked
<1>13. QED
  BY <1>9, <1>10, <1>11, <1>12 DEF ReadInv

(* A request ends, or begins again: the run is over then. *)
LEMMA DeallocateKeepsInv ==
    ASSUME ReadInv, NEW q \in Reads, Deallocate(q)
    PROVE  ReadInv'
<1>1. RequestOK(q) /\ ReadTypeOK /\ OneMessage /\ RepliesOK
  BY DEF ReadInv
<1>2. UNCHANGED <<target, atWorker, listening, asked, replies, disturbed, readFaults>>
  BY DEF Deallocate
<1>3. request[q] \in RequestRecord /\ request \in [Reads -> RequestRecord]
  BY <1>1 DEF ReadTypeOK, RequestRecord
<1>4. request[q].pc = "free" /\ request[q].attempt = 1 /\ SocketOf(q) = <<q, 1>>
  BY <1>1, <1>3 DEF Deallocate, ReadAt, RequestOK, RequestRecord, SocketOf
<1>5. allocated' = allocated \ {<<q, 1>>}
  BY <1>4 DEF Deallocate
<1>6. /\ request[q].result = "missing"
      /\ request' = [request EXCEPT ![q] = [pc |-> "begin", attempt |-> 2, result |-> "none"]]
   \/ /\ request[q].result # "missing"
      /\ request' = [request EXCEPT ![q].pc = "done"]
  BY <1>3, <1>4 DEF Deallocate
<1>7. request' \in [Reads -> RequestRecord] /\ \A p \in Reads : p # q => request'[p] = request[p]
  BY <1>3, <1>6 DEF RequestRecord, Results
<1>8. listening \subseteq allocated'
  BY <1>1, <1>4, <1>5 DEF RequestOK, SocketClosed, ReadTypeOK
<1>9. ReadTypeOK'
  BY <1>1, <1>2, <1>5, <1>7, <1>8 DEF ReadTypeOK, RequestRecord
<1>10. OneMessage' /\ RepliesOK'
  BY <1>1, <1>2 DEF OneMessage, RepliesOK, Over
<1>11. ASSUME NEW p \in Reads, p # q PROVE RequestOK(p)'
  BY <1>2, <1>5, <1>7, <1>11, OtherRequests
<1>12. RequestOK(q)'
  <2> USE DEF RequestOK, Over, Unasked, Known, SocketClosed, HeaderComes, DataCome, GoodResult
  <2>1. <<q, 1>> \notin listening
    BY <1>1, <1>4
  <2>2. CASE request[q].result = "missing"
    BY <1>1, <1>2, <1>3, <1>6, <2>1, <2>2 DEF RequestRecord
  <2>3. CASE request[q].result # "missing"
    BY <1>1, <1>2, <1>3, <1>4, <1>6, <2>1, <2>3 DEF RequestRecord
  <2>4. QED
    BY <2>2, <2>3
<1>13. QED
  BY <1>9, <1>10, <1>11, <1>12 DEF ReadInv

-----------------------------------------------------------------------------
(* A step that changes nothing but the reply for one socket, which may     *)
(* move on or vanish.                                                      *)
OnlyReply(x) ==
    /\ UNCHANGED asked
    /\ {r \in replies' : r.socket # x} = {r \in replies : r.socket # x}
    /\ \A r1 \in replies' :
         r1.socket = x => \E r \in replies : r.socket = x /\ r.kind = r1.kind
    /\ \A r1, r2 \in replies' : r1.socket = x /\ r2.socket = x => r1 = r2

LEMMA OnlyReplyKeeps ==
    ASSUME ReadInv, NEW x \in ReadSockets, OnlyReply(x), UNCHANGED <<target, atWorker>>
    PROVE  /\ OneMessage' /\ RepliesOK'
           /\ \A s : Answerable(s)' => Answerable(s)
<1> USE DEF OnlyReply, ReadInv
<1>1. \A r1 \in replies' : \E r \in replies : r.socket = r1.socket /\ r.kind = r1.kind
  OBVIOUS
<1>2. \A r1, r2 \in replies' : r1.socket = r2.socket => r1 = r2
  <2> SUFFICES ASSUME NEW r1 \in replies', NEW r2 \in replies', r1.socket = r2.socket
               PROVE  r1 = r2
    OBVIOUS
  <2>1. CASE r1.socket = x
    BY <2>1
  <2>2. CASE r1.socket # x
    <3>1. r1 \in replies /\ r2 \in replies
      BY <2>2
    <3>2. QED
      BY <3>1 DEF OneMessage
  <2>3. QED
    BY <2>1, <2>2
<1>3. OneMessage'
  BY <1>1, <1>2 DEF OneMessage
<1>4. RepliesOK'
  BY <1>1 DEF RepliesOK, Over
<1>5. ASSUME NEW s, Answerable(s)' PROVE Answerable(s)
  BY <1>1, <1>5 DEF Answerable
<1>6. QED
  BY <1>3, <1>4, <1>5

(* The requests that listen on other sockets do not see it. *)
LEMMA OnlyReplyOthers ==
    ASSUME ReadInv, NEW x \in ReadSockets, OnlyReply(x),
           UNCHANGED <<target, atWorker, allocated>>,
           disturbed \subseteq disturbed', listening' \subseteq listening,
           NEW p \in Reads, <<p, 1>> # x, request'[p] = request[p]
    PROVE  RequestOK(p)'
<1>1. RequestOK(p)
  BY DEF ReadInv
<1>2. Unasked(p) => Unasked(p)'
  BY OnlyReplyKeeps DEF Unasked
<1>3. \A r \in replies : r.socket = <<p, 1>> => r \in replies'
  BY DEF OnlyReply
<1>4. (HeaderComes(p) => HeaderComes(p)') /\ (DataCome(p) => DataCome(p)')
  BY <1>3 DEF HeaderComes, DataCome, OnlyReply
<1>5. QED
  BY <1>1, <1>2, <1>4 DEF RequestOK, Over, Known, SocketClosed, GoodResult

(* A reply becomes another one, or vanishes; it goes on if it is waited    *)
(* for, or the request has been disturbed.                                 *)
LEMMA ReplaceReply ==
    ASSUME ReadInv, NEW r \in replies, NEW r2 \in Reply, NEW S \in SUBSET {r2},
           r2.socket = r.socket, r2.kind = r.kind,
           replies' = (replies \ {r}) \union S
    PROVE  /\ UNCHANGED asked => OnlyReply(r.socket)
           /\ replies' \subseteq Reply
           /\ r.socket \in ReadSockets
           /\ \E q \in Reads : r.socket = <<q, 1>>
<1>1. r \in Reply /\ \A r1 \in replies : r1.socket = r.socket => r1 = r
  BY DEF ReadInv, ReadTypeOK, OneMessage
<1>2. r.socket \in ReadSockets /\ r.socket[2] = 1
  BY <1>1 DEF ReadInv, OneMessage, Reply
<1>3. UNCHANGED asked => OnlyReply(r.socket)
  BY <1>1 DEF OnlyReply
<1>4. \E q \in Reads : r.socket = <<q, 1>>
  BY <1>2 DEF ReadSockets
<1>5. QED
  BY <1>2, <1>3, <1>4 DEF ReadInv, ReadTypeOK

HeaderOnWay == {"permission", "connect", "connected"}
DataOnWay == {"stream", "streaming"}

LEMMA ReplyKeepsInv ==
    ASSUME ReadInv, NEW r \in replies, NEW r2 \in Reply, NEW S \in SUBSET {r2},
           r2.socket = r.socket, r2.kind = r.kind,
           replies' = (replies \ {r}) \union S,
           UNCHANGED <<target, atWorker, request, allocated, listening, asked>>,
           disturbed \subseteq disturbed', disturbed' \subseteq Reads,
           readFaults' \in 0 .. MaxReadFaults,
           NEW q \in Reads, r.socket = <<q, 1>>,
           \/ q \in disturbed'
           \/ /\ request[q].pc \in {"listen", "header"} /\ r.pc \in HeaderOnWay =>
                   S = {r2} /\ r2.pc \in HeaderOnWay
              /\ request[q].pc = "data" /\ r.pc \in DataOnWay =>
                   S = {r2} /\ r2.pc \in DataOnWay
    PROVE  ReadInv'
<1>1. OnlyReply(r.socket) /\ replies' \subseteq Reply /\ r.socket \in ReadSockets
  BY ReplaceReply
<1>2. RequestOK(q) /\ ReadTypeOK /\ OneMessage
  BY DEF ReadInv
<1>3. ReadTypeOK'
  BY <1>1, <1>2 DEF ReadTypeOK
<1>4. OneMessage' /\ RepliesOK' /\ (Answerable(<<q, 1>>)' => Answerable(<<q, 1>>))
  BY <1>1, OnlyReplyKeeps
<1>5. ASSUME NEW p \in Reads, p # q PROVE RequestOK(p)'
  <2>1. <<p, 1>> # r.socket
    BY <1>5
  <2>2. QED
    BY <1>1, <2>1, OnlyReplyOthers
<1>6. RequestOK(q)'
  <2>1. Unasked(q) => Unasked(q)'
    BY <1>4 DEF Unasked
  <2>2. ASSUME q \notin disturbed' PROVE HeaderComes(q)' /\ DataCome(q)'
    <3>1. r.socket \notin asked /\ \A r1 \in replies : r1.socket = r.socket => r1 = r
      BY <1>2 DEF OneMessage
    <3>2. HeaderComes(q) /\ DataCome(q)
      BY <1>2, <2>2 DEF RequestOK
    <3>3. request[q].pc \in {"listen", "header"} => r.pc \in HeaderOnWay
      BY <3>1, <3>2 DEF HeaderComes, HeaderOnWay
    <3>4. request[q].pc = "data" => r.pc \in DataOnWay /\ r.kind = "data"
      BY <3>1, <3>2 DEF DataCome, DataOnWay
    <3>5. HeaderComes(q)'
      BY <2>2, <3>3 DEF HeaderComes, HeaderOnWay
    <3>6. DataCome(q)'
      BY <2>2, <3>4 DEF DataCome, DataOnWay
    <3>7. QED
      BY <3>5, <3>6
  <2>3. QED
    BY <1>2, <2>1, <2>2 DEF RequestOK, Over, Known, SocketClosed, GoodResult
<1>7. QED
  BY <1>3, <1>4, <1>5, <1>6 DEF ReadInv

(* The handlers of replies. *)
LEMMA HandlerKeepsInv ==
    ASSUME ReadInv, NEW r \in replies,
           \/ CheckPermission(r) \/ ConnectReply(r)
           \/ DropReplyInVain(r) /\ UNCHANGED <<disturbed, readFaults>>
           \/ DropReply(r) /\ ReadFault({r.socket[1]})
    PROVE  ReadInv'
<1>1. r \in Reply /\ ReadTypeOK
  BY DEF ReadInv, ReadTypeOK
<1>2. PICK q \in Reads : r.socket = <<q, 1>>
  <2>1. r.socket \in ReadSockets /\ r.socket[2] = 1
    BY <1>1 DEF ReadInv, OneMessage, Reply
  <2>2. QED
    BY <2>1 DEF ReadSockets
<1>3. RequestOK(q) /\ disturbed \subseteq Reads /\ readFaults \in 0 .. MaxReadFaults
  BY DEF ReadInv, ReadTypeOK
<1>4. request[q].pc \in {"listen", "header", "data"} =>
        request[q].attempt = 1 /\ r.socket \in allocated
  BY <1>1, <1>2, <1>3 DEF RequestOK, Known, ReadTypeOK
<1>5. CASE CheckPermission(r)
  <2> DEFINE r2 == [r EXCEPT !.pc = "connect"]
             S == IF r.socket \in allocated THEN {r2} ELSE {}
  <2>1. r2 \in Reply /\ r2.socket = r.socket /\ r2.kind = r.kind /\ r2.pc = "connect"
    BY <1>1 DEF Reply
  <2>2. r.pc = "permission" /\ replies' = (replies \ {r}) \union S /\ S \in SUBSET {r2}
        /\ UNCHANGED <<target, atWorker, request, allocated, listening, asked, disturbed,
                       readFaults>>
    BY <1>5 DEF CheckPermission
  <2>3. request[q].pc \in {"listen", "header"} => S = {r2}
    BY <1>4
  <2> HIDE DEF r2, S
  <2>4. QED
    BY <1>2, <1>3, <2>1, <2>2, <2>3, ReplyKeepsInv DEF HeaderOnWay, DataOnWay
<1>6. CASE ConnectReply(r)
  <2> DEFINE r2 == [r EXCEPT !.pc = IF @ = "connect" THEN "connected" ELSE "streaming"]
  <2>1. r.pc \in {"connect", "stream"} /\ replies' = (replies \ {r}) \union {r2}
        /\ UNCHANGED <<target, atWorker, request, allocated, listening, asked, disturbed,
                       readFaults>>
    BY <1>6 DEF ConnectReply
  <2>2. r2 \in Reply /\ r2.socket = r.socket /\ r2.kind = r.kind
        /\ r2.pc = IF r.pc = "connect" THEN "connected" ELSE "streaming"
    BY <1>1 DEF Reply
  <2> HIDE DEF r2
  <2>3. QED
    BY <1>2, <1>3, <2>1, <2>2, ReplyKeepsInv DEF HeaderOnWay, DataOnWay
<1>7. CASE DropReply(r) /\ \/ NobodyWillListen(r.socket) /\ UNCHANGED <<disturbed, readFaults>>
                           \/ ReadFault({r.socket[1]})
  <2>1. PICK r2 \in Reply, S \in SUBSET Reply :
               /\ S \subseteq {r2} /\ r2.socket = r.socket /\ r2.kind = r.kind
               /\ replies' = (replies \ {r}) \union S
    <3> DEFINE other == [r EXCEPT !.pc = "permission", !.again = FALSE]
               data == [r EXCEPT !.pc = "stream"]
    <3>1. other \in Reply /\ other.socket = r.socket /\ other.kind = r.kind
      BY <1>1 DEF Reply
    <3>2. data \in Reply /\ data.socket = r.socket /\ data.kind = r.kind
      BY <1>1 DEF Reply
    <3>3. CASE r.again
      <4> HIDE DEF data
      <4>1. (CASE r.again -> {other}
               [] r.kind = "data" /\ r.pc = "connect" -> {data}
               [] OTHER -> {}) = {other}
        BY <1>1, <3>3 DEF Reply
      <4>3. replies' = (replies \ {r}) \union {other}
        BY <1>7, <4>1 DEF DropReply, data
      <4> HIDE DEF other
      <4>2. QED
        BY <3>1, <4>3
    <3>4. CASE ~r.again /\ r.kind = "data" /\ r.pc = "connect"
      <4>1. replies' = (replies \ {r}) \union {data}
        BY <1>7, <3>4 DEF DropReply
      <4> HIDE DEF data
      <4>2. QED
        BY <3>2, <4>1
    <3>5. CASE ~r.again /\ ~(r.kind = "data" /\ r.pc = "connect")
      <4>1. replies' = (replies \ {r}) \union {}
        BY <1>7, <3>5 DEF DropReply
      <4>2. QED
        BY <1>1, <4>1
    <3>6. QED
      BY <3>3, <3>4, <3>5
  <2>2. UNCHANGED <<target, atWorker, request, allocated, listening, asked>>
    BY <1>7 DEF DropReply
  <2>3. disturbed \subseteq disturbed' /\ disturbed' \subseteq Reads
        /\ readFaults' \in 0 .. MaxReadFaults
    BY <1>2, <1>3, <1>7, ReadsAssumption DEF ReadFault
  <2>4. q \in disturbed' \/ request[q].pc \notin {"listen", "header", "data"}
    BY <1>2, <1>4, <1>7 DEF ReadFault, NobodyWillListen
  <2>5. QED
    BY <1>2, <2>1, <2>2, <2>3, <2>4, ReplyKeepsInv
<1>8. QED
  BY <1>5, <1>6, <1>7 DEF DropReplyInVain

(* A reply that is heard is the one the request waits for: its header, and *)
(* then its data.                                                          *)
LEMMA AcceptKeepsInv ==
    ASSUME ReadInv, NEW q \in Reads, Accept(q)
    PROVE  ReadInv'
<1>1. RequestOK(q) /\ ReadTypeOK /\ OneMessage /\ RepliesOK
  BY DEF ReadInv
<1>2. PICK r \in replies : /\ ReceiveHeader(q, r) \/ ReceiveData(q, r)
                           /\ replies' = Heard(r)
  BY DEF Accept
<1>3. r \in Reply /\ request[q] \in RequestRecord /\ request \in [Reads -> RequestRecord]
  BY <1>1 DEF ReadTypeOK, RequestRecord
<1>4. UNCHANGED <<target, atWorker, allocated, listening, asked, disturbed, readFaults>>
  BY DEF Accept
<1>5. /\ request[q].pc \in {"header", "data"} /\ request[q].attempt = 1
      /\ r.socket = <<q, 1>> /\ r.pc \in {"connected", "streaming"}
  BY <1>1, <1>2, <1>3
  DEF ReceiveHeader, ReceiveData, ReadAt, RequestOK, RequestRecord, SocketOf
<1>6. PICK r2 \in Reply, S \in SUBSET Reply :
             /\ S \subseteq {r2} /\ r2.socket = r.socket /\ r2.kind = r.kind
             /\ replies' = (replies \ {r}) \union S
             /\ r.kind = "data" /\ r.pc = "connected" => S = {r2} /\ r2.pc = "stream"
  <2> DEFINE other == [r EXCEPT !.pc = "permission", !.again = FALSE]
             data == [r EXCEPT !.pc = "stream"]
  <2>1. other \in Reply /\ other.socket = r.socket /\ other.kind = r.kind
    BY <1>3 DEF Reply
  <2>2. data \in Reply /\ data.socket = r.socket /\ data.kind = r.kind /\ data.pc = "stream"
    BY <1>3 DEF Reply
  <2>3. replies' = (replies \ {r}) \union
                     (CASE r.kind = "data" /\ r.pc = "connected" -> {data}
                        [] r.again -> {other}
                        [] OTHER -> {})
    BY <1>2 DEF Heard
  <2>4. r.again => r.kind # "data"
    BY <1>3 DEF Reply
  <2> HIDE DEF other, data
  <2>5. CASE r.kind = "data" /\ r.pc = "connected"
    <3>1. replies' = (replies \ {r}) \union {data}
      BY <2>3, <2>4, <2>5
    <3>2. QED
      BY <2>2, <3>1
  <2>6. CASE r.again
    <3>1. replies' = (replies \ {r}) \union {other}
      BY <2>3, <2>4, <2>6
    <3>2. QED
      BY <2>1, <2>4, <2>6, <3>1
  <2>7. CASE ~(r.kind = "data" /\ r.pc = "connected") /\ ~r.again
    <3>1. replies' = (replies \ {r}) \union {}
      BY <2>3, <2>7
    <3>2. {} \in SUBSET Reply /\ {} \subseteq {r}
      OBVIOUS
    <3> USE <1>3
    <3>3. WITNESS r \in Reply, {} \in SUBSET Reply
    <3>4. QED
      BY <2>7, <3>1, <3>2
  <2>8. QED
    BY <2>5, <2>6, <2>7
<1>7. OnlyReply(r.socket) /\ replies' \subseteq Reply /\ r.socket \in ReadSockets
  BY <1>4, <1>6, ReplaceReply
<1>8. OneMessage' /\ RepliesOK'
  BY <1>4, <1>7, OnlyReplyKeeps
<1>9. /\ request' \in [Reads -> RequestRecord]
      /\ \A p \in Reads : p # q => request'[p] = request[p]
      /\ request'[q].attempt = 1
      /\ \/ request'[q].pc = "data" /\ request[q].pc = "header"
            /\ request'[q].result = request[q].result
            /\ r.pc = "connected" /\ r.kind = "data"
         \/ request'[q].pc = "close" /\ request[q].pc = "header"
            /\ request'[q].result = "garbled" /\ r.pc = "streaming"
         \/ request'[q].pc = "close" /\ request[q].pc = "header"
            /\ request'[q].result = r.kind
         \/ request'[q].pc = "close" /\ request[q].pc = "data"
            /\ request'[q].result = "data" /\ r.pc = "streaming"
         \/ request'[q].pc = "close" /\ request[q].pc = "data"
            /\ request'[q].result = "garbled" /\ r.pc = "connected"
  <2>1. r.kind \in Results
    BY <1>3 DEF Reply, Results
  <2>2. CASE ReceiveHeader(q, r)
    BY <1>3, <1>5, <2>1, <2>2 DEF ReceiveHeader, ReadAt, Move, Return, RequestRecord, Results
  <2>3. CASE ReceiveData(q, r)
    BY <1>3, <1>5, <2>3 DEF ReceiveData, ReadAt, Move, Return, RequestRecord, Results
  <2>4. QED
    BY <1>2, <2>2, <2>3
<1>10. ReadTypeOK'
  BY <1>1, <1>4, <1>7, <1>9 DEF ReadTypeOK, RequestRecord
<1>11. ASSUME NEW p \in Reads, p # q PROVE RequestOK(p)'
  <2>1. <<p, 1>> # r.socket
    BY <1>5, <1>11
  <2>2. QED
    BY <1>4, <1>7, <1>9, <1>11, <2>1, OnlyReplyOthers
<1>12. RequestOK(q)'
  <2>1. request'[q].pc \in {"data", "close"}
    BY <1>9
  <2>2. (request[q].result = "missing" => Over)' /\ (r.kind = "missing" => Over)
    BY <1>1, <1>4, <1>9 DEF RequestOK, RepliesOK, Over
  <2>3. Unasked(q)' /\ Known(q)' /\ SocketClosed(q)'
    BY <1>1, <1>4, <1>5, <2>1 DEF RequestOK, Unasked, Known, SocketClosed
  <2>4. ASSUME q \notin disturbed PROVE HeaderComes(q)' /\ DataCome(q)' /\ GoodResult(q)'
    <3>1. HeaderComes(q) /\ DataCome(q)
      BY <1>1, <2>4 DEF RequestOK
    <3>2. r.socket \notin asked /\ \A r1 \in replies : r1.socket = r.socket => r1 = r
      BY <1>1 DEF OneMessage
    <3>3. request[q].pc = "header" => r.pc = "connected"
      BY <1>5, <3>1, <3>2 DEF HeaderComes
    <3>4. request[q].pc = "data" => r.pc = "streaming"
      BY <1>5, <3>1, <3>2 DEF DataCome
    <3>5. r.kind \notin {"none", "unreachable", "garbled"}
      BY <1>3 DEF Reply
    <3>6. HeaderComes(q)' /\ GoodResult(q)'
      BY <1>9, <3>3, <3>4, <3>5 DEF HeaderComes, GoodResult
    <3>7. DataCome(q)'
      BY <1>5, <1>6, <1>9 DEF DataCome
    <3>8. QED
      BY <3>6, <3>7
  <2>5. QED
    BY <1>4, <1>9, <2>2, <2>3, <2>4 DEF RequestOK
<1>13. QED
  BY <1>8, <1>10, <1>11, <1>12 DEF ReadInv

(* A socket is closed only when nobody waits on it. *)
LEMMA CloseKeepsInv ==
    ASSUME ReadInv, NEW q \in Reads, CloseSocket(q)
    PROVE  ReadInv'
<1>1. RequestOK(q) /\ ReadTypeOK /\ OneMessage /\ RepliesOK
  BY DEF ReadInv
<1>2. UNCHANGED <<target, atWorker, allocated, asked, disturbed, readFaults>>
  BY DEF CloseSocket
<1>3. request[q] \in RequestRecord /\ request \in [Reads -> RequestRecord]
  BY <1>1 DEF ReadTypeOK, RequestRecord
<1>4. /\ request[q].pc = "close" /\ request[q].attempt = 1 /\ SocketOf(q) = <<q, 1>>
      /\ <<q, 1>> \in ReadSockets
  BY <1>1, <1>3 DEF CloseSocket, ReadAt, RequestOK, RequestRecord, SocketOf, ReadSockets
<1>5. /\ request' \in [Reads -> RequestRecord]
      /\ request'[q].pc = "free" /\ request'[q].attempt = 1
      /\ request'[q].result = request[q].result
      /\ \A p \in Reads : p # q => request'[p] = request[p]
  BY <1>3, <1>4 DEF CloseSocket, Move, RequestRecord
<1>6. listening' = listening \ {<<q, 1>>}
  BY <1>4 DEF CloseSocket
<1> DEFINE New(r) == IF r.socket = <<q, 1>> /\ r.pc = "streaming" THEN [r EXCEPT !.pc = "stream"]
                                                                 ELSE r
           Kept == {r \in replies : r.socket # <<q, 1>> \/ r.pc # "connected"}
<1>7. replies' = {New(r) : r \in Kept}
  BY <1>4 DEF CloseSocket
<1>8. \A r \in replies : /\ New(r) \in Reply /\ New(r).socket = r.socket /\ New(r).kind = r.kind
                         /\ r.socket # <<q, 1>> => New(r) = r
  <2> SUFFICES ASSUME NEW r \in replies
               PROVE  /\ New(r) \in Reply /\ New(r).socket = r.socket /\ New(r).kind = r.kind
                      /\ r.socket # <<q, 1>> => New(r) = r
    OBVIOUS
  <2>1. r \in Reply
    BY <1>1 DEF ReadTypeOK
  <2>2. QED
    BY <2>1 DEF Reply
<1>9. replies' \subseteq Reply /\ OnlyReply(<<q, 1>>)
  <2> HIDE DEF New
  <2>1. \A r1, r2 \in replies : r1.socket = r2.socket => r1 = r2
    BY <1>1 DEF OneMessage
  <2>2. {r \in replies' : r.socket # <<q, 1>>} = {r \in replies : r.socket # <<q, 1>>}
    BY <1>7, <1>8
  <2>3. QED
    BY <1>2, <1>7, <1>8, <2>1, <2>2 DEF OnlyReply
<1> HIDE DEF New, Kept
<1>10. OneMessage' /\ RepliesOK'
  BY <1>2, <1>4, <1>9, OnlyReplyKeeps
<1>11. ReadTypeOK'
  BY <1>1, <1>2, <1>5, <1>6, <1>9 DEF ReadTypeOK, RequestRecord
<1>12. ASSUME NEW p \in Reads, p # q PROVE RequestOK(p)'
  <2>1. <<p, 1>> # <<q, 1>>
    BY <1>12
  <2>2. QED
    BY <1>2, <1>4, <1>5, <1>6, <1>9, <1>12, <2>1, OnlyReplyOthers
<1>13. RequestOK(q)'
  BY <1>1, <1>2, <1>4, <1>5, <1>6
  DEF RequestOK, Over, Unasked, Known, SocketClosed, HeaderComes, DataCome, GoodResult
<1>14. QED
  BY <1>10, <1>11, <1>12, <1>13 DEF ReadInv

-----------------------------------------------------------------------------
(* The worker answers a message once, and only that request sees it. *)
LEMMA HandleReadKeepsInv ==
    ASSUME ReadInv, NEW s \in asked, HandleRead(s)
    PROVE  ReadInv'
<1>1. ReadTypeOK /\ OneMessage /\ RepliesOK
  BY DEF ReadInv
<1>2. UNCHANGED <<target, atWorker, request, allocated, listening, disturbed, readFaults>>
  BY DEF HandleRead
<1>3. PICK q \in Reads : s = <<q, 1>>
  <2>1. s \in ReadSockets /\ s[2] = 1
    BY <1>1 DEF ReadTypeOK, OneMessage
  <2>2. QED
    BY <2>1 DEF ReadSockets
<1>4. PICK r \in Reply : /\ replies' = replies \union {r} /\ asked' = asked \ {s}
                         /\ r.socket = s /\ r.pc = "permission"
                         /\ r.kind = "missing" => ~atWorker
  <2>1. PICK kind \in {"answer", "data", "error", "missing"}, blocking \in BOOLEAN,
             again \in BOOLEAN :
               /\ Answer(s, kind, blocking, again) /\ (again => kind = "error")
               /\ kind = "missing" => ~atWorker
    BY DEF HandleRead
  <2> DEFINE r == [socket |-> s, kind |-> kind, pc |-> "permission",
                   blocking |-> blocking, again |-> again]
  <2>2. r \in Reply /\ r.socket = s /\ r.pc = "permission" /\ r.kind = kind
    BY <1>3, <2>1 DEF Reply, ReadSockets
  <2>3. replies' = replies \union {r} /\ asked' = asked \ {s}
    BY <2>1 DEF HandleRead, Answer
  <2> HIDE DEF r
  <2>4. QED
    BY <2>1, <2>2, <2>3
<1>5. \A r1 \in replies : r1.socket # s
  BY <1>1 DEF OneMessage
<1>6. ReadTypeOK'
  BY <1>1, <1>2, <1>4 DEF ReadTypeOK
<1>7. OneMessage'
  <2>1. \A s2 \in asked' : s2[2] = 1
    BY <1>1, <1>4 DEF OneMessage
  <2>2. \A r1 \in replies' : r1.socket[2] = 1 /\ r1.socket \notin asked'
    BY <1>1, <1>3, <1>4, <1>5 DEF OneMessage
  <2>3. \A r1, r2 \in replies' : r1.socket = r2.socket => r1 = r2
    BY <1>1, <1>4, <1>5 DEF OneMessage
  <2>4. QED
    BY <2>1, <2>2, <2>3 DEF OneMessage
<1>8. RepliesOK'
  BY <1>1, <1>2, <1>4 DEF RepliesOK, Over
<1>9. \A s2 : Answerable(s2)' => Answerable(s2)
  BY <1>4 DEF Answerable
<1>10. ASSUME NEW p \in Reads PROVE RequestOK(p)'
  <2>1. RequestOK(p)
    BY DEF ReadInv
  <2>2. Unasked(p) => Unasked(p)'
    BY <1>2, <1>9 DEF Unasked
  <2>3. HeaderComes(p) => HeaderComes(p)'
    BY <1>2, <1>4 DEF HeaderComes
  <2>4. DataCome(p) => DataCome(p)'
    BY <1>2, <1>4 DEF DataCome
  <2>5. QED
    BY <1>2, <2>1, <2>2, <2>3, <2>4 DEF RequestOK, Over, Known, SocketClosed, GoodResult
<1>11. QED
  BY <1>6, <1>7, <1>8, <1>10 DEF ReadInv

(* The run moves on, the worker forgets it. *)
LEMMA RunKeepsInv ==
    ASSUME ReadInv, MoveTarget \/ Forget
    PROVE  ReadInv'
<1>1. UNCHANGED <<request, allocated, listening, asked, replies, disturbed, readFaults>>
  BY DEF MoveTarget, Forget
<1>2. (Over => Over') /\ (~atWorker' => Over')
      /\ target' \in {"preparing", "running", "finalizing", "final"} /\ atWorker' \in BOOLEAN
  BY DEF MoveTarget, Forget, Over, ReadInv, ReadTypeOK, RepliesOK
<1>3. ReadTypeOK' /\ OneMessage' /\ RepliesOK'
  BY <1>1, <1>2 DEF ReadInv, ReadTypeOK, OneMessage, RepliesOK
<1>4. ASSUME NEW q \in Reads PROVE RequestOK(q)'
  BY <1>1, <1>2
  DEF ReadInv, RequestOK, Unasked, Answerable, Known, SocketClosed, HeaderComes, DataCome, GoodResult
<1>5. QED
  BY <1>3, <1>4 DEF ReadInv

(* A message is lost, or the worker stops: the requests that wait for it   *)
(* are disturbed.                                                          *)
LEMMA LossKeepsInv ==
    ASSUME ReadInv, RestartWorker \/ \E s \in asked : LoseRead(s)
    PROVE  ReadInv'
<1>1. UNCHANGED <<target, atWorker, request, allocated, listening>>
      /\ asked' \subseteq asked /\ replies' \subseteq replies
  BY DEF RestartWorker, LoseRead
<1>2. disturbed \subseteq disturbed' /\ readFaults' \in 0 .. MaxReadFaults
  BY ReadsAssumption DEF RestartWorker, LoseRead, ReadFault, ReadInv, ReadTypeOK
<1>3. \A s \in ReadSockets : s[1] \in Reads
  BY DEF ReadSockets
<1>4. disturbed' \subseteq Reads
  <2>1. \A r \in replies : r.socket[1] \in Reads
    BY <1>3 DEF ReadInv, ReadTypeOK, Reply
  <2>2. \A s \in asked : s[1] \in Reads
    BY <1>3 DEF ReadInv, ReadTypeOK
  <2>3. disturbed \subseteq Reads
    BY DEF ReadInv, ReadTypeOK
  <2>4. CASE RestartWorker
    BY <2>1, <2>3, <2>4 DEF RestartWorker, ReadFault
  <2>5. CASE \E s \in asked : LoseRead(s)
    BY <2>2, <2>3, <2>5 DEF LoseRead, ReadFault
  <2>6. QED
    BY <2>4, <2>5
<1>5. ReadTypeOK' /\ OneMessage' /\ RepliesOK'
  BY <1>1, <1>2, <1>4 DEF ReadInv, ReadTypeOK, OneMessage, RepliesOK, Over
<1>6. ASSUME NEW q \in Reads PROVE RequestOK(q)'
  <2>1. RequestOK(q)
    BY DEF ReadInv
  <2>2. Unasked(q) => Unasked(q)'
    BY <1>1 DEF Unasked, Answerable
  <2>3. ASSUME q \notin disturbed' PROVE HeaderComes(q)' /\ DataCome(q)'
    <3>1. HeaderComes(q) /\ DataCome(q)
      BY <1>2, <2>1, <2>3 DEF RequestOK
    <3>2. CASE RestartWorker
      <4>1. \A r \in replies : r.socket # <<q, 1>>
        BY <2>3, <3>2 DEF RestartWorker, ReadFault
      <4>2. asked' = asked
        BY <3>2 DEF RestartWorker
      <4>3. QED
        BY <1>1, <3>1, <4>1, <4>2 DEF HeaderComes, DataCome
    <3>3. CASE \E s \in asked : LoseRead(s)
      <4>1. replies' = replies /\ (<<q, 1>> \in asked => <<q, 1>> \in asked')
        BY <2>3, <3>3 DEF LoseRead, ReadFault
      <4>2. QED
        BY <1>1, <3>1, <4>1 DEF HeaderComes, DataCome
    <3>4. QED
      BY <3>2, <3>3
  <2>4. QED
    BY <1>1, <1>2, <2>1, <2>2, <2>3 DEF RequestOK, Over, Known, SocketClosed, GoodResult
<1>7. QED
  BY <1>5, <1>6 DEF ReadInv

-----------------------------------------------------------------------------
(* The invariant holds at the start, and every step keeps it. *)
THEOREM ReadInvHolds == ReadSpec => []ReadInv
<1>1. ReadInit => ReadInv
  BY ReadsAssumption
  DEF ReadInit, ReadInv, ReadTypeOK, Results, OneMessage, RepliesOK, RequestOK, Over, Unasked,
      Answerable, Known, SocketClosed, HeaderComes, DataCome, GoodResult
<1>2. ReadInv /\ [ReadNext]_readVars => ReadInv'
  <2> SUFFICES ASSUME ReadInv, [ReadNext]_readVars PROVE ReadInv'
    OBVIOUS
  <2>1. ASSUME NEW q \in Reads, ReadStep(q) \/ BeginRead(q) \/ (StopWaiting(q) /\ ReadFault({q}))
        PROVE  ReadInv'
    BY <2>1, RequestKeepsInv, StopKeepsInv, AcceptKeepsInv, CloseKeepsInv, DeallocateKeepsInv
    DEF ReadStep
  <2>2. ASSUME NEW s \in asked, HandleRead(s) PROVE ReadInv'
    BY <2>2, HandleReadKeepsInv
  <2>3. ASSUME NEW r \in replies, ReplyStep(r) \/ (DropReply(r) /\ ReadFault({r.socket[1]}))
        PROVE  ReadInv'
    BY <2>3, HandlerKeepsInv DEF ReplyStep
  <2>4. CASE MoveTarget \/ Forget
    BY <2>4, RunKeepsInv
  <2>5. CASE RestartWorker \/ \E s \in asked : LoseRead(s)
    BY <2>5, LossKeepsInv
  <2>6. CASE UNCHANGED readVars
    BY <2>6
    DEF readVars, ReadInv, ReadTypeOK, OneMessage, RepliesOK, RequestOK, Over, Unasked,
        Answerable, Known, SocketClosed, HeaderComes, DataCome, GoodResult
  <2>7. QED
    BY <2>1, <2>2, <2>3, <2>4, <2>5, <2>6 DEF ReadNext, ServedStep
<1>3. QED
  BY <1>1, <1>2, PTL DEF ReadSpec

(* Requests, messages, replies and sockets keep their types                *)
(* (DownloadManager, Reader, WorkerModel).                                 *)
THEOREM ReadTypeCorrect == ReadSpec => []ReadTypeOK
BY ReadInvHolds, PTL DEF ReadInv

(* Wherever the run goes while its files are read, each request that       *)
(* nothing was lost for gets its answer (DownloadManager, Reader, reply,   *)
(* reply_data).                                                            *)
THEOREM AlwaysReadAnswered == ReadSpec => []ReadAnswered
<1>1. ReadInv => ReadAnswered
  <2> SUFFICES ASSUME ReadInv, NEW q \in Reads, ReadAt(q, "done"), q \notin disturbed
               PROVE  request[q].result
                        \in {"stored", "not_ready", "no_worker", "answer", "data", "error"}
    BY DEF ReadAnswered
  <2>1. request[q].result \in Results
    BY DEF ReadInv, ReadTypeOK
  <2>2. QED
    BY <2>1 DEF ReadInv, RequestOK, GoodResult, ReadAt, Results
<1>2. QED
  BY <1>1, ReadInvHolds, PTL
=============================================================================
