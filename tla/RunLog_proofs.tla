----------------------------- MODULE RunLog_proofs -----------------------------
(***************************************************************************)
(* Proofs about RunLog: whatever a page's history does not hold is         *)
(* replayed to it or reaches it live, and what it is shown twice is the    *)
(* content of one entry, for any ring, any number of pages and any order   *)
(* of pushes, writes, marks, summaries, reloads and resumes.               *)
(***************************************************************************)
EXTENDS RunLog, FiniteSetTheorems, SequenceTheorems, WellFoundedInduction, TLAPS

-------------------------------------------------------------------------------
(* The inductive invariant.                                                *)

Kinds == {"text", "reasoning", "terminal"}
Filled(s) == entries[s] # {}
Awaited == storing = "queued" \/ orphan

(* The ring holds the newest events; it is short of Cap only if it holds all. *)
Ring ==
  /\ Len(buf) <= Pushed /\ (Len(buf) < Cap => Len(buf) = Pushed)
  /\ \A k \in DOMAIN buf : buf[k] = (Pushed - Len(buf)) + k

(* Where the driver is and what may be waiting for the writer thread. *)
Control ==
  /\ orphan => driver = "done" /\ storing = "no"
  /\ storing # "no" => driver # "done"
  /\ driver = "emit" => Pushed < MaxEvents
  /\ Awaited => Len(entries) < MaxEntries /\ NextEntry # {}
  /\ storing = "stored" => covered = Pushed /\ covered # 0

(* The content of the first n events is in the first top entries. *)
Told(n, top) == \A i \in 1..n : Content(i) => \E s \in 1..top : i \in entries[s]

(* Entries hold what was handed to the store, all of it if no write failed. *)
Written ==
  /\ covered <= Pushed /\ Len(entries) > 0
  /\ \A s \in DOMAIN entries : entries[s] \subseteq 1..covered
  /\ failures = MaxFailures => Told(covered, Len(entries))

(* A mark tells the truth: up to its entry nothing past its event is stored,
   and, if no write failed, everything before it is. *)
MarkIsTrue(m) ==
  /\ m.seq <= Len(entries) /\ m.at <= covered
  /\ \A s \in 1..m.seq : entries[s] \subseteq 1..m.at
  /\ failures = MaxFailures => Told(m.at, m.seq)
Marked ==
  /\ \A k \in DOMAIN marks : MarkIsTrue(marks[k])
  /\ \A k, l \in DOMAIN marks : k <= l => marks[k].at <= marks[l].at

(* Only the newest entry with content can be without its mark, and none is
   while another is about to be written. *)
HasMark(s) == \E k \in DOMAIN marks : s <= marks[k].seq
OneUnmarked ==
  /\ \A s, r \in DOMAIN entries : s < r /\ Filled(s) /\ Filled(r) =>
       \E k \in DOMAIN marks : s <= marks[k].seq /\ marks[k].seq < r
  /\ Awaited \/ (storing = "no" /\ driver # "done") =>
       \A s \in DOMAIN entries : Filled(s) => HasMark(s)

PageOf(p) ==
  /\ since[p] <= Len(entries)
  /\ page[p] = "following" => p \in subs
  /\ page[p] \in {"away", "loaded"} => received[p] = <<>> /\ queue[p] = <<>>
  /\ page[p] = "told" => driver # "emit"

(* Whatever a page was sent has been pushed, and a terminal event ends emitting. *)
OnlyPushed ==
  /\ \A p \in Pages : Sent(p) \subseteq 1..Pushed
  /\ driver = "emit" => \A i \in 1..Pushed : stream[i] # "terminal"

StoreInv == Ring /\ Control /\ Written /\ Marked /\ OneUnmarked
PageInv == (\A p \in Pages : PageOf(p)) /\ OnlyPushed
IInv == TypeOK /\ StoreInv /\ PageInv /\ NoHole /\ RepeatsOneEntry

-------------------------------------------------------------------------------
(* Sequences and sets.                                                     *)

(* Appending adds one element and leaves the others where they are. *)
LEMMA AppendFacts ==
  ASSUME NEW S, NEW s \in Seq(S), NEW x \in S
  PROVE  /\ Append(s, x) \in Seq(S)
         /\ Len(Append(s, x)) = Len(s) + 1 /\ Len(s) \in Nat
         /\ \A i \in 1..Len(s) : Append(s, x)[i] = s[i]
         /\ Append(s, x)[Len(s) + 1] = x
         /\ DOMAIN s = 1..Len(s) /\ DOMAIN Append(s, x) = 1..(Len(s) + 1)
         /\ Elements(Append(s, x)) = Elements(s) \cup {x}
<1>1. /\ Append(s, x) \in Seq(S)
      /\ Len(Append(s, x)) = Len(s) + 1 /\ Len(s) \in Nat
      /\ \A i \in 1..Len(s) : Append(s, x)[i] = s[i]
      /\ Append(s, x)[Len(s) + 1] = x
  OBVIOUS
<1>2. DOMAIN s = 1..Len(s) /\ DOMAIN Append(s, x) = 1..(Len(s) + 1)
  BY <1>1
<1> DEFINE r == Append(s, x)
<1>3. Elements(r) \subseteq Elements(s) \cup {x}
  <2> SUFFICES ASSUME NEW i \in 1..(Len(s) + 1) PROVE r[i] \in Elements(s) \cup {x}
    BY <1>2 DEF Elements
  <2>1. i \in 1..Len(s) \/ i = Len(s) + 1
    BY <1>1
  <2> QED  BY <1>1, <1>2, <2>1 DEF Elements
<1>4. Elements(s) \subseteq Elements(r)
  <2> SUFFICES ASSUME NEW i \in 1..Len(s) PROVE s[i] \in Elements(r)
    BY <1>2 DEF Elements
  <2>1. i \in 1..(Len(s) + 1) /\ r[i] = s[i]
    BY <1>1
  <2> QED  BY <1>2, <2>1 DEF Elements
<1>5. x \in Elements(r)
  <2>1. Len(s) + 1 \in 1..(Len(s) + 1)
    BY <1>1
  <2> QED  BY <1>1, <1>2, <2>1 DEF Elements
<1> QED  BY <1>1, <1>2, <1>3, <1>4, <1>5

(* Taking the head off leaves the rest, one place nearer. *)
LEMMA TailFacts ==
  ASSUME NEW S, NEW s \in Seq(S), s # <<>>
  PROVE  /\ Tail(s) \in Seq(S) /\ Len(Tail(s)) = Len(s) - 1 /\ Len(s) \in Nat \ {0}
         /\ \A i \in 1..(Len(s) - 1) : Tail(s)[i] = s[i + 1]
         /\ Head(s) \in S /\ Head(s) = s[1]
         /\ Elements(s) = Elements(Tail(s)) \cup {Head(s)}
<1>1. /\ Tail(s) \in Seq(S) /\ Len(Tail(s)) = Len(s) - 1 /\ Len(s) \in Nat \ {0}
      /\ \A i \in 1..(Len(s) - 1) : Tail(s)[i] = s[i + 1]
      /\ Head(s) = s[1]
  BY EmptySeq
<1>2. DOMAIN s = 1..Len(s) /\ DOMAIN Tail(s) = 1..(Len(s) - 1)
  BY <1>1
<1>3. Head(s) \in S
  BY <1>1, <1>2
<1>4. Elements(s) \subseteq Elements(Tail(s)) \cup {Head(s)}
  <2> SUFFICES ASSUME NEW i \in 1..Len(s) PROVE s[i] \in Elements(Tail(s)) \cup {Head(s)}
    BY <1>2 DEF Elements
  <2>1. CASE i = 1
    BY <1>1, <2>1
  <2>2. CASE i # 1
    <3>1. i - 1 \in 1..(Len(s) - 1) /\ (i - 1) + 1 = i
      BY <1>1, <2>2
    <3>2. Tail(s)[i - 1] = s[i]
      BY <1>1, <3>1
    <3> QED  BY <1>2, <3>1, <3>2 DEF Elements
  <2> QED  BY <2>1, <2>2
<1>5. Elements(Tail(s)) \cup {Head(s)} \subseteq Elements(s)
  <2>1. \A i \in 1..(Len(s) - 1) : i + 1 \in 1..Len(s)
    BY <1>1
  <2>2. 1 \in 1..Len(s)
    BY <1>1
  <2> QED  BY <1>1, <1>2, <2>1, <2>2 DEF Elements
<1> QED  BY <1>1, <1>3, <1>4, <1>5

(* Max returns the largest element of a set of naturals that has a bound. *)
LEMMA MaxIsLargest ==
  ASSUME NEW n \in Nat, NEW S \in SUBSET (0..n), S # {}
  PROVE  Max(S) \in S /\ \A x \in S : x <= Max(S)
<1> DEFINE D == {k \in Nat : \E x \in S : x + k = n}
<1>1. D \subseteq Nat
  OBVIOUS
<1>2. D # {}
  <2>1. PICK x \in S : TRUE
    OBVIOUS
  <2>2. x \in 0..n
    BY <2>1
  <2>3. n - x \in Nat /\ x + (n - x) = n
    BY <2>2
  <2> QED  BY <2>1, <2>3
<1>3. PICK k \in D : \A j \in D : ~(<<j, k>> \in OpToRel(<, Nat))
  <2> HIDE DEF D
  <2> QED  BY <1>1, <1>2, NatLessThanWellFounded, WFMin
<1>4. PICK x \in S : x + k = n
  BY <1>3
<1>5. k \in Nat /\ x \in 0..n
  BY <1>1, <1>3, <1>4
<1>6. \A y \in S : x >= y
  <2> TAKE y \in S
  <2>1. y \in 0..n
    OBVIOUS
  <2>2. n - y \in D
    BY <2>1
  <2>3. ~(n - y < k)
    BY <1>3, <1>5, <2>1, <2>2 DEF OpToRel
  <2> QED  BY <1>4, <1>5, <2>1, <2>3
<1>7. /\ Max(S) \in S
      /\ \A y \in S : Max(S) >= y
  BY <1>4, <1>6 DEF Max
<1>8. \A y \in S : y \in Nat
  OBVIOUS
<1> QED  BY <1>7, <1>8

(* InOrder gives every place of a set, and only those: how many places come
   before one tells it from the others, and so counts them all. *)
LEMMA InOrderIsOnto ==
  ASSUME NEW n \in Nat, NEW D \in SUBSET (1..n)
  PROVE  /\ Cardinality(D) \in Nat
         /\ \A k \in 1..Cardinality(D) : InOrder(D)[k] \in D
         /\ \A i \in D : \E k \in 1..Cardinality(D) : InOrder(D)[k] = i
<1> DEFINE Before(i) == {j \in D : j < i}
           c == Cardinality(D)
           rank(i) == Cardinality(Before(i))
           f == [i \in D |-> rank(i) + 1]
<1>1. IsFiniteSet(1..n) /\ D \subseteq 1..n /\ D \subseteq Nat
  <2>1. IsFiniteSet(1..n)
    <3>1. 1 \in Int /\ n \in Int
      OBVIOUS
    <3> QED  BY <3>1, FS_Interval
  <2>2. D \subseteq 1..n /\ 1..n \subseteq Nat
    OBVIOUS
  <2> QED  BY <2>1, <2>2
<1>2. IsFiniteSet(D)
  BY <1>1, FS_Subset
<1>3. c \in Nat
  BY <1>2, FS_CardinalityType
<1>4. \A i \in D : IsFiniteSet(Before(i)) /\ rank(i) \in Nat
  <2> TAKE i \in D
  <2>1. Before(i) \in SUBSET D
    OBVIOUS
  <2>2. IsFiniteSet(Before(i))
    BY <1>2, <2>1, FS_Subset
  <2> QED  BY <2>2, FS_CardinalityType
<1>5. \A i \in D : rank(i) + 1 \in 1..c
  <2> TAKE i \in D
  <2>1. Cardinality(D \ {i}) = c - 1 /\ IsFiniteSet(D \ {i})
    BY <1>2, FS_RemoveElement
  <2>2. Before(i) \in SUBSET (D \ {i})
    BY <1>1
  <2>3. rank(i) <= c - 1
    BY <2>1, <2>2, FS_Subset
  <2>4. rank(i) \in Nat
    BY <1>4
  <2> HIDE DEF rank, c
  <2> QED  BY <1>3, <2>3, <2>4
<1>6. ASSUME NEW i \in D, NEW j \in D, i < j PROVE rank(i) < rank(j)
  <2>1. i \notin Before(i) /\ IsFiniteSet(Before(i)) /\ IsFiniteSet(Before(j))
    BY <1>1, <1>4
  <2>2. Cardinality(Before(i) \cup {i}) = rank(i) + 1
    BY <2>1, FS_AddElement
  <2>3. Before(i) \cup {i} \in SUBSET Before(j)
    <3> SUFFICES ASSUME NEW x \in Before(i) PROVE x < j
      BY <1>6
    <3> QED  BY <1>1, <1>6
  <2>4. rank(i) + 1 <= rank(j)
    BY <2>1, <2>2, <2>3, FS_Subset
  <2>5. rank(i) \in Nat /\ rank(j) \in Nat
    BY <1>4
  <2> HIDE DEF rank
  <2> QED  BY <2>4, <2>5
<1>7. \A i, j \in D : rank(i) = rank(j) => i = j
  <2> SUFFICES ASSUME NEW i \in D, NEW j \in D, rank(i) = rank(j) PROVE i = j
    OBVIOUS
  <2>1. ~(i < j) /\ ~(j < i)
    <3>1. rank(i) \in Nat
      BY <1>4
    <3>2. ~(rank(i) < rank(i))
      <4> HIDE DEF rank
      <4> QED  BY <3>1
    <3> HIDE DEF rank
    <3> QED  BY <1>6, <3>2
  <2> QED  BY <1>1, <2>1
<1>8. f \in Injection(D, 1..c)
  <2>1. f \in [D -> 1..c]
    BY <1>5
  <2>2. \A i, j \in D : f[i] = f[j] => i = j
    <3> SUFFICES ASSUME NEW i \in D, NEW j \in D, f[i] = f[j] PROVE i = j
      OBVIOUS
    <3>1. rank(i) + 1 = rank(j) + 1 /\ rank(i) \in Nat /\ rank(j) \in Nat
      BY <1>4
    <3>2. rank(i) = rank(j)
      <4> HIDE DEF rank
      <4> QED  BY <3>1
    <3> QED  BY <1>7, <3>2
  <2> HIDE DEF f
  <2> QED  BY <2>1, <2>2 DEF Injection, IsInjective
<1>9. f \in Surjection(D, 1..c)
  <2>1. IsFiniteSet(1..c) /\ Cardinality(1..c) = c
    BY <1>3, FS_Interval
  <2> HIDE DEF f
  <2> QED  BY <1>8, <2>1, FS_Injection
<1>10. ASSUME NEW k \in 1..c PROVE InOrder(D)[k] \in D /\ rank(InOrder(D)[k]) = k - 1
  <2>1. PICK i \in D : f[i] = k
    BY <1>9, <1>10 DEF Surjection
  <2>2. rank(i) + 1 = k /\ rank(i) \in Nat /\ k \in Nat
    BY <1>3, <1>4, <2>1
  <2>3. rank(i) = k - 1
    <3> HIDE DEF rank
    <3> QED  BY <2>2
  <2>4. InOrder(D)[k] = CHOOSE x \in D : rank(x) = k - 1
    BY DEF InOrder
  <2> QED  BY <2>3, <2>4
<1>11. ASSUME NEW i \in D PROVE \E k \in 1..c : InOrder(D)[k] = i
  <2> DEFINE k == rank(i) + 1
  <2>1. k \in 1..c
    BY <1>5
  <2>2. rank(i) \in Nat /\ k - 1 = rank(i)
    <3>1. rank(i) \in Nat
      BY <1>4
    <3> HIDE DEF rank
    <3> QED  BY <3>1
  <2>3. InOrder(D)[k] \in D /\ rank(InOrder(D)[k]) = k - 1
    BY <1>10, <2>1
  <2> HIDE DEF k
  <2>4. rank(InOrder(D)[k]) = rank(i)
    BY <2>2, <2>3
  <2>5. InOrder(D)[k] = i
    <3> HIDE DEF rank
    <3> QED  BY <1>7, <2>3, <2>4
  <2> QED  BY <2>1, <2>5
<1> QED  BY <1>3, <1>10, <1>11

(* Picked returns the elements at the places asked for, and no others. *)
LEMMA PickedFacts ==
  ASSUME NEW S, NEW s \in Seq(S), NEW D \in SUBSET DOMAIN s
  PROVE  /\ Picked(s, D) \in Seq(S)
         /\ Elements(Picked(s, D)) = {s[i] : i \in D}
<1>1. Len(s) \in Nat /\ DOMAIN s = 1..Len(s) /\ D \in SUBSET (1..Len(s))
  OBVIOUS
<1> DEFINE c == Cardinality(D)
<1>2. /\ c \in Nat
      /\ \A k \in 1..c : InOrder(D)[k] \in D
      /\ \A i \in D : \E k \in 1..c : InOrder(D)[k] = i
  BY <1>1, InOrderIsOnto
<1> HIDE DEF c
<1>3. Picked(s, D) = [k \in 1..c |-> s[InOrder(D)[k]]]
  BY DEF Picked, c
<1>4. \A k \in 1..c : s[InOrder(D)[k]] \in S
  BY <1>1, <1>2
<1>5. Picked(s, D) \in Seq(S)
  BY <1>2, <1>3, <1>4
<1>6. Elements(Picked(s, D)) = {s[InOrder(D)[k]] : k \in 1..c}
  BY <1>3 DEF Elements
<1> QED  BY <1>2, <1>5, <1>6

-------------------------------------------------------------------------------
(* The log.                                                                *)

(* Facts of the type invariant in the form the steps use. *)
LEMMA TypeFacts ==
  ASSUME TypeOK
  PROVE  /\ Pushed \in Nat /\ Pushed <= MaxEvents /\ stream \in Seq(Kinds)
         /\ Len(buf) \in Nat /\ Len(buf) <= Cap /\ DOMAIN buf = 1..Len(buf)
         /\ Len(marks) \in Nat /\ DOMAIN marks = 1..Len(marks)
         /\ Len(entries) \in Nat /\ DOMAIN entries = 1..Len(entries)
         /\ \A k \in DOMAIN marks : marks[k].seq \in 1..MaxEntries /\ marks[k].at \in Positions
         /\ \A s \in DOMAIN entries : entries[s] \in SUBSET Positions
         /\ covered \in Nat /\ covered <= MaxEvents
         /\ MaxEvents \in Nat \ {0} /\ MaxEntries \in Nat \ {0} /\ Cap \in Nat \ {0}
         /\ MaxFailures \in Nat
         /\ \A p \in Pages : since[p] \in Nat /\ since[p] <= MaxEntries
<1>1. /\ stream \in Seq(Kinds) /\ Len(stream) \in Nat /\ Pushed <= MaxEvents
      /\ buf \in Seq(Positions) /\ Len(buf) <= Cap
      /\ marks \in Seq([seq : 1..MaxEntries, at : Positions])
      /\ entries \in Seq(SUBSET Positions)
      /\ covered \in 0..MaxEvents
      /\ since \in [Pages -> 0..MaxEntries]
  BY DEF TypeOK, Kinds
<1>2. /\ Len(buf) \in Nat /\ DOMAIN buf = 1..Len(buf)
      /\ Len(marks) \in Nat /\ DOMAIN marks = 1..Len(marks)
      /\ Len(entries) \in Nat /\ DOMAIN entries = 1..Len(entries)
  BY <1>1
<1>3. \A k \in DOMAIN marks : marks[k] \in [seq : 1..MaxEntries, at : Positions]
  <2> DEFINE M == [seq : 1..MaxEntries, at : Positions]
  <2>1. marks \in Seq(M)
    BY <1>1
  <2> HIDE DEF M
  <2>2. \A k \in DOMAIN marks : marks[k] \in M
    BY <1>2, <2>1
  <2> QED  BY <2>2 DEF M
<1>4. \A k \in DOMAIN marks : marks[k].seq \in 1..MaxEntries /\ marks[k].at \in Positions
  BY <1>3
<1>5. \A s \in DOMAIN entries : entries[s] \in SUBSET Positions
  BY <1>1, <1>2
<1>6. MaxEvents \in Nat \ {0} /\ MaxEntries \in Nat \ {0} /\ Cap \in Nat \ {0}
      /\ MaxFailures \in Nat
  BY RunLogAssumption
<1>7. covered \in Nat /\ covered <= MaxEvents
  BY <1>1, <1>6
<1>8. \A p \in Pages : since[p] \in Nat /\ since[p] <= MaxEntries
  BY <1>1, <1>6
<1> QED  BY <1>1, <1>2, <1>4, <1>5, <1>6, <1>7, <1>8 DEF Pushed

LEMMA InitIsSafe == Init => IInv
<1> SUFFICES ASSUME Init PROVE IInv
  OBVIOUS
<1> USE DEF Init
<1>1. stream = <<>> /\ buf = <<>> /\ marks = <<>> /\ Pushed = 0
      /\ entries = << {} >> /\ Len(entries) = 1 /\ entries[1] = {} /\ Len(buf) = 0
      /\ DOMAIN entries = 1..1 /\ DOMAIN marks = {} /\ DOMAIN buf = {}
  BY DEF Pushed
<1>2. 1 <= MaxEntries /\ 0 < MaxEvents /\ 0 < Cap /\ MaxFailures \in Nat /\ MaxEvents \in Nat
      /\ MaxEntries \in Nat /\ Cap \in Nat
  BY RunLogAssumption
<1>3. TypeOK
  <2>1. << {} >> \in Seq(SUBSET Positions)
    OBVIOUS
  <2>2. 0 \in 0..MaxEvents /\ MaxFailures \in 0..MaxFailures /\ 0 \in 0..MaxEntries
    BY <1>2
  <2>3. since \in [Pages -> 0..MaxEntries]
    BY <2>2
  <2>4. /\ page \in [Pages -> {"away", "loaded", "following", "told", "closed", "missed", "left"}]
        /\ queue \in [Pages -> Seq(Positions)] /\ received \in [Pages -> Seq(Positions)]
    OBVIOUS
  <2>5. /\ stream \in Seq({"text", "reasoning", "terminal"}) /\ buf \in Seq(Positions)
        /\ marks \in Seq([seq : 1..MaxEntries, at : Positions])
    BY <1>1
  <2>6. Pushed <= MaxEvents /\ Len(buf) <= Cap /\ Len(entries) <= MaxEntries
    BY <1>1, <1>2
  <2> QED  BY <2>1, <2>2, <2>3, <2>4, <2>5, <2>6 DEF TypeOK
<1>4. StoreInv
  <2>1. Ring
    BY <1>1, <1>2 DEF Ring
  <2>2. Control
    BY <1>1, <1>2 DEF Control, Awaited
  <2>3. Written
    BY <1>1 DEF Written, Told
  <2>4. Marked
    BY <1>1 DEF Marked
  <2>5. OneUnmarked
    BY <1>1 DEF OneUnmarked, Filled
  <2> QED  BY <2>1, <2>2, <2>3, <2>4, <2>5 DEF StoreInv
<1>5. \A p \in Pages : Sent(p) = {}
  BY DEF Sent, Elements
<1>6. PageInv
  BY <1>1, <1>5 DEF PageInv, PageOf, OnlyPushed
<1>7. Following = {}
  BY DEF Following
<1> QED  BY <1>3, <1>4, <1>6, <1>7 DEF IInv, NoHole, RepeatsOneEntry

(* What a push does, whatever the kind of the event. *)
LEMMA PushFacts ==
  ASSUME TypeOK, Ring, Pushed < MaxEvents, NEW kind \in Kinds, Push(kind)
  PROVE  /\ stream' \in Seq(Kinds) /\ Pushed' = Pushed + 1 /\ Pushed' <= MaxEvents
         /\ \A i \in 1..Pushed : stream'[i] = stream[i]
         /\ stream'[Pushed + 1] = kind
         /\ buf' \in Seq(Positions) /\ Len(buf') <= Cap
         /\ Ring'
         /\ marks' = marks
         /\ subs' = {p \in subs : page[p] = "following"}
         /\ \A p \in Pages : /\ queue'[p] \in Seq(Positions)
                             /\ IF p \in subs'
                                THEN Elements(queue'[p]) = Elements(queue[p]) \cup {Pushed + 1}
                                ELSE queue'[p] = queue[p]
         /\ queue' \in [Pages -> Seq(Positions)]
<1> USE TypeFacts
<1> DEFINE n == Pushed + 1
<1>1. n \in Positions /\ n \in Nat /\ n <= MaxEvents
  BY DEF Positions
<1>2. stream' = Append(stream, kind) /\ buf' = IntoRing(n)
  BY DEF Push
<1>3. /\ stream' \in Seq(Kinds) /\ Len(stream') = Len(stream) + 1
      /\ \A i \in 1..Len(stream) : stream'[i] = stream[i]
      /\ stream'[Len(stream) + 1] = kind
  BY <1>2, AppendFacts
<1>4. Pushed' = Pushed + 1
  BY <1>3 DEF Pushed
<1>5. buf \in Seq(Positions)
  BY DEF TypeOK
<1>6. buf' \in Seq(Positions) /\ Len(buf') <= Cap /\ Ring'
  <2>1. CASE Len(buf) = Cap
    <3>1. buf # <<>>
      BY <2>1
    <3>2. /\ Tail(buf) \in Seq(Positions) /\ Len(Tail(buf)) = Len(buf) - 1
          /\ \A i \in 1..(Len(buf) - 1) : Tail(buf)[i] = buf[i + 1]
      BY <1>5, <3>1, TailFacts
    <3>3. buf' = Append(Tail(buf), n)
      BY <1>2, <2>1 DEF IntoRing
    <3>4. /\ buf' \in Seq(Positions) /\ Len(buf') = Len(Tail(buf)) + 1
          /\ \A i \in 1..Len(Tail(buf)) : buf'[i] = Tail(buf)[i]
          /\ buf'[Len(Tail(buf)) + 1] = n
          /\ DOMAIN buf' = 1..(Len(Tail(buf)) + 1)
      BY <1>1, <3>2, <3>3, AppendFacts
    <3>5. Len(buf') = Cap /\ DOMAIN buf' = 1..Cap
      BY <2>1, <3>2, <3>4
    <3>6. ASSUME NEW k \in 1..Cap PROVE buf'[k] = (n - Cap) + k
      <4>1. CASE k = Cap
        BY <1>1, <2>1, <3>2, <3>4, <4>1
      <4>2. CASE k # Cap
        <5>1. k \in 1..(Len(buf) - 1) /\ k + 1 \in 1..Len(buf)
          BY <2>1, <4>2
        <5>2. buf'[k] = buf[k + 1]
          BY <3>2, <3>4, <5>1
        <5>3. buf[k + 1] = (Pushed - Len(buf)) + (k + 1)
          BY <5>1 DEF Ring
        <5> QED  BY <2>1, <5>2, <5>3
      <4> QED  BY <4>1, <4>2
    <3>7. Cap <= Pushed'
      BY <1>4, <2>1 DEF Ring
    <3> QED  BY <1>4, <3>4, <3>5, <3>6, <3>7 DEF Ring
  <2>2. CASE Len(buf) # Cap
    <3>1. buf' = Append(buf, n) /\ Len(buf) = Pushed
      BY <1>2, <2>2 DEF IntoRing, Ring
    <3>2. /\ buf' \in Seq(Positions) /\ Len(buf') = Len(buf) + 1
          /\ \A i \in 1..Len(buf) : buf'[i] = buf[i]
          /\ buf'[Len(buf) + 1] = n
          /\ DOMAIN buf' = 1..(Len(buf) + 1)
      BY <1>1, <1>5, <3>1, AppendFacts
    <3>3. Len(buf') = Pushed' /\ Len(buf') <= Cap
      BY <1>4, <2>2, <3>1, <3>2
    <3>4. ASSUME NEW k \in 1..(Len(buf) + 1) PROVE buf'[k] = k
      <4>1. CASE k = Len(buf) + 1
        BY <3>1, <3>2, <4>1
      <4>2. CASE k # Len(buf) + 1
        <5>1. k \in 1..Len(buf)
          BY <4>2
        <5>2. buf[k] = (Pushed - Len(buf)) + k
          BY <5>1 DEF Ring
        <5> QED  BY <3>1, <3>2, <5>1, <5>2
      <4> QED  BY <4>1, <4>2
    <3>5. \A k \in DOMAIN buf' : buf'[k] = (Pushed' - Len(buf')) + k
      <4> TAKE k \in DOMAIN buf'
      <4>1. k \in 1..(Len(buf) + 1) /\ buf'[k] = k
        BY <3>2, <3>4
      <4>2. Pushed' - Len(buf') = 0
        BY <1>4, <3>3
      <4> QED  BY <4>1, <4>2
    <3>6. Len(buf') <= Pushed'
      BY <1>4, <3>3
    <3> QED  BY <3>2, <3>3, <3>5, <3>6 DEF Ring
  <2> QED  BY <2>1, <2>2
<1>7. marks' = marks /\ subs' = {p \in subs : page[p] = "following"}
  BY DEF Push
<1>8. queue' = [p \in Pages |-> IF p \in subs' THEN Append(queue[p], n) ELSE queue[p]]
  BY DEF Push
<1>9. ASSUME NEW p \in Pages
      PROVE  /\ queue'[p] \in Seq(Positions)
             /\ IF p \in subs' THEN Elements(queue'[p]) = Elements(queue[p]) \cup {n}
                ELSE queue'[p] = queue[p]
  <2>1. queue[p] \in Seq(Positions)
    BY DEF TypeOK
  <2>2. Append(queue[p], n) \in Seq(Positions)
        /\ Elements(Append(queue[p], n)) = Elements(queue[p]) \cup {n}
    BY <1>1, <2>1, AppendFacts
  <2> QED  BY <1>8, <2>1, <2>2
<1>10. queue' \in [Pages -> Seq(Positions)]
  BY <1>8, <1>9
<1> QED  BY <1>1, <1>3, <1>4, <1>6, <1>7, <1>9, <1>10 DEF Pushed

(* No event, entry or failure is ever taken back. *)
Grows ==
  /\ Pushed <= Pushed' /\ Pushed' \in Nat
  /\ \A i \in 1..Pushed : stream'[i] = stream[i]
  /\ Len(entries) <= Len(entries') /\ Len(entries') \in Nat
  /\ \A s \in 1..Len(entries) : entries'[s] = entries[s]
  /\ covered <= covered' /\ covered' \in Nat
  /\ failures' <= failures /\ failures \in 0..MaxFailures /\ failures' \in Nat

(* What was said of a mark stays so. *)
LEMMA ToldStays ==
  ASSUME TypeOK, Grows, NEW n \in Nat, NEW top \in Nat, n <= Pushed, top <= Len(entries),
         Told(n, top)
  PROVE  Told(n, top)'
<1> SUFFICES ASSUME NEW i \in 1..n, Content(i)' PROVE \E s \in 1..top : i \in entries'[s]
  BY DEF Told
<1>1. i \in 1..Pushed /\ stream'[i] = stream[i]
  <2>1. Pushed \in Nat
    BY TypeFacts
  <2>2. i \in 1..Pushed
    BY <2>1
  <2> QED  BY <2>2 DEF Grows
<1>2. PICK s \in 1..top : i \in entries[s]
  BY <1>1 DEF Told, Content
<1>3. s \in 1..Len(entries)
  BY TypeFacts
<1> QED  BY <1>2, <1>3 DEF Grows

LEMMA MarkStaysTrue ==
  ASSUME TypeOK, Written, Grows, NEW m \in [seq : 1..MaxEntries, at : Positions], MarkIsTrue(m)
  PROVE  MarkIsTrue(m)'
<1>1. m.seq \in Nat /\ m.at \in Nat /\ m.seq <= Len(entries) /\ m.at <= covered
      /\ covered <= Pushed
  BY TypeFacts DEF MarkIsTrue, Written, Positions
<1>2. m.seq <= Len(entries') /\ m.at <= covered'
  BY <1>1, TypeFacts DEF Grows
<1>3. \A s \in 1..m.seq : entries'[s] \subseteq 1..m.at
  <2> TAKE s \in 1..m.seq
  <2>1. s \in 1..Len(entries)
    BY <1>1, TypeFacts
  <2> QED  BY <2>1 DEF Grows, MarkIsTrue
<1>4. failures' = MaxFailures => Told(m.at, m.seq)'
  <2> SUFFICES ASSUME failures' = MaxFailures PROVE Told(m.at, m.seq)'
    OBVIOUS
  <2>1. failures = MaxFailures
    BY TypeFacts DEF Grows
  <2>2. Told(m.at, m.seq)
    BY <2>1 DEF MarkIsTrue
  <2>3. m.at <= Pushed
    BY <1>1, TypeFacts
  <2> QED  BY <1>1, <2>2, <2>3, ToldStays
<1> QED  BY <1>2, <1>3, <1>4 DEF MarkIsTrue

(* Marks that stay are still true and in order. *)
LEMMA MarksStay ==
  ASSUME TypeOK, Written, Marked, Grows, marks' = marks
  PROVE  Marked'
<1>1. \A k \in DOMAIN marks : MarkIsTrue(marks[k])'
  <2> TAKE k \in DOMAIN marks
  <2> DEFINE m == marks[k]
  <2>1. m \in [seq : 1..MaxEntries, at : Positions]
    <3> DEFINE M == [seq : 1..MaxEntries, at : Positions]
    <3>1. marks \in Seq(M)
      BY DEF TypeOK
    <3> HIDE DEF M
    <3>2. m \in M
      BY <3>1
    <3> QED  BY <3>2 DEF M
  <2>2. MarkIsTrue(m)
    BY DEF Marked
  <2>3. \A x \in [seq : 1..MaxEntries, at : Positions] : MarkIsTrue(x) => MarkIsTrue(x)'
    BY MarkStaysTrue
  <2>4. m' = m
    OBVIOUS
  <2> QED  BY <2>1, <2>2, <2>3, <2>4 DEF MarkIsTrue, Told
<1>2. \A k, l \in DOMAIN marks : k <= l => marks[k].at <= marks[l].at
  BY DEF Marked
<1> QED  BY <1>1, <1>2 DEF Marked

(* A written entry stays what it is. *)
LEMMA WrittenStays ==
  ASSUME TypeOK, Written, Grows, entries' = entries, covered' <= Pushed',
         failures' = MaxFailures => covered' = covered
  PROVE  Written'
<1>1. \A s \in DOMAIN entries : entries[s] \subseteq 1..covered'
  <2> TAKE s \in DOMAIN entries
  <2>1. entries[s] \subseteq 1..covered /\ covered \in Nat /\ covered' \in Nat
        /\ covered <= covered'
    BY TypeFacts DEF Written, Grows
  <2> QED  BY <2>1
<1>2. failures' = MaxFailures => Told(covered, Len(entries))'
  <2> SUFFICES ASSUME failures' = MaxFailures PROVE Told(covered, Len(entries))'
    OBVIOUS
  <2>1. failures = MaxFailures
    BY TypeFacts DEF Grows
  <2>2. Told(covered, Len(entries)) /\ covered <= Pushed
    BY <2>1 DEF Written
  <2>3. \A n, top \in Nat : n <= Pushed /\ top <= Len(entries) /\ Told(n, top) => Told(n, top)'
    BY ToldStays
  <2>4. covered \in Nat /\ Len(entries) \in Nat /\ covered' = covered
        /\ Len(entries') = Len(entries)
    BY TypeFacts
  <2> QED  BY <2>2, <2>3, <2>4 DEF Told
<1> QED  BY <1>1, <1>2 DEF Written

(* While neither entries nor marks change, no entry loses its mark. *)
LEMMA UnmarkedStays ==
  ASSUME OneUnmarked, marks' = marks, entries' = entries,
         Awaited' \/ (storing' = "no" /\ driver' # "done")
           => Awaited \/ (storing = "no" /\ driver # "done")
  PROVE  OneUnmarked'
BY DEF OneUnmarked, Filled, HasMark

-------------------------------------------------------------------------------
(* Ring, control, entries and marks: every step keeps what a replay relies on. *)

LogOK == TypeOK /\ StoreInv

LEMMA LogFacts ==
  ASSUME LogOK
  PROVE  TypeOK /\ Ring /\ Control /\ Written /\ Marked /\ OneUnmarked /\ covered <= Pushed
         /\ Pushed \in Nat /\ covered \in Nat /\ Len(entries) \in Nat /\ MaxEvents \in Nat
         /\ failures \in 0..MaxFailures /\ failures \in Nat /\ MaxFailures \in Nat
BY TypeFacts DEF LogOK, StoreInv, Written, TypeOK

(* What must be handed to the store next is not handed over yet. *)
LEMMA NextIsNew ==
  ASSUME LogOK
  PROVE  /\ NextEntry \in SUBSET Positions /\ NextEntry \subseteq (covered + 1)..Pushed
BY TypeFacts, LogFacts DEF NextEntry, Positions

(* The steps that push an event: nothing that waits is written yet. *)
LEMMA PushKeepsLog ==
  ASSUME LogOK, Pushed < MaxEvents, NEW kind \in Kinds, Push(kind),
         UNCHANGED <<covered, failures, entries>>,
         driver' \in {"emit", "final", "done"}, storing' \in {"no", "queued"},
         orphan' \in BOOLEAN,
         orphan' => driver' = "done" /\ storing' = "no",
         storing' # "no" => driver' # "done",
         driver' = "emit" => Pushed' < MaxEvents,
         Awaited' => Awaited,
         storing' = "no" /\ driver' # "done" => storing = "no" /\ driver # "done"
  PROVE  StoreInv' /\ covered' <= Pushed' /\ Grows
<1> USE LogFacts
<1>1. /\ Pushed' = Pushed + 1 /\ Ring' /\ marks' = marks
      /\ \A i \in 1..Pushed : stream'[i] = stream[i]
  BY PushFacts
<1>2. Grows
  BY <1>1 DEF Grows
<1>3. Control'
  <2>1. Awaited' => Len(entries') < MaxEntries /\ NextEntry' # {}
    <3> SUFFICES ASSUME Awaited' PROVE Len(entries') < MaxEntries /\ NextEntry' # {}
      OBVIOUS
    <3>1. Len(entries) < MaxEntries /\ NextEntry # {}
      BY DEF Control
    <3>2. PICK i \in (covered + 1)..Pushed : Content(i)
      BY <3>1 DEF NextEntry
    <3>3. i \in 1..Pushed /\ i \in (covered' + 1)..Pushed'
      BY <1>1
    <3>4. Content(i)'
      BY <1>1, <3>2, <3>3 DEF Content
    <3> QED  BY <3>1, <3>3, <3>4 DEF NextEntry
  <2>2. storing' # "stored"
    OBVIOUS
  <2> QED  BY <2>1, <2>2 DEF Control
<1>4. covered' <= Pushed'
  BY <1>1
<1>5. Written'
  BY <1>2, <1>4, WrittenStays
<1>6. Marked'
  BY <1>1, <1>2, MarksStay
<1>7. OneUnmarked'
  BY <1>1, UnmarkedStays
<1> QED  BY <1>1, <1>2, <1>3, <1>4, <1>5, <1>6, <1>7 DEF StoreInv

(* Steps of the driver, or of the actor, that write nothing. *)
LEMMA IdleKeepsLog ==
  ASSUME LogOK, UNCHANGED <<covered, failures, entries, stream, buf, marks>>,
         orphan' => driver' = "done" /\ storing' = "no",
         storing' # "no" => driver' # "done",
         driver' = "emit" => driver = "emit",
         storing' = "stored" => storing = "stored",
         Awaited' => Len(entries) < MaxEntries /\ NextEntry # {},
         Awaited' \/ (storing' = "no" /\ driver' # "done")
           => Awaited \/ (storing = "no" /\ driver # "done")
  PROVE  StoreInv' /\ Grows
<1> USE LogFacts
<1>1. Grows
  BY DEF Grows, Pushed
<1>2. Pushed' = Pushed
  BY DEF Pushed
<1>3. Ring'
  BY <1>2 DEF Ring
<1>4. NextEntry' = NextEntry
  BY <1>2 DEF NextEntry, Content
<1>5. Control'
  BY <1>2, <1>4 DEF Control
<1>6. Written'
  BY <1>1, <1>2, WrittenStays
<1>7. Marked'
  BY <1>1, MarksStay
<1>8. OneUnmarked'
  BY UnmarkedStays
<1> QED  BY <1>1, <1>3, <1>5, <1>6, <1>7, <1>8 DEF StoreInv

(* The ring and the marks when only entries are written. *)
LEMMA StoreKeepsLog ==
  ASSUME LogOK, Store
  PROVE  /\ StoreInv' /\ Grows /\ entries' \in Seq(SUBSET Positions)
         /\ Len(entries') <= MaxEntries
<1> USE LogFacts
<1>1. /\ Awaited /\ entries' = Append(entries, NextEntry)
      /\ storing' = (IF orphan THEN "no" ELSE "stored") /\ orphan' = FALSE
      /\ covered' = Pushed
      /\ UNCHANGED <<driver, failures, stream, buf, marks>>
  BY DEF Store, Awaited, logVars
<1>2. Len(entries) < MaxEntries /\ NextEntry # {} /\ (orphan => driver = "done")
      /\ (storing # "no" => driver # "done") /\ storing # "stored"
  BY <1>1 DEF Control, Awaited
<1>3. Pushed' = Pushed
  BY <1>1 DEF Pushed
<1> DEFINE new == Len(entries) + 1
<1>4. /\ entries' \in Seq(SUBSET Positions) /\ Len(entries') = new
      /\ \A s \in 1..Len(entries) : entries'[s] = entries[s]
      /\ entries'[new] = NextEntry
      /\ DOMAIN entries = 1..Len(entries) /\ DOMAIN entries' = 1..new
  <2>1. entries \in Seq(SUBSET Positions)
    BY DEF TypeOK
  <2> QED  BY <1>1, <2>1, NextIsNew, AppendFacts
<1>5. Len(entries') <= MaxEntries
  BY <1>2, <1>4, TypeFacts
<1>6. Grows
  BY <1>1, <1>3, <1>4 DEF Grows
<1>7. Ring'
  BY <1>1, <1>3 DEF Ring
<1>8. Pushed # 0
  BY <1>2, NextIsNew
<1>9. Control'
  BY <1>1, <1>2, <1>3, <1>8 DEF Control, Awaited
<1>10. Written'
  <2>1. \A s \in 1..new : entries'[s] \subseteq 1..Pushed
    <3> TAKE s \in 1..new
    <3>1. CASE s = new
      <4>1. NextEntry \subseteq 1..Pushed
        BY NextIsNew
      <4> QED  BY <1>4, <3>1, <4>1
    <3>2. CASE s # new
      <4>1. s \in 1..Len(entries)
        BY <3>2
      <4>2. entries[s] \subseteq 1..covered
        BY <1>4, <4>1 DEF Written
      <4> QED  BY <1>4, <4>1, <4>2
    <3> QED  BY <3>1, <3>2
  <2>2. failures' = MaxFailures =>
          \A i \in 1..Pushed : Content(i)' => \E s \in 1..new : i \in entries'[s]
    <3> SUFFICES ASSUME failures' = MaxFailures, NEW i \in 1..Pushed, Content(i)'
                 PROVE  \E s \in 1..new : i \in entries'[s]
      OBVIOUS
    <3>1. Content(i) /\ Told(covered, Len(entries))
      BY <1>1 DEF Content, Written
    <3>2. CASE i <= covered
      <4>1. i \in 1..covered
        BY <3>2
      <4>2. PICK s \in 1..Len(entries) : i \in entries[s]
        BY <3>1, <4>1 DEF Told
      <4>3. s \in 1..new
        OBVIOUS
      <4> QED  BY <1>4, <4>2, <4>3
    <3>3. CASE ~(i <= covered)
      <4>1. i \in NextEntry
        BY <3>1, <3>3 DEF NextEntry
      <4>2. new \in 1..new
        OBVIOUS
      <4> QED  BY <1>4, <4>1, <4>2
    <3> QED  BY <3>2, <3>3
  <2> HIDE DEF new
  <2>3. failures' = MaxFailures => Told(covered, Len(entries))'
    BY <1>1, <1>3, <1>4, <2>2 DEF Told
  <2>4. covered' <= Pushed' /\ Len(entries') > 0
    BY <1>1, <1>3, <1>4 DEF new
  <2> QED  BY <1>1, <1>4, <2>1, <2>3, <2>4 DEF Written
<1>11. Marked'
  BY <1>1, <1>6, MarksStay
<1>12. OneUnmarked'
  <2>1. ASSUME NEW s \in 1..new, NEW r \in 1..new, s < r, entries'[s] # {}, entries'[r] # {}
        PROVE  \E k \in DOMAIN marks : s <= marks[k].seq /\ marks[k].seq < r
    <3>1. s \in 1..Len(entries)
      BY <2>1
    <3>2. Filled(s)
      BY <1>4, <2>1, <3>1 DEF Filled
    <3>3. CASE r = new
      <4>1. PICK k \in DOMAIN marks : s <= marks[k].seq
        BY <1>1, <1>4, <3>1, <3>2 DEF OneUnmarked, HasMark
      <4>2. marks[k].seq <= Len(entries) /\ marks[k].seq \in Nat
        BY TypeFacts DEF Marked, MarkIsTrue
      <4> QED  BY <3>3, <4>1, <4>2
    <3>4. CASE r # new
      <4>1. r \in 1..Len(entries)
        BY <3>4
      <4>2. Filled(r)
        BY <1>4, <2>1, <4>1 DEF Filled
      <4> QED  BY <1>4, <2>1, <3>1, <3>2, <4>1, <4>2 DEF OneUnmarked
    <3> QED  BY <3>3, <3>4
  <2>2. ~(Awaited' \/ (storing' = "no" /\ driver' # "done"))
    BY <1>1, <1>2 DEF Awaited
  <2> HIDE DEF new
  <2> QED  BY <1>1, <1>4, <2>1, <2>2 DEF OneUnmarked, Filled
<1> QED  BY <1>4, <1>5, <1>6, <1>7, <1>9, <1>10, <1>11, <1>12 DEF StoreInv

(* A failed write leaves a gap that the next mark covers; the invariant says
   so: it promises entries only while no write has failed. *)
LEMMA StoreFailsKeepsLog ==
  ASSUME LogOK, StoreFails
  PROVE  StoreInv' /\ Grows
<1> USE LogFacts
<1>1. /\ Awaited /\ failures > 0 /\ failures' = failures - 1
      /\ storing' = "no" /\ orphan' = FALSE /\ covered' = Pushed
      /\ driver' = (IF driver = "final" THEN "done" ELSE driver)
      /\ UNCHANGED <<stream, buf, marks, entries>>
  BY DEF StoreFails, Awaited, AfterPersist, logVars
<1>2. Pushed' = Pushed
  BY <1>1 DEF Pushed
<1>3. Grows
  BY <1>1, <1>2 DEF Grows
<1>4. Ring'
  BY <1>1, <1>2 DEF Ring
<1>5. Control'
  BY <1>1, <1>2 DEF Control, Awaited
<1>6. failures' # MaxFailures
  BY <1>1
<1>7. Written'
  <2>1. covered' <= Pushed'
    BY <1>1, <1>2
  <2> QED  BY <1>1, <1>3, <1>6, <2>1, WrittenStays
<1>8. Marked'
  BY <1>1, <1>3, MarksStay
<1>9. OneUnmarked'
  BY <1>1, UnmarkedStays
<1> QED  BY <1>3, <1>4, <1>5, <1>7, <1>8, <1>9 DEF StoreInv

(* A mark is set for the newest entry with content: none after it has any. *)
LEMMA LastStoredIsLast ==
  ASSUME LogOK
  PROVE  /\ LastStored \in 1..Len(entries)
         /\ \A s \in DOMAIN entries : Filled(s) => s <= LastStored
<1> USE LogFacts
<1> DEFINE S == {s \in DOMAIN entries : s = 1 \/ entries[s] # {}}
<1>1. DOMAIN entries = 1..Len(entries) /\ Len(entries) > 0
  BY TypeFacts DEF Written
<1>2. S \subseteq 1..Len(entries) /\ 1 \in S
  BY <1>1
<1>3. S \in SUBSET (0..Len(entries)) /\ S # {}
  BY <1>2
<1>4. LastStored = Max(S)
  BY DEF LastStored
<1>5. \A s \in DOMAIN entries : Filled(s) => s \in S
  BY DEF Filled
<1> HIDE DEF S
<1>6. Max(S) \in S /\ \A x \in S : x <= Max(S)
  BY <1>3, MaxIsLargest
<1> QED  BY <1>2, <1>4, <1>5, <1>6

LEMMA MarkKeepsLog ==
  ASSUME LogOK, Mark
  PROVE  /\ StoreInv' /\ Grows
         /\ marks' \in Seq([seq : 1..MaxEntries, at : Positions])
<1> USE LogFacts
<1> DEFINE m == [seq |-> LastStored, at |-> Pushed]
           new == Len(marks) + 1
           M == [seq : 1..MaxEntries, at : Positions]
<1>1. /\ storing = "stored" /\ marks' = Append(marks, m) /\ storing' = "no"
      /\ driver' = (IF driver = "final" THEN "done" ELSE driver)
      /\ UNCHANGED <<orphan, covered, failures, stream, buf, entries>>
  BY DEF Mark, AfterPersist
<1>2. covered = Pushed /\ covered # 0 /\ driver # "done" /\ ~orphan
  BY <1>1 DEF Control
<1>3. Pushed' = Pushed
  BY <1>1 DEF Pushed
<1>4. LastStored \in 1..MaxEntries /\ Pushed \in Positions /\ LastStored \in Nat
      /\ LastStored <= Len(entries)
  <2>1. Len(entries) <= MaxEntries
    BY DEF TypeOK
  <2>2. MaxEntries \in Nat
    BY TypeFacts
  <2> QED  BY <1>2, <2>1, <2>2, LastStoredIsLast, TypeFacts DEF Positions
<1>5. m \in M
  BY <1>4
<1>6. marks \in Seq(M) /\ \A k \in DOMAIN marks : marks[k] \in M
  <2>1. marks \in Seq(M)
    BY DEF TypeOK
  <2> HIDE DEF M
  <2> QED  BY <2>1
<1>7. /\ marks' \in Seq(M) /\ Len(marks') = new /\ Len(marks) \in Nat
      /\ \A k \in 1..Len(marks) : marks'[k] = marks[k]
      /\ marks'[new] = m
      /\ DOMAIN marks = 1..Len(marks) /\ DOMAIN marks' = 1..new
  <2> HIDE DEF M, m
  <2> QED  BY <1>1, <1>5, <1>6, AppendFacts
<1>8. Grows
  BY <1>1, <1>3 DEF Grows
<1>9. Ring'
  BY <1>1, <1>3 DEF Ring
<1>10. Control'
  BY <1>1, <1>2, <1>3 DEF Control, Awaited
<1>11. Written'
  BY <1>1, <1>3, <1>8, WrittenStays
<1>12. MarkIsTrue(m)
  <2>1. m.seq <= Len(entries) /\ m.at <= covered
    BY <1>2, <1>4
  <2>2. \A s \in 1..m.seq : entries[s] \subseteq 1..m.at
    <3> TAKE s \in 1..m.seq
    <3>1. s \in DOMAIN entries
      BY <1>4, TypeFacts
    <3> QED  BY <1>2, <3>1 DEF Written
  <2>3. failures = MaxFailures => Told(m.at, m.seq)
    <3> SUFFICES ASSUME failures = MaxFailures, NEW i \in 1..Pushed, Content(i)
                 PROVE  \E s \in 1..LastStored : i \in entries[s]
      BY DEF Told
    <3>1. PICK s \in 1..Len(entries) : i \in entries[s]
      BY <1>2 DEF Written, Told
    <3>2. s \in DOMAIN entries /\ Filled(s)
      BY <3>1, TypeFacts DEF Filled
    <3>3. s <= LastStored
      BY <3>2, LastStoredIsLast
    <3> QED  BY <1>4, <3>1, <3>3
  <2> QED  BY <2>1, <2>2, <2>3 DEF MarkIsTrue
<1>13. \A x \in M : MarkIsTrue(x) => MarkIsTrue(x)'
  BY <1>8, MarkStaysTrue
<1>14. \A k \in 1..new : marks'[k] \in M /\ \A x \in M : x = marks'[k] => MarkIsTrue(x)'
  <2> TAKE k \in 1..new
  <2>1. CASE k = new
    BY <1>5, <1>7, <1>12, <1>13, <2>1
  <2>2. CASE k # new
    <3>1. k \in 1..Len(marks)
      BY <1>7, <2>2
    <3>2. MarkIsTrue(marks[k]) /\ marks[k] \in M /\ marks'[k] = marks[k]
      BY <1>6, <1>7, <3>1 DEF Marked
    <3>3. ASSUME NEW x \in M, x = marks[k] PROVE MarkIsTrue(x)'
      <4>1. MarkIsTrue(x)
        BY <3>2, <3>3
      <4> QED  BY <1>13, <4>1
    <3> QED  BY <3>2, <3>3
  <2> QED  BY <2>1, <2>2
<1>15. \A k, l \in 1..new : k <= l => marks'[k].at <= marks'[l].at
  <2> SUFFICES ASSUME NEW k \in 1..new, NEW l \in 1..new, k <= l
               PROVE  marks'[k].at <= marks'[l].at
    OBVIOUS
  <2>1. CASE l # new
    <3>1. k \in 1..Len(marks) /\ l \in 1..Len(marks)
      BY <1>7, <2>1
    <3> QED  BY <1>7, <3>1 DEF Marked
  <2>2. CASE l = new /\ k = new
    BY <1>7, <2>2
  <2>3. CASE l = new /\ k # new
    <3>1. k \in 1..Len(marks)
      BY <1>7, <2>3
    <3>2. marks[k].at <= covered
      BY <1>7, <3>1 DEF Marked, MarkIsTrue
    <3> QED  BY <1>2, <1>7, <2>3, <3>1, <3>2
  <2> QED  BY <2>1, <2>2, <2>3
<1>16. Marked'
  <2>1. \A k \in 1..new : MarkIsTrue(marks[k])'
    <3> TAKE k \in 1..new
    <3>1. PICK x \in M : x = marks'[k] /\ MarkIsTrue(x)'
      BY <1>14
    <3> QED  BY <3>1 DEF MarkIsTrue, Told
  <2> HIDE DEF new
  <2> QED  BY <1>7, <1>15, <2>1 DEF Marked
<1>17. OneUnmarked'
  <2>1. ASSUME NEW s \in DOMAIN entries, NEW r \in DOMAIN entries, s < r,
               Filled(s), Filled(r)
        PROVE  \E k \in 1..new : s <= marks'[k].seq /\ marks'[k].seq < r
    <3>1. PICK k \in DOMAIN marks : s <= marks[k].seq /\ marks[k].seq < r
      BY <2>1 DEF OneUnmarked
    <3>2. k \in 1..new /\ marks'[k] = marks[k]
      BY <1>7
    <3> QED  BY <3>1, <3>2
  <2>2. ASSUME NEW s \in DOMAIN entries, Filled(s)
        PROVE  \E k \in 1..new : s <= marks'[k].seq
    <3>1. s <= m.seq
      BY <2>2, LastStoredIsLast
    <3>2. new \in 1..new
      BY <1>7
    <3> QED  BY <1>7, <3>1, <3>2
  <2> HIDE DEF new, m
  <2> QED  BY <1>1, <1>7, <2>1, <2>2 DEF OneUnmarked, Filled, HasMark
<1> QED  BY <1>7, <1>8, <1>9, <1>10, <1>11, <1>16, <1>17 DEF StoreInv

(* A summary takes a place in the session and holds no event. *)
LEMMA SummaryKeepsLog ==
  ASSUME LogOK, StoreSummary
  PROVE  /\ StoreInv' /\ Grows /\ entries' \in Seq(SUBSET Positions)
         /\ Len(entries') <= MaxEntries
<1> USE LogFacts
<1> DEFINE new == Len(entries) + 1
<1>1. /\ entries' = Append(entries, {})
      /\ Len(entries) + (IF Awaited THEN 1 ELSE 0) < MaxEntries
      /\ UNCHANGED <<driver, storing, orphan, covered, failures, stream, buf, marks>>
  BY DEF StoreSummary, Awaited, driverVars, logVars
<1>2. /\ entries' \in Seq(SUBSET Positions) /\ Len(entries') = new
      /\ \A s \in 1..Len(entries) : entries'[s] = entries[s]
      /\ entries'[new] = {}
      /\ DOMAIN entries = 1..Len(entries) /\ DOMAIN entries' = 1..new
  <2>1. entries \in Seq(SUBSET Positions) /\ {} \in SUBSET Positions
    BY DEF TypeOK
  <2> QED  BY <1>1, <2>1, AppendFacts
<1>3. Pushed' = Pushed /\ NextEntry' = NextEntry
  BY <1>1 DEF Pushed, NextEntry, Content
<1>4. Len(entries') <= MaxEntries /\ (Awaited => Len(entries') < MaxEntries)
  BY <1>1, <1>2, TypeFacts
<1>5. Grows
  BY <1>1, <1>2, <1>3 DEF Grows
<1>6. Ring'
  BY <1>1, <1>3 DEF Ring
<1>7. Control'
  BY <1>1, <1>3, <1>4 DEF Control, Awaited
<1>8. Written'
  <2>1. \A s \in 1..new : entries'[s] \subseteq 1..covered
    <3> TAKE s \in 1..new
    <3>1. CASE s = new
      BY <1>2, <3>1
    <3>2. CASE s # new
      <4>1. s \in 1..Len(entries)
        BY <3>2
      <4> QED  BY <1>2, <4>1 DEF Written
    <3> QED  BY <3>1, <3>2
  <2>2. failures' = MaxFailures =>
          \A i \in 1..covered : Content(i)' => \E s \in 1..new : i \in entries'[s]
    <3> SUFFICES ASSUME failures' = MaxFailures, NEW i \in 1..covered, Content(i)'
                 PROVE  \E s \in 1..new : i \in entries'[s]
      OBVIOUS
    <3>1. Content(i) /\ Told(covered, Len(entries))
      BY <1>1 DEF Content, Written
    <3>2. PICK s \in 1..Len(entries) : i \in entries[s]
      BY <3>1 DEF Told
    <3>3. s \in 1..new
      OBVIOUS
    <3> QED  BY <1>2, <3>2, <3>3
  <2>3. covered' <= Pushed' /\ Len(entries') > 0
    BY <1>1, <1>2, <1>3
  <2> HIDE DEF new
  <2> QED  BY <1>1, <1>2, <2>1, <2>2, <2>3 DEF Written, Told
<1>9. Marked'
  BY <1>1, <1>5, MarksStay
<1>10. OneUnmarked'
  <2>1. \A s \in 1..new : entries'[s] # {} => s \in 1..Len(entries) /\ Filled(s)
    <3> SUFFICES ASSUME NEW s \in 1..new, entries'[s] # {}
                 PROVE  s \in 1..Len(entries) /\ Filled(s)
      OBVIOUS
    <3>1. s \in 1..Len(entries)
      BY <1>2
    <3> QED  BY <1>2, <3>1 DEF Filled
  <2>2. Awaited' = Awaited
    BY <1>1 DEF Awaited
  <2> HIDE DEF new
  <2> QED  BY <1>1, <1>2, <2>1, <2>2 DEF OneUnmarked, Filled, HasMark
<1> QED  BY <1>2, <1>4, <1>5, <1>6, <1>7, <1>8, <1>9, <1>10 DEF StoreInv

-------------------------------------------------------------------------------
(* What a page is replayed.                                                *)

(* ReplayFrom is the furthest of the marks that the history has reached. *)
LEMMA ReplayFromFacts ==
  ASSUME LogOK, NEW n \in Nat
  PROVE  /\ ReplayFrom(n) \in Nat
         /\ \A k \in DOMAIN marks : marks[k].seq <= n => marks[k].at <= ReplayFrom(n)
         /\ \/ ReplayFrom(n) = 0
            \/ \E k \in DOMAIN marks : marks[k].seq <= n /\ marks[k].at = ReplayFrom(n)
<1> USE LogFacts
<1> DEFINE fit == {k \in DOMAIN marks : marks[k].seq <= n}
<1>1. ReplayFrom(n) = IF fit = {} THEN 0 ELSE marks[Max(fit)].at
  BY DEF ReplayFrom
<1>2. \A k \in DOMAIN marks : marks[k].at \in Nat
  BY TypeFacts DEF Positions
<1>3. CASE fit = {}
  BY <1>1, <1>3
<1>4. CASE fit # {}
  <2>1. fit \in SUBSET (0..Len(marks)) /\ Len(marks) \in Nat
    BY TypeFacts
  <2>2. Max(fit) \in fit /\ \A x \in fit : x <= Max(fit)
    <3> HIDE DEF fit
    <3> QED  BY <1>4, <2>1, MaxIsLargest
  <2>3. ReplayFrom(n) = marks[Max(fit)].at /\ Max(fit) \in DOMAIN marks
    BY <1>1, <1>4, <2>2
  <2>4. \A k \in DOMAIN marks : marks[k].seq <= n => marks[k].at <= marks[Max(fit)].at
    BY <2>2, <2>3 DEF Marked
  <2> QED  BY <1>2, <2>2, <2>3, <2>4
<1> QED  BY <1>3, <1>4

(* The replay is every event past the mark that the ring still holds, but for
   reasoning. *)
LEMMA ReplayFacts ==
  ASSUME LogOK, NEW n \in Nat
  PROVE  /\ Replay(n) \in Seq(Positions)
         /\ Elements(Replay(n)) = {i \in 1..Pushed : /\ i > ReplayFrom(n)
                                                     /\ i > Pushed - Len(buf)
                                                     /\ stream[i] # "reasoning"}
<1> USE LogFacts
<1> DEFINE R == ReplayFrom(n)
           start == Pushed - Len(buf)
           D == {k \in DOMAIN buf : k > Skip(R) /\ stream[buf[k]] # "reasoning"}
           E == {i \in 1..Pushed : i > R /\ i > start /\ stream[i] # "reasoning"}
<1>1. R \in Nat
  BY ReplayFromFacts
<1>2. /\ Len(buf) \in Nat /\ Len(buf) <= Pushed /\ DOMAIN buf = 1..Len(buf)
      /\ start \in Nat /\ start + Len(buf) = Pushed
      /\ buf \in Seq(Positions)
      /\ \A k \in DOMAIN buf : buf[k] = start + k
  BY TypeFacts DEF Ring, TypeOK
<1>3. Replay(n) = Picked(buf, D)
  BY DEF Replay
<1>4. /\ Replay(n) \in Seq(Positions)
      /\ Elements(Replay(n)) = {buf[k] : k \in D}
  <2>1. D \in SUBSET DOMAIN buf
    OBVIOUS
  <2> HIDE DEF D
  <2> QED  BY <1>2, <1>3, <2>1, PickedFacts
<1>5. Skip(R) = IF R > start THEN R - start ELSE 0
  BY DEF Skip
<1> HIDE DEF R, start
<1>6. \A k \in 1..Len(buf) : k > Skip(R) <=> start + k > R
  BY <1>1, <1>2, <1>5
<1>7. {buf[k] : k \in D} \subseteq E
  <2> SUFFICES ASSUME NEW k \in D PROVE buf[k] \in E
    OBVIOUS
  <2>1. k \in 1..Len(buf) /\ buf[k] = start + k /\ start + k > R
    BY <1>2, <1>6
  <2>2. start + k \in 1..Pushed /\ start + k > start
    BY <1>2, <2>1
  <2> QED  BY <2>1, <2>2
<1>8. E \subseteq {buf[k] : k \in D}
  <2> SUFFICES ASSUME NEW i \in E PROVE \E k \in D : buf[k] = i
    OBVIOUS
  <2> DEFINE k == i - start
  <2>1. k \in 1..Len(buf) /\ start + k = i
    BY <1>2
  <2>2. buf[k] = i
    BY <1>2, <2>1
  <2>3. k > Skip(R)
    BY <1>6, <2>1
  <2>4. k \in D
    BY <1>2, <2>1, <2>2, <2>3
  <2> QED  BY <2>2, <2>4
<1> QED  BY <1>4, <1>7, <1>8 DEF R, start

(* What the two halves of the property say of one page. *)
HoleFree(p) == \A i \in 1..Pushed :
  Content(i) /\ i \notin InHistory(p) \cup Sent(p) => i + Cap <= Pushed
OneRepeat(p) == \A s, r \in 1..since[p] :
  entries[s] \cap Sent(p) # {} /\ entries[r] \cap Sent(p) # {} => s = r

(* A page that resumes gets what its history lacks, and repeats one entry. *)
LEMMA ReplayIsRight ==
  ASSUME LogOK, NEW n \in Nat, n <= Len(entries), NEW s \in 1..n, NEW r \in 1..n, s < r,
         entries[s] \cap Elements(Replay(n)) # {}, entries[r] \cap Elements(Replay(n)) # {}
  PROVE  FALSE
<1> USE LogFacts
<1>1. s \in DOMAIN entries /\ r \in DOMAIN entries /\ Filled(s) /\ Filled(r)
  BY TypeFacts DEF Filled
<1>2. PICK k \in DOMAIN marks : s <= marks[k].seq /\ marks[k].seq < r
  BY <1>1 DEF OneUnmarked
<1>3. marks[k].seq \in Nat /\ marks[k].at \in Nat
  <2>1. marks[k].seq \in 1..MaxEntries /\ marks[k].at \in Positions
    BY TypeFacts
  <2> QED  BY <2>1 DEF Positions
<1>4. marks[k].seq <= n
  BY <1>2, <1>3
<1>5. marks[k].at <= ReplayFrom(n) /\ ReplayFrom(n) \in Nat
  BY <1>4, ReplayFromFacts
<1>6. s \in 1..marks[k].seq
  BY <1>2, <1>3
<1>7. entries[s] \subseteq 1..marks[k].at
  BY <1>6 DEF Marked, MarkIsTrue
<1>8. PICK i \in entries[s] : i \in Elements(Replay(n))
  OBVIOUS
<1>9. i > ReplayFrom(n) /\ i \in 1..marks[k].at
  BY <1>7, <1>8, ReplayFacts
<1> QED  BY <1>3, <1>5, <1>9

LEMMA ReplayLeavesNoHole ==
  ASSUME LogOK, NEW n \in Nat, n <= Len(entries), failures = MaxFailures,
         NEW i \in 1..Pushed, Content(i), i \notin Elements(Replay(n)),
         i \notin UNION {entries[s] : s \in 1..n}
  PROVE  i + Cap <= Pushed
<1> USE LogFacts
<1>1. stream[i] # "reasoning"
  BY DEF Content
<1>2. ~(i > ReplayFrom(n)) \/ ~(i > Pushed - Len(buf))
  BY <1>1, ReplayFacts
<1>3. CASE ~(i > ReplayFrom(n))
  <2>1. ReplayFrom(n) # 0 /\ ReplayFrom(n) \in Nat
    BY <1>3, ReplayFromFacts
  <2>2. PICK k \in DOMAIN marks : marks[k].seq <= n /\ marks[k].at = ReplayFrom(n)
    BY <2>1, ReplayFromFacts
  <2>3. marks[k].seq \in Nat /\ i \in 1..marks[k].at
    BY <1>3, <2>1, <2>2, TypeFacts
  <2>4. Told(marks[k].at, marks[k].seq)
    BY DEF Marked, MarkIsTrue
  <2>5. PICK s \in 1..marks[k].seq : i \in entries[s]
    BY <2>3, <2>4 DEF Told
  <2>6. s \in 1..n
    BY <2>2, <2>3
  <2> QED  BY <2>5, <2>6
<1>4. CASE ~(i > Pushed - Len(buf))
  <2>1. Len(buf) \in Nat /\ Len(buf) <= Pushed /\ Len(buf) <= Cap /\ Cap \in Nat
    BY TypeFacts DEF Ring
  <2>2. Len(buf) # Pushed
    BY <1>4
  <2>3. Len(buf) = Cap
    BY <2>1, <2>2 DEF Ring
  <2> QED  BY <1>4, <2>1, <2>3
<1> QED  BY <1>2, <1>3, <1>4

-------------------------------------------------------------------------------
(* Pages.                                                                  *)

LEMMA SafeFacts ==
  ASSUME IInv
  PROVE  /\ LogOK /\ TypeOK /\ PageInv /\ NoHole /\ RepeatsOneEntry
         /\ \A p \in Pages : /\ PageOf(p) /\ Sent(p) \subseteq 1..Pushed
                             /\ since[p] \in Nat /\ since[p] <= Len(entries)
                             /\ queue[p] \in Seq(Positions) /\ received[p] \in Seq(Positions)
         /\ \A p \in Following : /\ failures = MaxFailures => HoleFree(p)
                                 /\ OneRepeat(p)
BY TypeFacts DEF IInv, LogOK, PageInv, PageOf, OnlyPushed, NoHole, RepeatsOneEntry, HoleFree,
   OneRepeat, TypeOK

(* What the pages' part of the invariant comes to. *)
LEMMA PagesTogether ==
  ASSUME \A p \in Pages : PageOf(p)' /\ Sent(p)' \subseteq 1..Pushed',
         driver' = "emit" => \A i \in 1..Pushed' : stream'[i] # "terminal",
         \A p \in Pages : page'[p] \in {"following", "told"} =>
           (failures' = MaxFailures => HoleFree(p)') /\ OneRepeat(p)'
  PROVE  PageInv' /\ NoHole' /\ RepeatsOneEntry'
<1>1. PageInv'
  BY DEF PageInv, OnlyPushed
<1>2. NoHole'
  BY DEF NoHole, HoleFree, Following
<1>3. RepeatsOneEntry'
  BY DEF RepeatsOneEntry, OneRepeat, Following
<1> QED  BY <1>1, <1>2, <1>3

(* Steps of the driver and the writer that push nothing. *)
LEMMA WriteKeepsPages ==
  ASSUME IInv, Grows, UNCHANGED <<stream, subs, page, since, queue, received>>,
         driver' = "emit" => driver = "emit"
  PROVE  PageInv' /\ NoHole' /\ RepeatsOneEntry'
<1> USE SafeFacts, LogFacts
<1>1. Pushed' = Pushed
  BY DEF Pushed
<1>2. ASSUME NEW p \in Pages
      PROVE  /\ PageOf(p)' /\ Sent(p)' = Sent(p) /\ Sent(p)' \subseteq 1..Pushed'
             /\ InHistory(p)' = InHistory(p)
             /\ \A s \in 1..since[p] : entries'[s] = entries[s]
  <2>1. Sent(p)' = Sent(p)
    BY DEF Sent, Elements
  <2>2. \A s \in 1..since[p] : entries'[s] = entries[s]
    BY DEF Grows
  <2>3. InHistory(p)' = InHistory(p)
    BY <2>2 DEF InHistory
  <2>4. PageOf(p)'
    <3>1. since[p] <= Len(entries')
      BY DEF Grows
    <3> QED  BY <3>1 DEF PageOf
  <2> QED  BY <1>1, <2>1, <2>2, <2>3, <2>4
<1>3. driver' = "emit" => \A i \in 1..Pushed' : stream'[i] # "terminal"
  BY <1>1 DEF PageInv, OnlyPushed
<1>4. failures' = MaxFailures => failures = MaxFailures
  BY DEF Grows
<1>5. ASSUME NEW p \in Pages, page'[p] \in {"following", "told"}
      PROVE  (failures' = MaxFailures => HoleFree(p)') /\ OneRepeat(p)'
  <2>1. p \in Following
    BY <1>5 DEF Following
  <2>2. (failures = MaxFailures => HoleFree(p)) /\ OneRepeat(p)
    BY <2>1
  <2>3. failures' = MaxFailures => HoleFree(p)'
    BY <1>1, <1>2, <1>4, <2>2 DEF HoleFree, Content
  <2>4. OneRepeat(p)'
    BY <1>2, <2>2 DEF OneRepeat
  <2> QED  BY <2>3, <2>4
<1> QED  BY <1>2, <1>3, <1>5, PagesTogether

(* A push reaches every page that listens, and nothing with content is pushed
   once a page has been told that the run is over. *)
LEMMA PushKeepsPages ==
  ASSUME IInv, Pushed < MaxEvents, NEW kind \in Kinds, Push(kind),
         UNCHANGED <<entries, failures, page, since, received>>,
         kind = "terminal" \/ driver = "emit",
         driver' = "emit" => driver = "emit" /\ kind # "terminal"
  PROVE  PageInv' /\ NoHole' /\ RepeatsOneEntry'
<1> USE SafeFacts, LogFacts
<1> DEFINE n == Pushed + 1
<1>1. /\ Pushed' = n /\ stream'[n] = kind
      /\ \A i \in 1..Pushed : stream'[i] = stream[i]
      /\ subs' = {p \in subs : page[p] = "following"}
      /\ \A p \in Pages : IF p \in subs' THEN Elements(queue'[p]) = Elements(queue[p]) \cup {n}
                          ELSE queue'[p] = queue[p]
  BY PushFacts
<1>2. ASSUME NEW p \in Pages
      PROVE  Sent(p)' = IF p \in subs' THEN Sent(p) \cup {n} ELSE Sent(p)
  <2>1. Sent(p)' = Elements(received[p]) \cup Elements(queue'[p])
    BY DEF Sent, Elements
  <2>2. p \notin subs' => Elements(queue'[p]) = Elements(queue[p])
    BY <1>1
  <2>3. p \in subs' => Elements(queue'[p]) = Elements(queue[p]) \cup {n}
    BY <1>1
  <2> HIDE DEF n
  <2> QED  BY <2>1, <2>2, <2>3 DEF Sent
<1>3. ASSUME NEW p \in Pages
      PROVE  PageOf(p)' /\ Sent(p)' \subseteq 1..Pushed'
  <2>1. Sent(p)' \subseteq 1..n
    <3>1. 1..Pushed \subseteq 1..n /\ n \in 1..n
      OBVIOUS
    <3> QED  BY <1>2, <3>1
  <2>2. PageOf(p)'
    BY <1>1 DEF PageOf
  <2> QED  BY <1>1, <2>1, <2>2
<1>4. driver' = "emit" => \A i \in 1..Pushed' : stream'[i] # "terminal"
  <2> SUFFICES ASSUME driver' = "emit", NEW i \in 1..n PROVE stream'[i] # "terminal"
    BY <1>1
  <2>1. CASE i = n
    BY <1>1, <2>1
  <2>2. CASE i # n
    <3>1. i \in 1..Pushed
      BY <2>2
    <3> QED  BY <1>1, <3>1 DEF PageInv, OnlyPushed
  <2> QED  BY <2>1, <2>2
<1>5. ASSUME NEW p \in Pages, page'[p] \in {"following", "told"}
      PROVE  (failures' = MaxFailures => HoleFree(p)') /\ OneRepeat(p)'
  <2>1. p \in Following
    BY <1>5 DEF Following
  <2>2. (failures = MaxFailures => HoleFree(p)) /\ OneRepeat(p)
    BY <2>1
  <2>3. ASSUME failures = MaxFailures, NEW i \in 1..n, stream'[i] = "text",
               i \notin InHistory(p) \cup Sent(p)'
        PROVE  i + Cap <= n
    <3>1. CASE i = n
      <4>1. kind # "terminal"
        BY <1>1, <2>3, <3>1
      <4>2. page[p] = "following"
        BY <1>5, <4>1 DEF PageOf
      <4>3. p \in subs'
        BY <1>1, <4>2 DEF PageOf
      <4>4. n \in Sent(p)'
        BY <1>2, <4>3
      <4> QED  BY <2>3, <3>1, <4>4
    <3>2. CASE i # n
      <4>1. i \in 1..Pushed /\ Content(i)
        BY <1>1, <2>3, <3>2 DEF Content
      <4>2. i \notin InHistory(p) \cup Sent(p)
        BY <1>2, <2>3
      <4>3. i + Cap <= Pushed
        BY <2>2, <2>3, <4>1, <4>2 DEF HoleFree
      <4> QED  BY <4>1, <4>3, TypeFacts
    <3> QED  BY <3>1, <3>2
  <2>4. InHistory(p)' = InHistory(p)
    BY DEF InHistory
  <2>5. failures' = MaxFailures => HoleFree(p)'
    <3> HIDE DEF n
    <3> QED  BY <1>1, <2>3, <2>4 DEF HoleFree, Content
  <2>6. \A s \in 1..since[p] : entries[s] \cap Sent(p)' # {} => entries[s] \cap Sent(p) # {}
    <3> SUFFICES ASSUME NEW s \in 1..since[p], NEW i \in entries[s], i \in Sent(p)'
                 PROVE  i \in Sent(p)
      OBVIOUS
    <3>1. s \in DOMAIN entries
      BY TypeFacts
    <3>2. i \in 1..covered
      BY <3>1 DEF Written
    <3>3. i # n
      BY <3>2
    <3> QED  BY <1>2, <3>3
  <2>7. OneRepeat(p)'
    BY <2>2, <2>6 DEF OneRepeat
  <2> QED  BY <2>5, <2>7
<1> QED  BY <1>3, <1>4, <1>5, PagesTogether

(* A step of one page leaves the log and the other pages alone. *)
LEMMA PageKeepsOthers ==
  ASSUME IInv, NEW p \in Pages, UNCHANGED <<driver, failures, stream, entries>>,
         subs \subseteq subs',
         \A q \in Pages \ {p} : /\ page'[q] = page[q] /\ since'[q] = since[q]
                                /\ queue'[q] = queue[q] /\ received'[q] = received[q],
         PageOf(p)', Sent(p)' \subseteq 1..Pushed,
         page'[p] \in {"following", "told"} =>
           (failures = MaxFailures => HoleFree(p)') /\ OneRepeat(p)'
  PROVE  PageInv' /\ NoHole' /\ RepeatsOneEntry'
<1> USE SafeFacts, LogFacts
<1>1. Pushed' = Pushed
  BY DEF Pushed
<1>2. ASSUME NEW q \in Pages
      PROVE  PageOf(q)' /\ Sent(q)' \subseteq 1..Pushed'
  <2>1. CASE q = p
    BY <1>1, <2>1
  <2>2. CASE q # p
    <3>1. Sent(q)' = Sent(q)
      BY <2>2 DEF Sent, Elements
    <3>2. PageOf(q)'
      BY <2>2 DEF PageOf
    <3> QED  BY <1>1, <3>1, <3>2
  <2> QED  BY <2>1, <2>2
<1>3. driver' = "emit" => \A i \in 1..Pushed' : stream'[i] # "terminal"
  BY <1>1 DEF PageInv, OnlyPushed
<1>4. ASSUME NEW q \in Pages, page'[q] \in {"following", "told"}
      PROVE  (failures' = MaxFailures => HoleFree(q)') /\ OneRepeat(q)'
  <2>1. CASE q = p
    BY <1>4, <2>1
  <2>2. CASE q # p
    <3>1. q \in Following
      BY <1>4, <2>2 DEF Following
    <3>2. (failures = MaxFailures => HoleFree(q)) /\ OneRepeat(q)
      BY <3>1
    <3>3. Sent(q)' = Sent(q) /\ since'[q] = since[q]
      BY <2>2 DEF Sent, Elements
    <3>4. InHistory(q)' = InHistory(q)
      BY <3>3 DEF InHistory
    <3>5. failures' = MaxFailures => HoleFree(q)'
      BY <1>1, <3>2, <3>3, <3>4 DEF HoleFree, Content
    <3>6. OneRepeat(q)'
      BY <3>2, <3>3 DEF OneRepeat
    <3> QED  BY <3>5, <3>6
  <2> QED  BY <2>1, <2>2
<1> QED  BY <1>2, <1>3, <1>4, PagesTogether

-------------------------------------------------------------------------------
(* Every step keeps the invariant.                                         *)

(* From the parts the lemmas above give. *)
LEMMA Together ==
  ASSUME TypeOK', StoreInv', PageInv' /\ NoHole' /\ RepeatsOneEntry'
  PROVE  IInv'
BY DEF IInv

(* The types of what a push changes. *)
LEMMA PushKeepsTypes ==
  ASSUME TypeOK, Ring, Pushed < MaxEvents, NEW kind \in Kinds, Push(kind),
         UNCHANGED <<covered, failures, entries, open, page, since, received>>,
         driver' \in {"emit", "final", "done"}, storing' \in {"no", "queued"},
         orphan' \in BOOLEAN
  PROVE  TypeOK'
<1>1. /\ stream' \in Seq(Kinds) /\ Pushed' <= MaxEvents
      /\ buf' \in Seq(Positions) /\ Len(buf') <= Cap
      /\ marks' = marks /\ subs' \subseteq subs /\ queue' \in [Pages -> Seq(Positions)]
  BY PushFacts
<1>2. subs' \subseteq Pages
  BY <1>1 DEF TypeOK
<1> QED  BY <1>1, <1>2 DEF TypeOK, Kinds

LEMMA EmitIsSafe == ASSUME IInv, Emit PROVE IInv'
<1> USE SafeFacts, LogFacts
<1>1. /\ driver = "emit" /\ storing = "no" /\ Pushed < MaxEvents - 1
      /\ UNCHANGED <<driver, storing, orphan, covered, failures, entries, open, page, since,
                     received>>
  BY DEF Emit, driverVars
<1>2. PICK kind \in {"text", "reasoning"} : Push(kind)
  BY DEF Emit
<1>3. kind \in Kinds /\ kind # "terminal" /\ Pushed < MaxEvents
  BY <1>1 DEF Kinds
<1>4. driver' \in {"emit", "final", "done"} /\ storing' \in {"no", "queued"}
      /\ orphan' \in BOOLEAN
  BY <1>1 DEF TypeOK
<1>5. TypeOK'
  BY <1>1, <1>2, <1>3, <1>4, PushKeepsTypes
<1>6. StoreInv'
  <2>1. Pushed' = Pushed + 1
    BY <1>2, <1>3, PushFacts
  <2>2. orphan' => driver' = "done" /\ storing' = "no"
    BY <1>1 DEF Control
  <2>3. Awaited' = Awaited
    BY <1>1 DEF Awaited
  <2> QED  BY <1>1, <1>2, <1>3, <1>4, <2>1, <2>2, <2>3, PushKeepsLog
<1>7. PageInv' /\ NoHole' /\ RepeatsOneEntry'
  BY <1>1, <1>2, <1>3, PushKeepsPages
<1> QED  BY <1>5, <1>6, <1>7, Together

LEMMA EmitTerminalIsSafe == ASSUME IInv, EmitTerminal PROVE IInv'
<1> USE SafeFacts, LogFacts
<1>1. /\ driver = "emit" /\ storing = "no" /\ Push("terminal") /\ driver' \in {"final", "done"}
      /\ UNCHANGED <<storing, orphan, covered, failures, entries, open, page, since, received>>
  BY DEF EmitTerminal
<1>2. Pushed < MaxEvents /\ "terminal" \in Kinds /\ ~orphan
  BY <1>1 DEF Control, Kinds
<1>3. driver' \in {"emit", "final", "done"} /\ storing' \in {"no", "queued"}
      /\ orphan' \in BOOLEAN /\ ~orphan'
  BY <1>1, <1>2 DEF TypeOK
<1>4. TypeOK'
  BY <1>1, <1>2, <1>3, PushKeepsTypes
<1>5. StoreInv'
  <2>1. Awaited' = Awaited /\ ~Awaited
    BY <1>1, <1>2 DEF Awaited
  <2>2. driver' # "emit" /\ driver # "done"
    BY <1>1
  <2> QED  BY <1>1, <1>2, <1>3, <2>1, <2>2, PushKeepsLog
<1>6. PageInv' /\ NoHole' /\ RepeatsOneEntry'
  BY <1>1, <1>2, PushKeepsPages
<1> QED  BY <1>4, <1>5, <1>6, Together

LEMMA TimeoutIsSafe == ASSUME IInv, Timeout PROVE IInv'
<1> USE SafeFacts, LogFacts
<1>1. /\ driver # "done" /\ Pushed < MaxEvents /\ Push("terminal") /\ driver' = "done"
      /\ orphan' = (storing = "queued") /\ storing' = "no"
      /\ UNCHANGED <<covered, failures, entries, open, page, since, received>>
  BY DEF Timeout
<1>2. "terminal" \in Kinds /\ orphan' \in BOOLEAN
  BY <1>1 DEF Kinds
<1>3. TypeOK'
  BY <1>1, <1>2, PushKeepsTypes
<1>4. StoreInv'
  <2>1. Awaited' => Awaited
    BY <1>1 DEF Awaited
  <2> QED  BY <1>1, <1>2, <2>1, PushKeepsLog
<1>5. PageInv' /\ NoHole' /\ RepeatsOneEntry'
  BY <1>1, <1>2, PushKeepsPages
<1> QED  BY <1>3, <1>4, <1>5, Together

(* Steps that only move the driver on. *)
LEMMA DriverIsSafe ==
  ASSUME IInv, Persist \/ NothingToPersist \/ Finish PROVE IInv'
<1> USE SafeFacts, LogFacts
<1>1. UNCHANGED <<covered, failures, entries, stream, buf, marks, subs, page, since, queue,
                  received>>
      /\ orphan' = orphan /\ storing' \in {storing, "queued"}
      /\ (driver' = driver \/ driver' = "done")
  BY DEF Persist, NothingToPersist, Finish, driverVars, logVars, pageVars
<1>2. TypeOK'
  <2>1. driver' \in {"emit", "final", "done"} /\ storing' \in {"no", "queued", "stored"}
    BY <1>1 DEF TypeOK
  <2>2. open' \in BOOLEAN
    BY DEF TypeOK, Persist, NothingToPersist, Finish, DropLog
  <2>3. Pushed' = Pushed
    BY <1>1 DEF Pushed
  <2> QED  BY <1>1, <2>1, <2>2, <2>3 DEF TypeOK
<1>3. StoreInv' /\ Grows
  <2>1. CASE Persist
    <3>1. /\ driver \in {"emit", "final"} /\ storing = "no" /\ Len(entries) < MaxEntries
          /\ storing' = "queued" /\ driver' = driver
          /\ NextEntry # {}
      BY <2>1 DEF Persist, NextEntry
    <3>2. ~orphan
      BY <3>1 DEF Control
    <3>3. driver' # "done" /\ driver # "done"
      BY <3>1
    <3> QED  BY <1>1, <3>1, <3>2, <3>3, IdleKeepsLog
  <2>2. CASE NothingToPersist \/ Finish
    <3>1. /\ storing' = storing /\ (driver' = driver \/ (driver' = "done" /\ storing = "no"))
      BY <2>2 DEF NothingToPersist, Finish, driverVars
    <3>2. Awaited' = Awaited
      BY <1>1, <3>1 DEF Awaited
    <3> QED  BY <1>1, <3>1, <3>2, IdleKeepsLog DEF Control
  <2> QED  BY <2>1, <2>2
<1>4. driver' = "emit" => driver = "emit"
  BY <1>1
<1>5. PageInv' /\ NoHole' /\ RepeatsOneEntry'
  BY <1>1, <1>3, <1>4, WriteKeepsPages
<1> QED  BY <1>2, <1>3, <1>5, Together

(* Steps that write an entry or a mark, or fail to. *)
LEMMA WriterIsSafe ==
  ASSUME IInv, Store \/ StoreFails \/ Mark \/ StoreSummary PROVE IInv'
<1> USE SafeFacts, LogFacts
<1>1. /\ UNCHANGED <<stream, buf, subs, open, page, since, queue, received>>
      /\ (driver' = driver \/ driver' = "done")
  BY DEF Store, StoreFails, Mark, StoreSummary, AfterPersist, driverVars, logVars, pageVars
<1>2. /\ StoreInv' /\ Grows
      /\ entries' \in Seq(SUBSET Positions) /\ Len(entries') <= MaxEntries
      /\ marks' \in Seq([seq : 1..MaxEntries, at : Positions])
  <2>1. CASE Store
    BY <2>1, StoreKeepsLog DEF Store, logVars, TypeOK
  <2>2. CASE StoreFails
    BY <2>2, StoreFailsKeepsLog DEF StoreFails, logVars, TypeOK
  <2>3. CASE Mark
    BY <2>3, MarkKeepsLog DEF Mark, TypeOK
  <2>4. CASE StoreSummary
    BY <2>4, SummaryKeepsLog DEF StoreSummary, logVars, TypeOK
  <2> QED  BY <2>1, <2>2, <2>3, <2>4
<1>3. TypeOK'
  <2>1. driver' \in {"emit", "final", "done"} /\ storing' \in {"no", "queued", "stored"}
        /\ orphan' \in BOOLEAN
    BY <1>1 DEF TypeOK, Store, StoreFails, Mark, StoreSummary, driverVars
  <2>2. covered' \in 0..MaxEvents
    <3>1. covered' \in {covered, Pushed}
      BY DEF Store, StoreFails, Mark, StoreSummary, driverVars
    <3> QED  BY <3>1, TypeFacts
  <2>3. failures' \in 0..MaxFailures
    BY <1>2 DEF Grows
  <2>4. Pushed' = Pushed
    BY <1>1 DEF Pushed
  <2> QED  BY <1>1, <1>2, <2>1, <2>2, <2>3, <2>4 DEF TypeOK
<1>4. driver' = "emit" => driver = "emit"
  BY <1>1
<1>5. PageInv' /\ NoHole' /\ RepeatsOneEntry'
  BY <1>1, <1>2, <1>4, WriteKeepsPages
<1> QED  BY <1>2, <1>3, <1>5, Together

(* A page's own steps leave the log as it is. *)
LEMMA PageKeepsLog ==
  ASSUME IInv, UNCHANGED <<driverVars, stream, buf, marks, entries, open>>
  PROVE  StoreInv'
<1> USE SafeFacts, LogFacts
<1>1. Awaited' = Awaited
  BY DEF Awaited, driverVars
<1> QED  BY <1>1, IdleKeepsLog DEF Control, driverVars

LEMMA PageKeepsTypes ==
  ASSUME IInv, UNCHANGED <<driverVars, stream, buf, marks, entries, open>>, subs' \subseteq Pages,
         page' \in [Pages -> {"away", "loaded", "following", "told", "closed", "missed", "left"}],
         since' \in [Pages -> 0..MaxEntries],
         queue' \in [Pages -> Seq(Positions)], received' \in [Pages -> Seq(Positions)]
  PROVE  TypeOK'
<1>1. TypeOK
  BY SafeFacts
<1>2. Pushed' = Pushed
  BY DEF Pushed
<1> QED  BY <1>1, <1>2 DEF TypeOK, driverVars

(* What replacing one page's value does to each of the pages' variables. *)
LEMMA PageSet ==
  ASSUME TypeOK, NEW p \in Pages,
         NEW at \in {"away", "loaded", "following", "told", "closed", "missed", "left"},
         page' = [page EXCEPT ![p] = at]
  PROVE  /\ page' \in [Pages -> {"away", "loaded", "following", "told", "closed", "missed", "left"}]
         /\ page'[p] = at /\ \A o \in Pages \ {p} : page'[o] = page[o]
<1>1. page \in [Pages -> {"away", "loaded", "following", "told", "closed", "missed", "left"}]
  BY DEF TypeOK
<1> QED  BY <1>1

LEMMA SinceSet ==
  ASSUME TypeOK, NEW p \in Pages,
         NEW n \in 0..MaxEntries,
         since' = [since EXCEPT ![p] = n]
  PROVE  /\ since' \in [Pages -> 0..MaxEntries]
         /\ since'[p] = n /\ \A o \in Pages \ {p} : since'[o] = since[o]
<1>1. since \in [Pages -> 0..MaxEntries]
  BY DEF TypeOK
<1> QED  BY <1>1

LEMMA QueueSet ==
  ASSUME TypeOK, NEW p \in Pages,
         NEW q \in Seq(Positions),
         queue' = [queue EXCEPT ![p] = q]
  PROVE  /\ queue' \in [Pages -> Seq(Positions)]
         /\ queue'[p] = q /\ \A o \in Pages \ {p} : queue'[o] = queue[o]
<1>1. queue \in [Pages -> Seq(Positions)]
  BY DEF TypeOK
<1> QED  BY <1>1

LEMMA ReceivedSet ==
  ASSUME TypeOK, NEW p \in Pages,
         NEW r \in Seq(Positions),
         received' = [received EXCEPT ![p] = r]
  PROVE  /\ received' \in [Pages -> Seq(Positions)]
         /\ received'[p] = r /\ \A o \in Pages \ {p} : received'[o] = received[o]
<1>1. received \in [Pages -> Seq(Positions)]
  BY DEF TypeOK
<1> QED  BY <1>1

(* Replacing a page's value by itself replaces nothing. *)
LEMMA SameAgain ==
  ASSUME TypeOK, NEW p \in Pages
  PROVE  /\ page = [page EXCEPT ![p] = page[p]] /\ since = [since EXCEPT ![p] = since[p]]
         /\ queue = [queue EXCEPT ![p] = queue[p]]
         /\ received = [received EXCEPT ![p] = received[p]]
BY DEF TypeOK

LEMMA LoadIsSafe == ASSUME IInv, NEW p \in Pages, LoadHistory(p) PROVE IInv'
<1> USE SafeFacts, LogFacts
<1>1. /\ page[p] = "away" /\ since' = [since EXCEPT ![p] = Len(entries)]
      /\ page' = [page EXCEPT ![p] = "loaded"]
      /\ UNCHANGED <<driverVars, stream, buf, marks, subs, entries, open, queue, received>>
  BY DEF LoadHistory, logVars
<1>2. Len(entries) \in 0..MaxEntries
  BY TypeFacts DEF TypeOK
<1>3. /\ queue' = [queue EXCEPT ![p] = queue[p]]
      /\ received' = [received EXCEPT ![p] = received[p]]
  BY <1>1, SameAgain
<1>4. /\ TypeOK' /\ page'[p] = "loaded" /\ since'[p] = Len(entries)
      /\ \A o \in Pages \ {p} : /\ page'[o] = page[o] /\ since'[o] = since[o]
                                /\ queue'[o] = queue[o] /\ received'[o] = received[o]
  <2>2. /\ page' \in [Pages -> {"away", "loaded", "following", "told", "closed", "missed", "left"}]
        /\ page'[p] = "loaded" /\ \A o \in Pages \ {p} : page'[o] = page[o]
    BY <1>1, PageSet
  <2>3. /\ since' \in [Pages -> 0..MaxEntries]
        /\ since'[p] = Len(entries) /\ \A o \in Pages \ {p} : since'[o] = since[o]
    BY <1>1, <1>2, SinceSet
  <2>4. subs' \subseteq Pages /\ queue' \in [Pages -> Seq(Positions)]
        /\ received' \in [Pages -> Seq(Positions)]
    BY <1>1 DEF TypeOK
  <2> QED  BY <1>1, <2>2, <2>3, <2>4, PageKeepsTypes
<1>5. StoreInv'
  BY <1>1, PageKeepsLog
<1>6. Sent(p)' = Sent(p)
  BY <1>1 DEF Sent, Elements
<1>7. PageOf(p)'
  BY <1>1, <1>4 DEF PageOf
<1>8. PageInv' /\ NoHole' /\ RepeatsOneEntry'
  BY <1>1, <1>4, <1>6, <1>7, PageKeepsOthers DEF driverVars
<1> QED  BY <1>4, <1>5, <1>8, Together

LEMMA ResumeIsSafe == ASSUME IInv, NEW p \in Pages, Resume(p) PROVE IInv'
<1> USE SafeFacts, LogFacts
<1> DEFINE n == since[p]
           q == IF open THEN Replay(n) ELSE queue[p]
           at == IF open THEN "following" ELSE "missed"
<1>1. /\ page[p] = "loaded" /\ page' = [page EXCEPT ![p] = at]
      /\ queue' = [queue EXCEPT ![p] = q]
      /\ subs' = (IF open THEN subs \cup {p} ELSE subs)
      /\ UNCHANGED <<driverVars, stream, buf, marks, entries, open, since, received>>
  BY SameAgain DEF Resume
<1>2. /\ Replay(n) \in Seq(Positions)
      /\ Elements(Replay(n)) \subseteq 1..Pushed
      /\ q \in Seq(Positions)
  BY ReplayFacts
<1>3. /\ since' = [since EXCEPT ![p] = n] /\ received' = [received EXCEPT ![p] = received[p]]
  BY <1>1, SameAgain
<1>4. n \in 0..MaxEntries
  BY TypeFacts
<1> HIDE DEF q
<1>5. /\ TypeOK' /\ page'[p] = at /\ since'[p] = n /\ queue'[p] = q /\ received'[p] = received[p]
      /\ \A o \in Pages \ {p} : /\ page'[o] = page[o] /\ since'[o] = since[o]
                                /\ queue'[o] = queue[o] /\ received'[o] = received[o]
  <2>1. subs' \subseteq Pages
        /\ at \in {"away", "loaded", "following", "told", "closed", "missed", "left"}
    BY <1>1 DEF TypeOK
  <2> HIDE DEF at
  <2>2. /\ page' \in [Pages -> {"away", "loaded", "following", "told", "closed", "missed", "left"}]
        /\ page'[p] = at /\ \A o \in Pages \ {p} : page'[o] = page[o]
    BY <1>1, <2>1, PageSet
  <2>3. /\ queue' \in [Pages -> Seq(Positions)]
        /\ queue'[p] = q /\ \A o \in Pages \ {p} : queue'[o] = queue[o]
    BY <1>1, <1>2, QueueSet
  <2>4. since' \in [Pages -> 0..MaxEntries] /\ received' \in [Pages -> Seq(Positions)]
    BY <1>1 DEF TypeOK
  <2>5. TypeOK'
    BY <1>1, <2>1, <2>2, <2>3, <2>4, PageKeepsTypes
  <2> QED  BY <1>1, <2>2, <2>3, <2>5
<1>6. StoreInv'
  BY <1>1, PageKeepsLog
<1>7. received[p] = <<>> /\ queue[p] = <<>>
  BY <1>1 DEF PageOf
<1>8. Sent(p)' = Elements(q)
  BY <1>5, <1>7 DEF Sent, Elements
<1>9. Sent(p)' \subseteq 1..Pushed
  BY <1>2, <1>7, <1>8 DEF q, Elements
<1>10. PageOf(p)'
  BY <1>1, <1>5 DEF PageOf
<1>11. ASSUME page'[p] \in {"following", "told"}
       PROVE  (failures = MaxFailures => HoleFree(p)') /\ OneRepeat(p)'
  <2>1. Sent(p)' = Elements(Replay(n))
    BY <1>5, <1>8, <1>11 DEF q
  <2>2. Pushed' = Pushed /\ stream' = stream
    BY <1>1 DEF Pushed
  <2>3. InHistory(p)' = UNION {entries[s] : s \in 1..n}
    BY <1>1, <1>5 DEF InHistory
  <2>4. failures = MaxFailures => HoleFree(p)'
    <3> DEFINE H == UNION {entries[s] : s \in 1..n}
               E == Elements(Replay(n))
    <3>1. ASSUME failures = MaxFailures, NEW i \in 1..Pushed, Content(i), i \notin E, i \notin H
          PROVE  i + Cap <= Pushed
      <4>1. n \in Nat /\ n <= Len(entries)
        OBVIOUS
      <4> HIDE DEF n
      <4> QED  BY <3>1, <4>1, ReplayLeavesNoHole
    <3>2. Sent(p)' = E /\ InHistory(p)' = H
      BY <2>1, <2>3
    <3> HIDE DEF H, E
    <3> QED  BY <2>2, <3>1, <3>2 DEF HoleFree, Content
  <2>5. OneRepeat(p)'
    <3>1. ASSUME NEW s \in 1..n, NEW r \in 1..n,
                 entries[s] \cap Elements(Replay(n)) # {},
                 entries[r] \cap Elements(Replay(n)) # {}
          PROVE  s = r
      <4>1. ~(s < r)
        BY <3>1, ReplayIsRight
      <4>2. ~(r < s)
        BY <3>1, ReplayIsRight
      <4> QED  BY <4>1, <4>2
    <3> HIDE DEF n
    <3> QED  BY <1>1, <1>5, <2>1, <3>1 DEF OneRepeat
  <2> QED  BY <2>4, <2>5
<1>12. PageInv' /\ NoHole' /\ RepeatsOneEntry'
  BY <1>1, <1>5, <1>9, <1>10, <1>11, PageKeepsOthers DEF driverVars
<1> QED  BY <1>5, <1>6, <1>12, Together

LEMMA ForwardIsSafe == ASSUME IInv, NEW p \in Pages, Forward(p) PROVE IInv'
<1> USE SafeFacts, LogFacts
<1> DEFINE i == Head(queue[p])
           r == Append(received[p], i)
           at == IF stream[i] = "terminal" THEN "told" ELSE page[p]
<1>1. /\ page[p] = "following" /\ queue[p] # <<>> /\ page' = [page EXCEPT ![p] = at]
      /\ queue' = [queue EXCEPT ![p] = Tail(queue[p])]
      /\ received' = [received EXCEPT ![p] = r]
      /\ since' = [since EXCEPT ![p] = since[p]]
      /\ UNCHANGED <<driverVars, stream, buf, marks, subs, entries, open, since>>
  BY SameAgain DEF Forward, logVars
<1>2. /\ Tail(queue[p]) \in Seq(Positions) /\ i \in Positions
      /\ Elements(queue[p]) = Elements(Tail(queue[p])) \cup {i}
  BY <1>1, TailFacts
<1>3. r \in Seq(Positions) /\ Elements(r) = Elements(received[p]) \cup {i}
  BY <1>2, AppendFacts
<1>4. since[p] \in 0..MaxEntries
  BY TypeFacts
<1> HIDE DEF r
<1>5. /\ TypeOK' /\ page'[p] = at /\ since'[p] = since[p] /\ queue'[p] = Tail(queue[p])
      /\ received'[p] = r
      /\ \A o \in Pages \ {p} : /\ page'[o] = page[o] /\ since'[o] = since[o]
                                /\ queue'[o] = queue[o] /\ received'[o] = received[o]
  <2>1. subs' \subseteq Pages
        /\ at \in {"away", "loaded", "following", "told", "closed", "missed", "left"}
    BY <1>1 DEF TypeOK
  <2> HIDE DEF at, i
  <2>2. /\ page' \in [Pages -> {"away", "loaded", "following", "told", "closed", "missed", "left"}]
        /\ page'[p] = at /\ \A o \in Pages \ {p} : page'[o] = page[o]
    BY <1>1, <2>1, PageSet
  <2>3. /\ queue' \in [Pages -> Seq(Positions)]
        /\ queue'[p] = Tail(queue[p]) /\ \A o \in Pages \ {p} : queue'[o] = queue[o]
    BY <1>1, <1>2, QueueSet
  <2>4. /\ received' \in [Pages -> Seq(Positions)]
        /\ received'[p] = r /\ \A o \in Pages \ {p} : received'[o] = received[o]
    BY <1>1, <1>3, ReceivedSet
  <2>5. since' \in [Pages -> 0..MaxEntries]
    BY <1>1 DEF TypeOK
  <2>6. TypeOK'
    BY <1>1, <2>1, <2>2, <2>3, <2>4, <2>5, PageKeepsTypes
  <2> QED  BY <1>1, <2>2, <2>3, <2>4, <2>6
<1>6. StoreInv'
  BY <1>1, PageKeepsLog
<1>7. Sent(p)' = Sent(p)
  <2>1. Sent(p)' = Elements(r) \cup Elements(Tail(queue[p]))
    BY <1>5 DEF Sent, Elements
  <2> QED  BY <1>2, <1>3, <2>1 DEF Sent
<1>8. PageOf(p)'
  <2>1. at = "told" => driver # "emit"
    <3> SUFFICES ASSUME stream[i] = "terminal" PROVE driver # "emit"
      BY <1>1
    <3>1. i \in 1..Pushed
      BY <1>2 DEF Sent
    <3> QED  BY <3>1 DEF PageInv, OnlyPushed
  <2> QED  BY <1>1, <1>5, <2>1 DEF PageOf, driverVars
<1>9. (failures = MaxFailures => HoleFree(p)') /\ OneRepeat(p)'
  <2>1. p \in Following
    BY <1>1 DEF Following
  <2>2. (failures = MaxFailures => HoleFree(p)) /\ OneRepeat(p)
    BY <2>1
  <2>3. Pushed' = Pushed /\ stream' = stream /\ entries' = entries /\ since'[p] = since[p]
    BY <1>1 DEF Pushed
  <2>4. InHistory(p)' = InHistory(p)
    BY <2>3 DEF InHistory
  <2> QED  BY <1>7, <2>2, <2>3, <2>4 DEF HoleFree, OneRepeat, Content
<1>10. PageInv' /\ NoHole' /\ RepeatsOneEntry'
  BY <1>1, <1>5, <1>7, <1>8, <1>9, PageKeepsOthers DEF driverVars
<1> QED  BY <1>5, <1>6, <1>10, Together

LEMMA PageEndsSafely ==
  ASSUME IInv, NEW p \in Pages, ForwarderEnds(p) \/ Leave(p) PROVE IInv'
<1> USE SafeFacts, LogFacts
<1>1. PICK at \in {"closed", "left"} : page' = [page EXCEPT ![p] = at]
  BY DEF ForwarderEnds, Leave
<1>2. PICK q \in {queue[p], <<>>} : queue' = [queue EXCEPT ![p] = q]
  BY SameAgain DEF ForwarderEnds, Leave
<1>3. /\ page[p] = "following" /\ since' = [since EXCEPT ![p] = since[p]]
      /\ received' = [received EXCEPT ![p] = received[p]]
      /\ UNCHANGED <<driverVars, stream, buf, marks, subs, entries, open, since, received>>
  BY SameAgain DEF ForwarderEnds, Leave, logVars
<1>4. q \in Seq(Positions)
  <2>1. queue[p] \in Seq(Positions) /\ <<>> \in Seq(Positions)
    OBVIOUS
  <2> QED  BY <2>1
<1>5. /\ TypeOK' /\ page'[p] = at /\ since'[p] = since[p] /\ queue'[p] = q
      /\ received'[p] = received[p]
      /\ \A o \in Pages \ {p} : /\ page'[o] = page[o] /\ since'[o] = since[o]
                                /\ queue'[o] = queue[o] /\ received'[o] = received[o]
  <2>1. subs' \subseteq Pages
        /\ at \in {"away", "loaded", "following", "told", "closed", "missed", "left"}
    BY <1>3 DEF TypeOK
  <2>2. /\ page' \in [Pages -> {"away", "loaded", "following", "told", "closed", "missed", "left"}]
        /\ page'[p] = at /\ \A o \in Pages \ {p} : page'[o] = page[o]
    BY <1>1, <2>1, PageSet
  <2>3. /\ queue' \in [Pages -> Seq(Positions)]
        /\ queue'[p] = q /\ \A o \in Pages \ {p} : queue'[o] = queue[o]
    BY <1>2, <1>4, QueueSet
  <2>4. since' \in [Pages -> 0..MaxEntries] /\ received' \in [Pages -> Seq(Positions)]
    BY <1>3 DEF TypeOK
  <2>5. TypeOK'
    BY <1>3, <2>1, <2>2, <2>3, <2>4, PageKeepsTypes
  <2> QED  BY <1>3, <2>2, <2>3, <2>5
<1>6. StoreInv'
  BY <1>3, PageKeepsLog
<1>7. Sent(p)' \subseteq Sent(p)
  BY <1>5 DEF Sent, Elements
<1>8. PageOf(p)'
  BY <1>3, <1>5 DEF PageOf
<1>9. PageInv' /\ NoHole' /\ RepeatsOneEntry'
  BY <1>3, <1>5, <1>7, <1>8, PageKeepsOthers DEF driverVars
<1> QED  BY <1>5, <1>6, <1>9, Together

LEMMA StutterIsSafe == ASSUME IInv, UNCHANGED vars PROVE IInv'
<1> USE SafeFacts, LogFacts
<1>1. UNCHANGED <<driverVars, stream, buf, marks, subs, entries, open, page, since, queue,
                  received>>
  BY DEF vars, logVars, pageVars
<1>2. TypeOK'
  BY <1>1 DEF TypeOK, driverVars, Pushed
<1>3. Grows
  BY <1>1 DEF Grows, driverVars, Pushed
<1>4. StoreInv'
  BY <1>1, PageKeepsLog
<1>5. PageInv' /\ NoHole' /\ RepeatsOneEntry'
  BY <1>1, <1>3, WriteKeepsPages DEF driverVars
<1> QED  BY <1>2, <1>4, <1>5, Together

LEMMA NextKeepsIInv == IInv /\ [Next]_vars => IInv'
<1> SUFFICES ASSUME IInv, [Next]_vars PROVE IInv'
  OBVIOUS
<1>1. CASE Emit
  BY <1>1, EmitIsSafe
<1>2. CASE EmitTerminal
  BY <1>2, EmitTerminalIsSafe
<1>3. CASE Timeout
  BY <1>3, TimeoutIsSafe
<1>4. CASE Persist \/ NothingToPersist \/ Finish
  BY <1>4, DriverIsSafe
<1>5. CASE Store \/ StoreFails \/ Mark \/ StoreSummary
  BY <1>5, WriterIsSafe
<1>6. CASE UNCHANGED vars
  BY <1>6, StutterIsSafe
<1>7. CASE Over
  <2>1. UNCHANGED vars
    BY <1>7 DEF Over
  <2> QED  BY <2>1, StutterIsSafe
<1>8. ASSUME NEW p \in Pages, Page(p) PROVE IInv'
  <2>1. CASE LoadHistory(p)
    BY <2>1, LoadIsSafe
  <2>2. CASE Resume(p)
    BY <2>2, ResumeIsSafe
  <2>3. CASE Forward(p)
    BY <2>3, ForwardIsSafe
  <2>4. CASE ForwarderEnds(p) \/ Leave(p)
    BY <2>4, PageEndsSafely
  <2> QED  BY <1>8, <2>1, <2>2, <2>3, <2>4 DEF Page
<1> QED  BY <1>1, <1>2, <1>3, <1>4, <1>5, <1>6, <1>7, <1>8 DEF Next, Driver

(* Whatever the ring had not dropped reaches a page that reloads, by its
   history, by the replay or live, unless a write failed; and what it is shown
   twice is the content of one entry (subscribe_from, mark_persisted). *)
THEOREM LogIsSafe == Spec => []LogInv
<1>1. Init => IInv
  BY InitIsSafe
<1>2. IInv /\ [Next]_vars => IInv'
  BY NextKeepsIInv
<1>3. IInv => LogInv
  BY DEF IInv, LogInv
<1> QED  BY <1>1, <1>2, <1>3, PTL DEF Spec

===============================================================================
