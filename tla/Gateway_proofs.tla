---------------------------- MODULE Gateway_proofs ----------------------------
(***************************************************************************)
(* Proofs about Gateway: of every number of requests, connections, events  *)
(* and restarts, PoolInv (permits add up, an idle connection is at rest,   *)
(* the answer under way on one in use is its user's) and RelayHasNoGap.    *)
(***************************************************************************)
EXTENDS Gateway, FiniteSetTheorems, SequenceTheorems, WellFoundedInduction, TLAPS

Elements(s) == {s[i] : i \in DOMAIN s}
-------------------------------------------------------------------------------
(* The inductive invariant.                                                *)

Active == {"hello", "sent", "streaming"}
Events == {"text"} \cup Ends
InPool(s) == \E i \in DOMAIN idle : idle[i] = s
Dropped(s) == user[s] = None /\ ~InPool(s)
AtRest(s) == up[s] = <<>> /\ answer[s] = <<>> /\ down[s] = <<>>

Typed == GatewayAssumption /\ TypeOK

(* Where connections are: each is unused, idle once, in use or dropped. *)
PoolOK ==
  /\ PermitsAddUp /\ Len(idle) <= MaxIdle
  /\ \A i, j \in DOMAIN idle : idle[i] = idle[j] => i = j
  /\ \A s \in Sockets : InPool(s) => user[s] = None /\ socket[s] \in {"open", "shut"}
  /\ \A s \in Sockets : user[s] # None => socket[s] \in {"open", "shut"}

(* A request holds one connection, exactly while it is at work with one. *)
Holding ==
  /\ \A s, t \in Sockets : user[s] # None /\ user[s] = user[t] => s = t
  /\ \A s \in Sockets : user[s] # None => pc[user[s]] \in Active
  /\ \A r \in Requests : pc[r] \in Active => \E s \in Sockets : user[s] = r

(* What is under way on a connection is its user's; on a dropped one it is of
   requests that are over, and a request that has still to be served was never
   served before. *)
Under(s) == Elements(up[s]) \cup Elements(answer[s]) \cup Elements(down[s])
OfUser(s, f) == f.of = user[s] \/ (user[s] = None /\ pc[f.of] = "over")
Wires(s) ==
  /\ InPool(s) \/ socket[s] = "unused" => AtRest(s)
  /\ \A f \in Under(s) : OfUser(s, f)
  /\ Len(up[s]) <= 1
  /\ \A f \in Elements(up[s]) : /\ f.type \in {"hello", "request"}
                                /\ f.type = "request" => run[f.of] = "none"

(* A request has sent its frames into one connection. *)
Single ==
  \A s, t \in Sockets : \A f \in Elements(up[s]), g \in Elements(up[t]) :
    f.of = g.of => s = t

(* A run that still goes on streams into its request's connection, or into one
   that nobody will get again. *)
Sinks(r) ==
  \A s \in Sockets : sink[r] = s =>
    /\ socket[s] # "unused"
    /\ user[s] = r \/ (pc[r] = "over" /\ (run[r] = "over" \/ Dropped(s)))

(* How far a request can have come. *)
Begun(r) ==
  /\ pc[r] \in {"new", "waiting", "hello"} => run[r] = "none" /\ held[r] = <<>>
  /\ pc[r] \in {"new", "waiting", "hello", "sent"} => streamed[r] = <<>>
  /\ kind[r] = "call" => run[r] = "none"
  /\ run[r] = "none" => events[r] = 0 /\ sink[r] = 0
  /\ run[r] \in {"running", "asking"} => events[r] < MaxEvents

(* Of a run's events the first b have been read; the rest is on its way in D in
   order, with a response at place q unless q is 0. *)
Numbered(D, b, q) ==
  \A i \in 1..Len(D) :
    IF i = q THEN D[i].type \in Responses
    ELSE /\ D[i].type \in Events
         /\ D[i].n = IF q # 0 /\ q < i THEN (b + i) - 1 ELSE b + i
Total(len, b, q) == IF q = 0 THEN b + len ELSE (b + len) - 1

Live(r, s) == run[r] \in {"running", "asking"} /\ sink[r] = s /\ socket[s] = "open"
Expected(r) == {x \in Responses : \/ x = "hello" /\ pc[r] = "hello"
                                  \/ x # "hello" /\ pc[r] = "sent"}
Asked(r) == IF pc[r] = "hello" THEN Hello(r) ELSE Ask(r)

(* What of the b events that were read the handler has shown, or holds. *)
Seen(r, b) ==
  /\ pc[r] = "sent" /\ kind[r] = "resume" =>
       Len(held[r]) = b /\ \A i \in 1..b : held[r][i].of = r /\ held[r][i].n = i
  /\ pc[r] = "streaming" =>
       IF streamed[r] = <<>> THEN kind[r] = "resume" => b = 0
                             ELSE streamed[r][Len(streamed[r])] = b

(* Request and answer between a handler and the daemon, with the events between. *)
Exchange(r, s, b, q) ==
  /\ Numbered(down[s], b, q)
  /\ Total(Len(down[s]), b, q) <= events[r]
  /\ Live(r, s) => Total(Len(down[s]), b, q) = events[r]
  /\ up[s] # <<>> => /\ up[s][1] = Asked(r) /\ pc[r] \in {"hello", "sent"}
                     /\ answer[s] = <<>> /\ q = 0
  /\ answer[s] # <<>> => Len(answer[s]) = 1 /\ answer[s][1].type \in Expected(r) /\ q = 0
  /\ q # 0 => down[s][q].type \in Expected(r) /\ up[s] = <<>> /\ answer[s] = <<>>
  /\ \A f \in Elements(down[s]) : f.type \in Ends => run[r] = "over" /\ f.n = events[r]
  /\ Seen(r, b)
Exchanges(s) ==
  \A r \in Requests : user[s] = r =>
    \E b \in Nat, q \in 0..Len(down[s]) : Exchange(r, s, b, q)

Gapless(r) ==
  streamed[r] # <<>> =>
    /\ \A i \in 1..(Len(streamed[r]) - 1) : streamed[r][i + 1] = streamed[r][i] + 1
    /\ kind[r] = "resume" => streamed[r][1] = 1

PoolIInv ==
  /\ Typed /\ PoolOK /\ Holding /\ Single
  /\ \A s \in Sockets : Wires(s) /\ Exchanges(s)
  /\ \A r \in Requests : Sinks(r) /\ Begun(r) /\ Gapless(r)

(* Appending adds one element and leaves the others where they are. *)
LEMMA AppendFacts ==
  ASSUME NEW S, NEW s \in Seq(S), NEW x \in S
  PROVE  /\ Append(s, x) \in Seq(S)
         /\ Len(Append(s, x)) = Len(s) + 1 /\ Len(s) \in Nat
         /\ \A i \in 1..Len(s) : Append(s, x)[i] = s[i]
         /\ Append(s, x)[Len(s) + 1] = x
         /\ DOMAIN s = 1..Len(s) /\ DOMAIN Append(s, x) = 1..(Len(s) + 1)
         /\ Elements(Append(s, x)) = Elements(s) \cup {x}
<1>1. /\ Append(s, x) \in Seq(S)
      /\ Len(Append(s, x)) = Len(s) + 1 /\ Len(s) \in Nat
      /\ \A i \in 1..Len(s) : Append(s, x)[i] = s[i]
      /\ Append(s, x)[Len(s) + 1] = x
  OBVIOUS
<1>2. DOMAIN s = 1..Len(s) /\ DOMAIN Append(s, x) = 1..(Len(s) + 1)
  BY <1>1
<1> DEFINE r == Append(s, x)
<1>3. Elements(r) \subseteq Elements(s) \cup {x}
  <2> SUFFICES ASSUME NEW i \in 1..(Len(s) + 1) PROVE r[i] \in Elements(s) \cup {x}
    BY <1>2 DEF Elements
  <2>1. i \in 1..Len(s) \/ i = Len(s) + 1
    BY <1>1
  <2> QED  BY <1>1, <1>2, <2>1 DEF Elements
<1>4. Elements(s) \subseteq Elements(r)
  <2> SUFFICES ASSUME NEW i \in 1..Len(s) PROVE s[i] \in Elements(r)
    BY <1>2 DEF Elements
  <2>1. i \in 1..(Len(s) + 1) /\ r[i] = s[i]
    BY <1>1
  <2> QED  BY <1>2, <2>1 DEF Elements
<1>5. x \in Elements(r)
  <2>1. Len(s) + 1 \in 1..(Len(s) + 1)
    BY <1>1
  <2> QED  BY <1>1, <1>2, <2>1 DEF Elements
<1> QED  BY <1>1, <1>2, <1>3, <1>4, <1>5

(* Taking the head off leaves the rest, one place nearer. *)
LEMMA TailFacts ==
  ASSUME NEW S, NEW s \in Seq(S), s # <<>>
  PROVE  /\ Tail(s) \in Seq(S) /\ Len(Tail(s)) = Len(s) - 1 /\ Len(s) \in Nat \ {0}
         /\ \A i \in 1..(Len(s) - 1) : Tail(s)[i] = s[i + 1]
         /\ Head(s) \in S /\ Head(s) = s[1]
         /\ Elements(s) = Elements(Tail(s)) \cup {Head(s)}
<1>1. /\ Tail(s) \in Seq(S) /\ Len(Tail(s)) = Len(s) - 1 /\ Len(s) \in Nat \ {0}
      /\ \A i \in 1..(Len(s) - 1) : Tail(s)[i] = s[i + 1]
      /\ Head(s) = s[1]
  BY EmptySeq
<1>2. DOMAIN s = 1..Len(s) /\ DOMAIN Tail(s) = 1..(Len(s) - 1)
  BY <1>1
<1>3. Head(s) \in S
  BY <1>1, <1>2
<1>4. Elements(s) \subseteq Elements(Tail(s)) \cup {Head(s)}
  <2> SUFFICES ASSUME NEW i \in 1..Len(s) PROVE s[i] \in Elements(Tail(s)) \cup {Head(s)}
    BY <1>2 DEF Elements
  <2>1. CASE i = 1
    BY <1>1, <2>1
  <2>2. CASE i # 1
    <3>1. i - 1 \in 1..(Len(s) - 1) /\ (i - 1) + 1 = i
      BY <1>1, <2>2
    <3>2. Tail(s)[i - 1] = s[i]
      BY <1>1, <3>1
    <3> QED  BY <1>2, <3>1, <3>2 DEF Elements
  <2> QED  BY <2>1, <2>2
<1>5. Elements(Tail(s)) \cup {Head(s)} \subseteq Elements(s)
  <2>1. \A i \in 1..(Len(s) - 1) : i + 1 \in 1..Len(s)
    BY <1>1
  <2>2. 1 \in 1..Len(s)
    BY <1>1
  <2> QED  BY <1>1, <1>2, <2>1, <2>2 DEF Elements
<1> QED  BY <1>1, <1>3, <1>4, <1>5

-------------------------------------------------------------------------------
(* What a handler shows of the frames it reads.                            *)

(* The places of a whole sequence, in order, are 1 to its length. *)
LEMMA PlacesOfAll ==
  ASSUME NEW n \in Nat
  PROVE  Cardinality(1..n) = n /\ \A k \in 1..n : Nth(1..n, k) = k
<1>1. ASSUME NEW m \in Nat PROVE Cardinality(1..m) = m
  <2>1. 1 \in Int /\ m \in Int
    OBVIOUS
  <2>2. Cardinality(1..m) = IF 1 > m THEN 0 ELSE m - 1 + 1
    BY <2>1, FS_Interval
  <2> QED  BY <2>2
<1>2. ASSUME NEW i \in 1..n PROVE Cardinality({j \in 1..n : j < i}) = i - 1
  <2>1. {j \in 1..n : j < i} = 1..(i - 1) /\ i - 1 \in Nat
    OBVIOUS
  <2> QED  BY <1>1, <2>1
<1>3. ASSUME NEW k \in 1..n PROVE Nth(1..n, k) = k
  <2>1. \A i \in 1..n : i - 1 = k - 1 <=> i = k
    OBVIOUS
  <2>2. \A i \in 1..n : Cardinality({j \in 1..n : j < i}) = k - 1 <=> i = k
    BY <1>2, <2>1
  <2> QED  BY <2>2 DEF Nth
<1> QED  BY <1>1, <1>3

(* Of frames that are all its own it shows each, in order. *)
LEMMA ShowsAll ==
  ASSUME NEW r, NEW fs \in Seq(Frames), \A i \in 1..Len(fs) : fs[i].of = r
  PROVE  Shown(r, fs) = [k \in 1..Len(fs) |-> fs[k].n]
<1>1. Len(fs) \in Nat /\ ItsOwn(r, fs) = 1..Len(fs)
  BY DEF ItsOwn
<1>2. Cardinality(1..Len(fs)) = Len(fs) /\ \A k \in 1..Len(fs) : Nth(1..Len(fs), k) = k
  BY <1>1, PlacesOfAll
<1>3. Shown(r, fs) = [k \in 1..Cardinality(1..Len(fs)) |-> fs[Nth(1..Len(fs), k)].n]
  BY <1>1 DEF Shown
<1> QED  BY <1>2, <1>3

-------------------------------------------------------------------------------
(* Events on their way.                                                    *)

LEMMA ResponsesAreNoEvents == \A x \in Responses : x \notin Events
BY DEF Responses, Events, Ends

(* The head is an event, number b + 1, or the response. *)
LEMMA ReadEvent ==
  ASSUME NEW D \in Seq(Frames), D # <<>>, NEW b \in Nat, NEW q \in 0..Len(D),
         Numbered(D, b, q), q # 1, NEW p, p = (IF q = 0 THEN 0 ELSE q - 1)
  PROVE  /\ Head(D).type \in Events /\ Head(D).n = b + 1
         /\ p \in 0..Len(Tail(D)) /\ Numbered(Tail(D), b + 1, p)
         /\ Total(Len(Tail(D)), b + 1, p) = Total(Len(D), b, q)
         /\ p # 0 => Tail(D)[p] = D[q]
<1>1. /\ Len(Tail(D)) = Len(D) - 1 /\ Len(D) \in Nat \ {0} /\ Head(D) = D[1]
      /\ \A i \in 1..(Len(D) - 1) : Tail(D)[i] = D[i + 1]
  BY TailFacts
<1>2. D[1].type \in Events /\ D[1].n = b + 1
  BY <1>1 DEF Numbered
<1>3. p \in 0..(Len(D) - 1) /\ (p # 0 => p + 1 = q) /\ (p = 0 => q = 0)
  BY <1>1
<1>4. Numbered(Tail(D), b + 1, p)
  <2> SUFFICES ASSUME NEW i \in 1..(Len(D) - 1)
               PROVE  IF i = p THEN Tail(D)[i].type \in Responses
                      ELSE /\ Tail(D)[i].type \in Events
                           /\ Tail(D)[i].n = IF p # 0 /\ p < i THEN ((b + 1) + i) - 1
                                             ELSE (b + 1) + i
    BY <1>1 DEF Numbered
  <2>1. i + 1 \in 1..Len(D) /\ Tail(D)[i] = D[i + 1] /\ (i + 1 = q <=> i = p /\ p # 0)
    BY <1>1, <1>3
  <2>2. IF i + 1 = q THEN D[i + 1].type \in Responses
        ELSE /\ D[i + 1].type \in Events
             /\ D[i + 1].n = IF q # 0 /\ q < i + 1 THEN (b + (i + 1)) - 1 ELSE b + (i + 1)
    BY <2>1 DEF Numbered
  <2> QED  BY <1>3, <2>1, <2>2
<1>5. Total(Len(Tail(D)), b + 1, p) = Total(Len(D), b, q)
  BY <1>1, <1>3 DEF Total
<1>6. p # 0 => Tail(D)[p] = D[q]
  BY <1>1, <1>3
<1> QED  BY <1>1, <1>2, <1>3, <1>4, <1>5, <1>6

LEMMA ReadResponse ==
  ASSUME NEW D \in Seq(Frames), D # <<>>, NEW b \in Nat, Numbered(D, b, 1)
  PROVE  /\ Head(D) = D[1] /\ Numbered(Tail(D), b, 0)
         /\ Total(Len(Tail(D)), b, 0) = Total(Len(D), b, 1)
<1>1. /\ Len(Tail(D)) = Len(D) - 1 /\ Len(D) \in Nat \ {0} /\ Head(D) = D[1]
      /\ \A i \in 1..(Len(D) - 1) : Tail(D)[i] = D[i + 1]
  BY TailFacts
<1>2. Numbered(Tail(D), b, 0)
  <2> SUFFICES ASSUME NEW i \in 1..(Len(D) - 1)
               PROVE  Tail(D)[i].type \in Events /\ Tail(D)[i].n = b + i
    BY <1>1 DEF Numbered
  <2>1. i + 1 \in 1..Len(D) /\ Tail(D)[i] = D[i + 1] /\ i + 1 # 1 /\ 1 < i + 1
    BY <1>1
  <2>2. D[i + 1].type \in Events /\ D[i + 1].n = (b + (i + 1)) - 1
    BY <2>1 DEF Numbered
  <2> QED  BY <2>1, <2>2
<1> QED  BY <1>1, <1>2 DEF Total

(* The head is the response exactly if it has a response's type. *)
LEMMA HeadIsResponse ==
  ASSUME NEW D \in Seq(Frames), D # <<>>, NEW b \in Nat, NEW q \in 0..Len(D),
         Numbered(D, b, q)
  PROVE  Head(D).type \in Responses <=> q = 1
<1>1. Len(D) \in Nat \ {0} /\ Head(D) = D[1] /\ 1 \in 1..Len(D)
  BY TailFacts
<1>2. IF 1 = q THEN D[1].type \in Responses ELSE D[1].type \in Events
  BY <1>1 DEF Numbered
<1> QED  BY <1>1, <1>2, ResponsesAreNoEvents

(* A new event comes behind all others, a response after everything before it. *)
LEMMA AppendEvent ==
  ASSUME NEW D \in Seq(Frames), NEW b \in Nat, NEW q \in 0..Len(D), Numbered(D, b, q),
         NEW f \in Frames, f.type \in Events, f.n = Total(Len(D), b, q) + 1
  PROVE  /\ Numbered(Append(D, f), b, q) /\ q \in 0..Len(Append(D, f))
         /\ Total(Len(Append(D, f)), b, q) = Total(Len(D), b, q) + 1
         /\ q # 0 => Append(D, f)[q] = D[q]
<1>1. /\ Len(Append(D, f)) = Len(D) + 1 /\ Len(D) \in Nat
      /\ \A i \in 1..Len(D) : Append(D, f)[i] = D[i]
      /\ Append(D, f)[Len(D) + 1] = f
  BY AppendFacts
<1>2. ASSUME NEW i \in 1..(Len(D) + 1)
      PROVE  IF i = q THEN Append(D, f)[i].type \in Responses
             ELSE /\ Append(D, f)[i].type \in Events
                  /\ Append(D, f)[i].n = IF q # 0 /\ q < i THEN (b + i) - 1 ELSE b + i
  <2>1. CASE i = Len(D) + 1
    <3>1. i # q /\ (q # 0 => q < i) /\ Append(D, f)[i] = f
      BY <1>1, <2>1
    <3>2. f.n = IF q # 0 THEN (b + i) - 1 ELSE b + i
      BY <1>1, <2>1 DEF Total
    <3> QED  BY <3>1, <3>2
  <2>2. CASE i # Len(D) + 1
    <3>1. i \in 1..Len(D) /\ Append(D, f)[i] = D[i]
      BY <1>1, <2>2
    <3> QED  BY <3>1 DEF Numbered
  <2> QED  BY <2>1, <2>2
<1>3. Numbered(Append(D, f), b, q)
  BY <1>1, <1>2 DEF Numbered
<1>4. Total(Len(Append(D, f)), b, q) = Total(Len(D), b, q) + 1
  BY <1>1 DEF Total
<1>5. q \in 0..Len(Append(D, f)) /\ (q # 0 => Append(D, f)[q] = D[q])
  BY <1>1
<1> QED  BY <1>3, <1>4, <1>5

LEMMA AppendResponse ==
  ASSUME NEW D \in Seq(Frames), NEW b \in Nat, Numbered(D, b, 0),
         NEW f \in Frames, f.type \in Responses
  PROVE  /\ Numbered(Append(D, f), b, Len(D) + 1) /\ Append(D, f)[Len(D) + 1] = f
         /\ Len(Append(D, f)) = Len(D) + 1 /\ Len(D) \in Nat
         /\ Total(Len(Append(D, f)), b, Len(D) + 1) = Total(Len(D), b, 0)
<1>1. /\ Len(Append(D, f)) = Len(D) + 1 /\ Len(D) \in Nat
      /\ \A i \in 1..Len(D) : Append(D, f)[i] = D[i]
      /\ Append(D, f)[Len(D) + 1] = f
  BY AppendFacts
<1> DEFINE q == Len(D) + 1
<1>2. ASSUME NEW i \in 1..(Len(D) + 1)
      PROVE  IF i = q THEN Append(D, f)[i].type \in Responses
             ELSE /\ Append(D, f)[i].type \in Events
                  /\ Append(D, f)[i].n = IF q # 0 /\ q < i THEN (b + i) - 1 ELSE b + i
  <2>1. CASE i = q
    BY <1>1, <2>1
  <2>2. CASE i # q
    <3>1. i \in 1..Len(D) /\ Append(D, f)[i] = D[i] /\ ~(q < i)
      BY <1>1, <2>2
    <3> QED  BY <2>2, <3>1 DEF Numbered
  <2> QED  BY <2>1, <2>2
<1>3. Numbered(Append(D, f), b, q)
  BY <1>1, <1>2 DEF Numbered
<1>4. Total(Len(Append(D, f)), b, q) = Total(Len(D), b, 0)
  BY <1>1 DEF Total
<1> QED  BY <1>1, <1>3, <1>4

-------------------------------------------------------------------------------
(* Types and frame conditions.                                             *)

LEMMA PoolTypes ==
  ASSUME Typed
  PROVE  /\ kind \in [Requests -> AllKinds]
         /\ pc \in [Requests -> {"new", "waiting", "hello", "sent", "streaming", "over"}]
         /\ held \in [Requests -> Seq(Frames)] /\ streamed \in [Requests -> Seq(1..MaxEvents)]
         /\ user \in [Sockets -> Requests \cup {None}] /\ idle \in Seq(Sockets)
         /\ permits \in Nat /\ writer \in [Sockets -> BOOLEAN]
         /\ up \in [Sockets -> Seq(Frames)] /\ down \in [Sockets -> Seq(Frames)]
         /\ answer \in [Sockets -> Seq(Frames)]
         /\ socket \in [Sockets -> {"unused", "open", "shut", "closed"}]
         /\ run \in [Requests -> {"none", "running", "asking", "over"}]
         /\ sink \in [Requests -> 0..MaxSockets] /\ events \in [Requests -> 0..MaxEvents]
         /\ MaxConns \in Nat /\ MaxIdle \in Nat /\ MaxSockets \in Nat /\ MaxEvents \in Nat \ {0}
         /\ None \notin Requests /\ Sockets = 1..MaxSockets
         /\ \A r \in Requests : sink[r] # 0 => sink[r] \in Sockets
         /\ Len(idle) \in Nat /\ DOMAIN idle = 1..Len(idle)
<1>1. GatewayAssumption /\ TypeOK
  BY DEF Typed
<1>2. /\ MaxConns \in Nat /\ MaxIdle \in Nat /\ MaxSockets \in Nat /\ MaxEvents \in Nat \ {0}
      /\ None \notin Requests /\ Kinds \subseteq AllKinds
  BY <1>1 DEF GatewayAssumption
<1>3. idle \in Seq(Sockets) /\ sink \in [Requests -> 0..MaxSockets]
  BY <1>1 DEF TypeOK
<1>4. \A r \in Requests : sink[r] # 0 => sink[r] \in Sockets
  BY <1>2, <1>3 DEF Sockets
<1>5. Len(idle) \in Nat /\ DOMAIN idle = 1..Len(idle)
  BY <1>3
<1>6. kind \in [Requests -> AllKinds]
  BY <1>1, <1>2 DEF TypeOK
<1>7. permits \in Nat
  BY <1>1, <1>2 DEF TypeOK
<1> QED  BY <1>1, <1>2, <1>3, <1>4, <1>5, <1>6, <1>7 DEF TypeOK, Sockets

LEMMA ElementsOfNone == Elements(<<>>) = {}
BY DEF Elements

LEMMA ElementsOfOne == ASSUME NEW x PROVE Elements(<<x>>) = {x} /\ Len(<<x>>) = 1
BY DEF Elements

LEMMA FrameFacts ==
  ASSUME Typed, NEW r \in Requests
  PROVE  /\ Hello(r) \in Frames /\ Ask(r) \in Frames
         /\ Hello(r).type = "hello" /\ Ask(r).type = "request"
         /\ Hello(r).of = r /\ Ask(r).of = r
         /\ Asked(r) \in {Hello(r), Ask(r)} /\ Hello(r) # Ask(r)
         /\ \A f \in Frames : f.of \in Requests /\ f.n \in 0..MaxEvents
         /\ \A type \in {"hello", "res", "err", "text"} \cup Ends, n \in 0..MaxEvents :
              /\ Frame(type, r, n) \in Frames /\ Frame(type, r, n).type = type
              /\ Frame(type, r, n).of = r /\ Frame(type, r, n).n = n
<1>1. 0 \in 0..MaxEvents
  BY PoolTypes
<1> QED  BY <1>1 DEF Hello, Ask, Asked, Frame, Frames, Ends

(* Nothing is under way on a connection at rest. *)
LEMMA RestIsEmpty ==
  ASSUME NEW s, AtRest(s) PROVE Under(s) = {} /\ Elements(up[s]) = {}
BY ElementsOfNone DEF AtRest, Under

(* Frames that were there before are still their user's. *)
LEMMA WiresStay ==
  ASSUME Typed, Typed', NEW t \in Sockets, Wires(t),
         Under(t)' \subseteq Under(t), Elements(up[t])' \subseteq Elements(up[t]),
         Len(up'[t]) <= 1,
         InPool(t)' \/ socket'[t] = "unused" => AtRest(t)',
         user'[t] # user[t] => user'[t] = None /\ pc'[user[t]] = "over",
         \A x \in Requests : pc[x] = "over" => pc'[x] = "over",
         \A f \in Elements(up[t])' : run[f.of] = "none" => run'[f.of] = "none"
  PROVE  Wires(t)'
<1>1. \A f \in Under(t) : f \in Frames
  <2>1. up[t] \in Seq(Frames) /\ answer[t] \in Seq(Frames) /\ down[t] \in Seq(Frames)
    BY PoolTypes
  <2> QED  BY <2>1 DEF Under, Elements
<1>2. \A f \in Under(t) : f.of \in Requests
  BY <1>1 DEF Frames
<1>3. ASSUME NEW f \in Under(t)' PROVE OfUser(t, f)'
  <2>1. f \in Under(t) /\ f.of \in Requests /\ OfUser(t, f)
    BY <1>2 DEF Wires
  <2> QED  BY <2>1 DEF OfUser
<1>4. ASSUME NEW f \in Elements(up[t])'
      PROVE  f.type \in {"hello", "request"} /\ (f.type = "request" => run'[f.of] = "none")
  BY <1>4 DEF Wires
<1> QED  BY <1>3, <1>4 DEF Wires

(* Nothing of a connection, its user or his run changes but what is over. *)
LEMMA ExchangeStays ==
  ASSUME NEW t \in Sockets, Exchanges(t),
         user'[t] \in Requests => user'[t] = user[t],
         \A x \in Requests : user[t] = x /\ user'[t] = x =>
           /\ up'[t] = up[t] /\ answer'[t] = answer[t] /\ down'[t] = down[t]
           /\ pc'[x] = pc[x] /\ kind'[x] = kind[x] /\ held'[x] = held[x]
           /\ streamed'[x] = streamed[x] /\ events'[x] = events[x]
           /\ Live(x, t)' => Live(x, t)
           /\ run[x] = "over" => run'[x] = "over"
  PROVE  Exchanges(t)'
<1> SUFFICES ASSUME NEW x \in Requests, user'[t] = x
             PROVE  \E b \in Nat, q \in 0..Len(down'[t]) : Exchange(x, t, b, q)'
  BY DEF Exchanges
<1>0. user[t] = x
  OBVIOUS
<1>1. PICK b \in Nat, q \in 0..Len(down[t]) : Exchange(x, t, b, q)
  BY <1>0 DEF Exchanges
<1>2. /\ up'[t] = up[t] /\ answer'[t] = answer[t] /\ down'[t] = down[t]
      /\ pc'[x] = pc[x] /\ kind'[x] = kind[x] /\ held'[x] = held[x]
      /\ streamed'[x] = streamed[x] /\ events'[x] = events[x]
      /\ Live(x, t)' => Live(x, t)
      /\ run[x] = "over" => run'[x] = "over"
  BY <1>0
<1>3. Seen(x, b)' <=> Seen(x, b)
  BY <1>2 DEF Seen
<1>4. Asked(x)' = Asked(x) /\ Expected(x)' = Expected(x)
  BY <1>2 DEF Asked, Expected, Hello, Ask
<1>5. Exchange(x, t, b, q)'
  BY <1>1, <1>2, <1>3, <1>4 DEF Exchange
<1> QED  BY <1>2, <1>5

LEMMA SinkStays ==
  ASSUME NEW x \in Requests, Sinks(x), sink'[x] \in {0, sink[x]}, 0 \notin Sockets,
         \A s \in Sockets : sink[x] = s =>
           /\ socket[s] # "unused" => socket'[s] # "unused"
           /\ user[s] = x => \/ user'[s] = x
                             \/ pc'[x] = "over" /\ (run'[x] = "over" \/ Dropped(s)')
           /\ pc[x] = "over" => pc'[x] = "over"
           /\ run[x] = "over" => run'[x] = "over"
           /\ socket[s] # "unused" /\ Dropped(s) => Dropped(s)'
  PROVE  Sinks(x)'
BY DEF Sinks

LEMMA BegunStays ==
  ASSUME NEW x \in Requests, Begun(x),
         pc'[x] = pc[x], kind'[x] = kind[x], held'[x] = held[x], streamed'[x] = streamed[x],
         run'[x] = run[x], sink'[x] \in {0, sink[x]}, events'[x] = events[x]
  PROVE  Begun(x)'
BY DEF Begun

LEMMA GaplessStays ==
  ASSUME NEW x \in Requests, Gapless(x), kind'[x] = kind[x], streamed'[x] = streamed[x]
  PROVE  Gapless(x)'
BY DEF Gapless

LEMMA SingleStays ==
  ASSUME Single, \A t \in Sockets : Elements(up[t])' \subseteq Elements(up[t])
  PROVE  Single'
BY DEF Single
-------------------------------------------------------------------------------
(* Where a connection is.                                                  *)

LEMMA InUseIsFinite ==
  ASSUME Typed PROVE IsFiniteSet(InUse) /\ Cardinality(InUse) \in Nat
<1>1. IsFiniteSet(Sockets)
  <2>1. MaxSockets \in Int /\ 1 \in Int /\ Sockets = 1..MaxSockets
    BY PoolTypes
  <2> QED  BY <2>1, FS_Interval
<1>2. InUse \subseteq Sockets
  BY DEF InUse
<1> QED  BY <1>1, <1>2, FS_Subset, FS_CardinalityType

LEMMA UserLeaves ==
  ASSUME Typed, NEW s \in Sockets, user[s] # None, user' = [user EXCEPT ![s] = None]
  PROVE  /\ Cardinality(InUse') = Cardinality(InUse) - 1 /\ Cardinality(InUse) \in Nat \ {0}
         /\ user'[s] = None /\ \A t \in Sockets \ {s} : user'[t] = user[t]
         /\ user' \in [Sockets -> Requests \cup {None}]
<1>1. user \in [Sockets -> Requests \cup {None}]
  BY PoolTypes
<1>2. /\ user'[s] = None /\ \A t \in Sockets \ {s} : user'[t] = user[t]
      /\ user' \in [Sockets -> Requests \cup {None}]
  BY <1>1
<1>3. InUse' = InUse \ {s} /\ s \in InUse
  BY <1>2 DEF InUse
<1>4. IsFiniteSet(InUse) /\ Cardinality(InUse) \in Nat
  BY InUseIsFinite
<1>5. Cardinality(InUse \ {s}) = Cardinality(InUse) - 1
  BY <1>3, <1>4, FS_RemoveElement
<1>6. Cardinality(InUse) # 0
  BY <1>3, <1>4, FS_EmptySet
<1> QED  BY <1>2, <1>3, <1>4, <1>5, <1>6

LEMMA UserComes ==
  ASSUME Typed, NEW s \in Sockets, NEW r \in Requests, user[s] = None,
         user' = [user EXCEPT ![s] = r]
  PROVE  /\ Cardinality(InUse') = Cardinality(InUse) + 1 /\ Cardinality(InUse) \in Nat
         /\ user'[s] = r /\ \A t \in Sockets \ {s} : user'[t] = user[t]
         /\ user' \in [Sockets -> Requests \cup {None}]
<1>1. user \in [Sockets -> Requests \cup {None}] /\ None \notin Requests
  BY PoolTypes
<1>2. /\ user'[s] = r /\ \A t \in Sockets \ {s} : user'[t] = user[t]
      /\ user' \in [Sockets -> Requests \cup {None}]
  BY <1>1
<1>3. InUse' = InUse \cup {s} /\ s \notin InUse
  BY <1>1, <1>2 DEF InUse
<1>4. IsFiniteSet(InUse) /\ Cardinality(InUse) \in Nat
  BY InUseIsFinite
<1>5. Cardinality(InUse \cup {s}) = Cardinality(InUse) + 1
  BY <1>3, <1>4, FS_AddElement
<1> QED  BY <1>2, <1>3, <1>4, <1>5

(* A handler that ends gives its connection up: to be dropped, ... *)
LEMMA DropKeepsPool ==
  ASSUME Typed, PoolOK, NEW r \in Requests, NEW s \in Sockets, user[s] = r,
         user' = [user EXCEPT ![s] = None], permits' = permits + 1, idle' = idle,
         socket' = socket
  PROVE  PoolOK' /\ permits' \in 0..MaxConns
<1>1. /\ Cardinality(InUse') = Cardinality(InUse) - 1 /\ Cardinality(InUse) \in Nat \ {0}
      /\ user'[s] = None /\ \A t \in Sockets \ {s} : user'[t] = user[t]
  BY PoolTypes, UserLeaves
<1>2. permits \in Nat /\ Len(idle) \in Nat /\ MaxConns \in Nat
  BY PoolTypes
<1>3. (permits + Len(idle)) + Cardinality(InUse) = MaxConns
  BY <1>1, <1>2 DEF PoolOK, PermitsAddUp
<1>4. PermitsAddUp' /\ permits' \in 0..MaxConns
  BY <1>1, <1>2, <1>3 DEF PermitsAddUp
<1>5. \A t \in Sockets : user'[t] # None => user[t] # None
  BY <1>1
<1>6. \A t \in Sockets : user[t] = None => user'[t] = None
  BY <1>1
<1> QED  BY <1>4, <1>5, <1>6 DEF PoolOK, InPool

(* ... or to be used again. *)
LEMMA ReturnKeepsPool ==
  ASSUME Typed, PoolOK, NEW r \in Requests, NEW s \in Sockets, user[s] = r,
         user' = [user EXCEPT ![s] = None], permits' = permits, idle' = Append(idle, s),
         Len(idle) < MaxIdle, socket' = socket
  PROVE  /\ PoolOK' /\ permits' \in 0..MaxConns /\ idle' \in Seq(Sockets)
         /\ \A t \in Sockets : InPool(t)' <=> InPool(t) \/ t = s
<1>1. /\ Cardinality(InUse') = Cardinality(InUse) - 1 /\ Cardinality(InUse) \in Nat \ {0}
      /\ user'[s] = None /\ \A t \in Sockets \ {s} : user'[t] = user[t]
  BY PoolTypes, UserLeaves
<1>2. /\ permits \in Nat /\ Len(idle) \in Nat /\ MaxConns \in Nat /\ MaxIdle \in Nat
      /\ idle \in Seq(Sockets) /\ None \notin Requests
  BY PoolTypes
<1>3. /\ idle' \in Seq(Sockets) /\ Len(idle') = Len(idle) + 1
      /\ \A i \in 1..Len(idle) : idle'[i] = idle[i]
      /\ idle'[Len(idle) + 1] = s
      /\ DOMAIN idle = 1..Len(idle) /\ DOMAIN idle' = 1..(Len(idle) + 1)
      /\ Elements(idle') = Elements(idle) \cup {s}
  BY <1>2, AppendFacts
<1>4. (permits + Len(idle)) + Cardinality(InUse) = MaxConns
  BY <1>1, <1>2 DEF PoolOK, PermitsAddUp
<1>5. PermitsAddUp' /\ permits' \in 0..MaxConns
  BY <1>1, <1>2, <1>3, <1>4 DEF PermitsAddUp
<1>6. \A t \in Sockets : InPool(t) <=> t \in Elements(idle)
  BY DEF InPool, Elements
<1>7. \A t \in Sockets : InPool(t)' <=> t \in Elements(idle')
  BY DEF InPool, Elements
<1>8. \A t \in Sockets : InPool(t)' <=> InPool(t) \/ t = s
  BY <1>3, <1>6, <1>7
<1>9. \A i \in 1..Len(idle) : idle[i] # s
  BY <1>2, <1>3 DEF PoolOK, InPool
<1>10. \A i, j \in DOMAIN idle' : idle'[i] = idle'[j] => i = j
  <2> SUFFICES ASSUME NEW i \in 1..(Len(idle) + 1), NEW j \in 1..(Len(idle) + 1),
                      idle'[i] = idle'[j]
               PROVE  i = j
    BY <1>3
  <2>1. CASE i \in 1..Len(idle) /\ j \in 1..Len(idle)
    BY <1>3, <2>1 DEF PoolOK
  <2>2. CASE i = Len(idle) + 1 \/ j = Len(idle) + 1
    <3>1. i \in 1..Len(idle) => i # Len(idle) + 1
      BY <1>2
    <3>2. (i = Len(idle) + 1 \/ i \in 1..Len(idle)) /\ (j = Len(idle) + 1 \/ j \in 1..Len(idle))
      BY <1>2
    <3> QED  BY <1>3, <1>9, <2>2, <3>2
  <2>3. (i = Len(idle) + 1 \/ i \in 1..Len(idle)) /\ (j = Len(idle) + 1 \/ j \in 1..Len(idle))
    BY <1>2
  <2> QED  BY <2>1, <2>2, <2>3
<1>11. \A t \in Sockets : InPool(t)' => user'[t] = None /\ socket'[t] \in {"open", "shut"}
  <2>1. socket[s] \in {"open", "shut"}
    BY <1>2 DEF PoolOK
  <2> QED  BY <1>1, <1>8, <2>1 DEF PoolOK
<1>12. \A t \in Sockets : user'[t] # None => socket'[t] \in {"open", "shut"}
  BY <1>1 DEF PoolOK
<1>13. Len(idle') <= MaxIdle
  BY <1>2, <1>3
<1> QED  BY <1>3, <1>5, <1>8, <1>10, <1>11, <1>12, <1>13 DEF PoolOK

(* Taking the most recent one off the pool. *)
LEMMA LastFacts ==
  ASSUME Typed, PoolOK, idle # <<>>, idle' = Front(idle)
  PROVE  /\ Last(idle) \in Sockets /\ idle' \in Seq(Sockets) /\ Len(idle') = Len(idle) - 1
         /\ Len(idle) \in Nat \ {0} /\ DOMAIN idle' = 1..(Len(idle) - 1)
         /\ \A i \in 1..(Len(idle) - 1) : idle'[i] = idle[i]
         /\ InPool(Last(idle)) /\ user[Last(idle)] = None
         /\ \A t \in Sockets : InPool(t)' <=> InPool(t) /\ t # Last(idle)
<1>1. idle \in Seq(Sockets) /\ Len(idle) \in Nat /\ DOMAIN idle = 1..Len(idle)
  BY PoolTypes
<1>2. Len(idle) \in Nat \ {0}
  BY <1>1, EmptySeq
<1>3. Len(idle) \in 1..Len(idle) /\ Len(idle) - 1 \in Nat
  BY <1>2
<1>4. Last(idle) = idle[Len(idle)] /\ Last(idle) \in Sockets /\ InPool(Last(idle))
  BY <1>1, <1>3 DEF Last, InPool
<1>5. /\ idle' \in Seq(Sockets) /\ Len(idle') = Len(idle) - 1
      /\ DOMAIN idle' = 1..(Len(idle) - 1)
      /\ \A i \in 1..(Len(idle) - 1) : idle'[i] = idle[i]
  BY <1>1, <1>2 DEF Front
<1>6. user[Last(idle)] = None
  BY <1>4 DEF PoolOK
<1>7. ASSUME NEW t \in Sockets PROVE InPool(t)' <=> InPool(t) /\ t # Last(idle)
  <2>1. ASSUME NEW i \in 1..(Len(idle) - 1), idle'[i] = t PROVE InPool(t) /\ t # Last(idle)
    <3>1. i \in 1..Len(idle) /\ idle[i] = t /\ i # Len(idle)
      BY <1>2, <1>5, <2>1
    <3>2. idle[i] # idle[Len(idle)]
      BY <1>1, <1>3, <3>1 DEF PoolOK
    <3> QED  BY <1>1, <1>4, <3>1, <3>2 DEF InPool
  <2>2. ASSUME NEW i \in 1..Len(idle), idle[i] = t, t # Last(idle) PROVE InPool(t)'
    <3>1. i # Len(idle)
      BY <1>4, <2>2
    <3>2. i \in 1..(Len(idle) - 1)
      BY <1>2, <3>1
    <3> QED  BY <1>5, <2>2, <3>2 DEF InPool
  <2>3. InPool(t)' => \E i \in 1..(Len(idle) - 1) : idle'[i] = t
    BY <1>5 DEF InPool
  <2>4. InPool(t) => \E i \in 1..Len(idle) : idle[i] = t
    BY <1>1 DEF InPool
  <2> QED  BY <2>1, <2>2, <2>3, <2>4
<1> QED  BY <1>2, <1>4, <1>5, <1>6, <1>7

LEMMA TakeKeepsPool ==
  ASSUME Typed, PoolOK, NEW r \in Requests, idle # <<>>, idle' = Front(idle),
         permits' = permits, user' = [user EXCEPT ![Last(idle)] = r], socket' = socket
  PROVE  PoolOK' /\ permits' \in 0..MaxConns
<1> DEFINE s == Last(idle)
<1>1. /\ s \in Sockets /\ Len(idle') = Len(idle) - 1
      /\ Len(idle) \in Nat \ {0} /\ DOMAIN idle' = 1..(Len(idle) - 1)
      /\ \A i \in 1..(Len(idle) - 1) : idle'[i] = idle[i]
      /\ user[s] = None
      /\ \A t \in Sockets : InPool(t)' <=> InPool(t) /\ t # s
  BY LastFacts
<1>2. /\ Cardinality(InUse') = Cardinality(InUse) + 1 /\ Cardinality(InUse) \in Nat
      /\ user'[s] = r /\ \A t \in Sockets \ {s} : user'[t] = user[t]
  BY <1>1, UserComes
<1> HIDE DEF s
<1>3. permits \in Nat /\ MaxConns \in Nat /\ MaxIdle \in Nat /\ DOMAIN idle = 1..Len(idle)
  BY PoolTypes
<1>4. (permits + Len(idle)) + Cardinality(InUse) = MaxConns
  BY <1>1, <1>2, <1>3 DEF PoolOK, PermitsAddUp
<1>5. (permits + Len(idle')) + Cardinality(InUse') = MaxConns
  BY <1>1, <1>2, <1>3, <1>4
<1>10. PermitsAddUp'
  BY <1>1, <1>2, <1>3, <1>5 DEF PermitsAddUp
<1>11. permits' \in 0..MaxConns
  BY <1>1, <1>2, <1>3, <1>4
<1>6. \A i, j \in DOMAIN idle' : idle'[i] = idle'[j] => i = j
  BY <1>1, <1>3 DEF PoolOK
<1>7. \A t \in Sockets : InPool(t)' => user'[t] = None /\ socket'[t] \in {"open", "shut"}
  BY <1>1, <1>2 DEF PoolOK
<1>12. InPool(s)
  BY LastFacts DEF s
<1>8. \A t \in Sockets : user'[t] # None => socket'[t] \in {"open", "shut"}
  BY <1>1, <1>2, <1>12 DEF PoolOK
<1>9. Len(idle') <= MaxIdle
  BY <1>1, <1>3 DEF PoolOK
<1> QED  BY <1>10, <1>11, <1>6, <1>7, <1>8, <1>9 DEF PoolOK

LEMMA LoseKeepsPool ==
  ASSUME Typed, PoolOK, idle # <<>>, idle' = Front(idle),
         permits' = permits + 1, user' = [user EXCEPT ![Last(idle)] = None], socket' = socket
  PROVE  PoolOK' /\ permits' \in 0..MaxConns /\ user' = user
<1>1. /\ Last(idle) \in Sockets /\ Len(idle') = Len(idle) - 1
      /\ Len(idle) \in Nat \ {0} /\ DOMAIN idle' = 1..(Len(idle) - 1)
      /\ \A i \in 1..(Len(idle) - 1) : idle'[i] = idle[i]
      /\ user[Last(idle)] = None
      /\ \A t \in Sockets : InPool(t)' <=> InPool(t) /\ t # Last(idle)
  BY LastFacts
<1>2. user' = user
  BY <1>1, PoolTypes
<1>3. InUse' = InUse /\ Cardinality(InUse) \in Nat
  BY <1>2, InUseIsFinite DEF InUse
<1>4. permits \in Nat /\ MaxConns \in Nat /\ MaxIdle \in Nat /\ DOMAIN idle = 1..Len(idle)
  BY PoolTypes
<1>5. (permits + Len(idle)) + Cardinality(InUse) = MaxConns
  BY <1>1, <1>3, <1>4 DEF PoolOK, PermitsAddUp
<1>6. PermitsAddUp' /\ permits' \in 0..MaxConns
  BY <1>1, <1>3, <1>4, <1>5 DEF PermitsAddUp
<1>7. \A i, j \in DOMAIN idle' : idle'[i] = idle'[j] => i = j
  BY <1>1, <1>4 DEF PoolOK
<1>8. Len(idle') <= MaxIdle
  BY <1>1, <1>4 DEF PoolOK
<1> QED  BY <1>1, <1>2, <1>6, <1>7, <1>8 DEF PoolOK

LEMMA OpenKeepsPool ==
  ASSUME Typed, PoolOK, NEW r \in Requests, NEW s \in Sockets, socket[s] = "unused",
         permits > 0, permits' = permits - 1, idle' = idle, user' = [user EXCEPT ![s] = r],
         socket' = [socket EXCEPT ![s] = "open"]
  PROVE  PoolOK' /\ permits' \in 0..MaxConns /\ user[s] = None /\ ~InPool(s)
<1>1. user[s] = None /\ ~InPool(s)
  BY DEF PoolOK
<1>2. /\ Cardinality(InUse') = Cardinality(InUse) + 1 /\ Cardinality(InUse) \in Nat
      /\ user'[s] = r /\ \A t \in Sockets \ {s} : user'[t] = user[t]
  BY <1>1, UserComes
<1>3. permits \in Nat /\ MaxConns \in Nat /\ Len(idle) \in Nat
  BY PoolTypes
<1>4. (permits + Len(idle)) + Cardinality(InUse) = MaxConns
  BY <1>2, <1>3 DEF PoolOK, PermitsAddUp
<1>5. PermitsAddUp' /\ permits' \in 0..MaxConns
  BY <1>2, <1>3, <1>4 DEF PermitsAddUp
<1>6. socket'[s] = "open" /\ \A t \in Sockets \ {s} : socket'[t] = socket[t]
  BY PoolTypes
<1>7. \A t \in Sockets : InPool(t)' <=> InPool(t)
  BY DEF InPool
<1> QED  BY <1>1, <1>2, <1>5, <1>6, <1>7 DEF PoolOK

(* Steps that leave the pool alone. *)
LEMMA PoolStays ==
  ASSUME PoolOK, user' = user, idle' = idle, permits' = permits,
         \A t \in Sockets : (user[t] # None \/ InPool(t)) /\ socket[t] \in {"open", "shut"}
                              => socket'[t] \in {"open", "shut"}
  PROVE  PoolOK'
BY DEF PoolOK, PermitsAddUp, InUse, InPool

LEMMA HoldingEnds ==
  ASSUME Typed, Holding, NEW r \in Requests, NEW s \in Sockets, user[s] = r,
         user' = [user EXCEPT ![s] = None], pc' = [pc EXCEPT ![r] = "over"]
  PROVE  Holding'
<1>1. user'[s] = None /\ \A t \in Sockets \ {s} : user'[t] = user[t]
  BY PoolTypes
<1>2. pc'[r] = "over" /\ \A x \in Requests \ {r} : pc'[x] = pc[x]
  BY PoolTypes
<1>3. \A t \in Sockets : user[t] \in Requests \cup {None} /\ None \notin Requests
  BY PoolTypes
<1>4. \A t \in Sockets \ {s} : user[t] # r
  BY <1>3 DEF Holding
<1>5. \A t \in Sockets : user'[t] # None => pc'[user'[t]] \in Active
  BY <1>1, <1>2, <1>3, <1>4 DEF Holding
<1>6. \A x \in Requests : pc'[x] \in Active => \E t \in Sockets : user'[t] = x
  BY <1>1, <1>2 DEF Holding, Active
<1>7. \A t, u \in Sockets : user'[t] # None /\ user'[t] = user'[u] => t = u
  BY <1>1 DEF Holding
<1> QED  BY <1>5, <1>6, <1>7 DEF Holding

LEMMA HoldingBegins ==
  ASSUME Typed, Holding, NEW r \in Requests, NEW s \in Sockets, user[s] = None,
         pc[r] \notin Active, user' = [user EXCEPT ![s] = r], pc' = [pc EXCEPT ![r] = "hello"]
  PROVE  Holding'
<1>1. user'[s] = r /\ \A t \in Sockets \ {s} : user'[t] = user[t]
  BY PoolTypes
<1>2. pc'[r] = "hello" /\ \A x \in Requests \ {r} : pc'[x] = pc[x]
  BY PoolTypes
<1>3. \A t \in Sockets : user[t] \in Requests \cup {None} /\ None \notin Requests
  BY PoolTypes
<1>4. \A t \in Sockets : user[t] # r
  BY <1>3 DEF Holding
<1>5. \A t \in Sockets : user'[t] # None => pc'[user'[t]] \in Active
  BY <1>1, <1>2, <1>3, <1>4 DEF Holding, Active
<1>6. \A x \in Requests : pc'[x] \in Active => \E t \in Sockets : user'[t] = x
  <2>1. \A x \in Requests \ {r} : pc'[x] \in Active => \E t \in Sockets \ {s} : user[t] = x
    BY <1>2, <1>3 DEF Holding
  <2> QED  BY <1>1, <2>1
<1>7. \A t, u \in Sockets : user'[t] # None /\ user'[t] = user'[u] => t = u
  BY <1>1, <1>4 DEF Holding
<1> QED  BY <1>5, <1>6, <1>7 DEF Holding

(* Handlers that go from place to place without a change of connection. *)
LEMMA HoldingStays ==
  ASSUME Typed, Holding, user' = user,
         \A x \in Requests : pc'[x] \in Active <=> pc[x] \in Active
  PROVE  Holding'
<1>1. \A t \in Sockets : user[t] \in Requests \cup {None}
  BY PoolTypes
<1> QED  BY <1>1 DEF Holding
-------------------------------------------------------------------------------
(* What a step of one request and one connection does to the invariant.    *)

LEMMA WiresSame ==
  ASSUME Typed, Typed', NEW t \in Sockets, Wires(t),
         up'[t] = up[t], answer'[t] = answer[t], down'[t] = down[t],
         InPool(t)' => InPool(t), socket'[t] = "unused" => socket[t] = "unused",
         user'[t] # user[t] => user'[t] = None /\ pc'[user[t]] = "over",
         \A x \in Requests : pc[x] = "over" => pc'[x] = "over",
         \A f \in Elements(up[t]) : run[f.of] = "none" => run'[f.of] = "none"
  PROVE  Wires(t)'
<1>1. Under(t)' = Under(t)
  BY DEF Under
<1>2. Elements(up[t])' = Elements(up[t]) /\ Len(up'[t]) <= 1
  BY DEF Wires
<1>3. InPool(t)' \/ socket'[t] = "unused" => AtRest(t)'
  BY DEF Wires, AtRest
<1> QED  BY <1>1, <1>2, <1>3, WiresStay

LEMMA SingleGrows ==
  ASSUME Typed, Single, \A t \in Sockets : Wires(t), NEW r \in Requests, NEW s \in Sockets,
         pc[r] # "over",
         \A t \in Sockets \ {s} : user[t] # r /\ Elements(up[t])' = Elements(up[t]),
         \A f \in Elements(up[s])' : f \in Elements(up[s]) \/ f.of = r
  PROVE  Single'
<1>1. ASSUME NEW t \in Sockets \ {s}, NEW g \in Elements(up[t]) PROVE g.of # r
  <2>1. g \in Under(t)
    BY DEF Under
  <2>2. OfUser(t, g)
    BY <2>1 DEF Wires
  <2> QED  BY <2>2 DEF OfUser
<1>2. ASSUME NEW t \in Sockets, NEW u \in Sockets,
             NEW f \in Elements(up[t])', NEW g \in Elements(up[u])', f.of = g.of
      PROVE  t = u
  <2>1. CASE t # s /\ u # s
    BY <1>2, <2>1 DEF Single
  <2>2. CASE t = s /\ u # s
    <3>1. g \in Elements(up[u]) /\ g.of # r
      BY <1>1, <2>2
    <3>2. f \in Elements(up[s])
      BY <1>2, <2>2, <3>1
    <3> QED  BY <1>2, <2>2, <3>1, <3>2 DEF Single
  <2>3. CASE t # s /\ u = s
    <3>1. f \in Elements(up[t]) /\ f.of # r
      BY <1>1, <2>3
    <3>2. g \in Elements(up[s])
      BY <1>2, <2>3, <3>1
    <3> QED  BY <1>2, <2>3, <3>1, <3>2 DEF Single
  <2> QED  BY <2>1, <2>2, <2>3
<1> QED  BY <1>2 DEF Single

(* A handler without a connection waits or ends. *)
LEMMA MoveKeeps ==
  ASSUME PoolIInv, Typed', NEW r \in Requests, pc[r] \in {"new", "waiting"},
         NEW w \in {"waiting", "over"}, pc' = [pc EXCEPT ![r] = w],
         kind' = kind, held' = held, streamed' = streamed,
         UNCHANGED <<user, idle, permits, up, down, socket, answer, run, sink, events>>
  PROVE  PoolIInv'
<1>1. /\ Typed /\ PoolOK /\ Holding /\ Single
      /\ \A t \in Sockets : Wires(t) /\ Exchanges(t)
      /\ \A x \in Requests : Sinks(x) /\ Begun(x) /\ Gapless(x)
  BY DEF PoolIInv
<1>2. pc'[r] = w /\ \A x \in Requests \ {r} : pc'[x] = pc[x]
  BY <1>1, PoolTypes
<1>3. \A x \in Requests : /\ pc[x] = "over" => pc'[x] = "over"
                          /\ pc'[x] \in Active <=> pc[x] \in Active
  BY <1>2 DEF Active
<1>4. \A t \in Sockets : InPool(t)' <=> InPool(t)
  BY DEF InPool
<1>5. PoolOK' /\ Holding' /\ Single'
  BY <1>1, <1>3, PoolStays, HoldingStays, SingleStays
<1>6. \A t \in Sockets : Wires(t)'
  BY <1>1, <1>3, <1>4, WiresSame
<1>7. \A t \in Sockets : user[t] # r
  BY <1>1, PoolTypes DEF Holding, Active
<1>8. ASSUME NEW t \in Sockets PROVE Exchanges(t)'
  <2>1. \A x \in Requests : user[t] = x => pc'[x] = pc[x] /\ (Live(x, t)' => Live(x, t))
    BY <1>2, <1>7 DEF Live
  <2> QED  BY <1>1, <2>1, ExchangeStays
<1>9. ASSUME NEW x \in Requests PROVE Sinks(x)'
  BY <1>1, <1>3, <1>4 DEF Sinks, Dropped
<1>10. ASSUME NEW x \in Requests PROVE Begun(x)' /\ Gapless(x)'
  <2>1. CASE x # r
    BY <1>1, <1>2, <2>1, BegunStays, GaplessStays
  <2>2. CASE x = r
    BY <1>1, <1>2, <2>2 DEF Begun, Gapless
  <2> QED  BY <2>1, <2>2
<1> QED  BY <1>5, <1>6, <1>8, <1>9, <1>10 DEF PoolIInv

(* An idle connection that looks dead is dropped. *)
LEMMA LoseKeeps ==
  ASSUME PoolIInv, Typed', idle # <<>>, idle' = Front(idle), permits' = permits + 1,
         user' = [user EXCEPT ![Last(idle)] = None],
         UNCHANGED <<kind, pc, held, streamed, up, down, socket, answer, run, sink, events>>
  PROVE  PoolIInv'
<1>1. /\ Typed /\ PoolOK /\ Holding /\ Single
      /\ \A t \in Sockets : Wires(t) /\ Exchanges(t)
      /\ \A x \in Requests : Sinks(x) /\ Begun(x) /\ Gapless(x)
  BY DEF PoolIInv
<1>2. PoolOK' /\ user' = user
  BY <1>1, LoseKeepsPool
<1>3. \A t \in Sockets : InPool(t)' => InPool(t)
  BY <1>1, LastFacts
<1>4. Holding' /\ Single'
  BY <1>1, <1>2, HoldingStays, SingleStays
<1>5. \A t \in Sockets : Wires(t)'
  BY <1>1, <1>2, <1>3, WiresSame
<1>6. ASSUME NEW t \in Sockets PROVE Exchanges(t)'
  <2>1. \A x \in Requests : Live(x, t)' => Live(x, t)
    BY DEF Live
  <2> QED  BY <1>1, <1>2, <2>1, ExchangeStays
<1>7. ASSUME NEW x \in Requests PROVE Sinks(x)' /\ Begun(x)' /\ Gapless(x)'
  <2>1. Sinks(x)'
    BY <1>1, <1>2, <1>3 DEF Sinks, Dropped
  <2> QED  BY <1>1, <2>1, BegunStays, GaplessStays
<1> QED  BY <1>2, <1>4, <1>5, <1>6, <1>7 DEF PoolIInv

(* A handler begins with a connection at rest, idle until now or new. *)
LEMMA BeginKeeps ==
  ASSUME PoolIInv, Typed', PoolOK', NEW r \in Requests, pc[r] \in {"new", "waiting"},
         NEW s \in Sockets, user[s] = None, InPool(s) \/ socket[s] = "unused", ~InPool(s)',
         \A t \in Sockets : InPool(t)' => InPool(t),
         user' = [user EXCEPT ![s] = r], pc' = [pc EXCEPT ![r] = "hello"],
         up' = [up EXCEPT ![s] = Append(@, Hello(r))],
         socket'[s] # "unused", \A t \in Sockets \ {s} : socket'[t] = socket[t],
         UNCHANGED <<kind, held, streamed, down, answer, run, sink, events>>
  PROVE  PoolIInv'
<1>1. /\ Typed /\ PoolOK /\ Holding /\ Single
      /\ \A t \in Sockets : Wires(t) /\ Exchanges(t)
      /\ \A x \in Requests : Sinks(x) /\ Begun(x) /\ Gapless(x)
  BY DEF PoolIInv
<1>2. pc'[r] = "hello" /\ \A x \in Requests \ {r} : pc'[x] = pc[x]
  BY <1>1, PoolTypes
<1>3. user'[s] = r /\ \A t \in Sockets \ {s} : user'[t] = user[t]
  BY <1>1, PoolTypes
<1>4. AtRest(s)
  BY <1>1 DEF Wires
<1>5. up'[s] = <<Hello(r)>> /\ \A t \in Sockets \ {s} : up'[t] = up[t]
  <2>1. up[s] = <<>>
    BY <1>4 DEF AtRest
  <2>2. up \in [Sockets -> Seq(Frames)]
    BY <1>1, PoolTypes
  <2>3. Append(<<>>, Hello(r)) = <<Hello(r)>>
    OBVIOUS
  <2> QED  BY <2>1, <2>2, <2>3
<1>6. \A x \in Requests : pc[x] = "over" => pc'[x] = "over"
  BY <1>2
<1>7. \A t \in Sockets : user[t] # r
  BY <1>1, PoolTypes DEF Holding, Active
<1>8. Holding'
  BY <1>1, HoldingBegins DEF Active
<1>9. Elements(up[s])' = {Hello(r)} /\ Hello(r).of = r /\ Hello(r).type = "hello"
  <2>1. Elements(<<Hello(r)>>) = {Hello(r)}
    BY ElementsOfOne
  <2>2. Elements(up[s])' = {Hello(r)}
    BY <1>5, <2>1 DEF Elements
  <2> QED  BY <1>1, <2>2, FrameFacts
<1>10. Single'
  <2>1. \A t \in Sockets \ {s} : user[t] # r /\ Elements(up[t])' = Elements(up[t])
    BY <1>5, <1>7
  <2> QED  BY <1>1, <1>9, <2>1, SingleGrows
<1>11. ASSUME NEW t \in Sockets PROVE Wires(t)'
  <2>1. CASE t # s
    BY <1>1, <1>3, <1>5, <1>6, <2>1, WiresSame
  <2>2. CASE t = s
    <3>1. Under(s)' = {Hello(r)}
      BY <1>4, <1>9, ElementsOfNone DEF AtRest, Under
    <3>2. Len(up'[s]) <= 1
      <4>1. \A u : u = <<Hello(r)>> => Len(u) <= 1
        OBVIOUS
      <4> QED  BY <1>5, <4>1, Zenon
    <3> QED  BY <1>3, <1>9, <2>2, <3>1, <3>2 DEF Wires, OfUser
  <2> QED  BY <2>1, <2>2
<1>12. ASSUME NEW t \in Sockets PROVE Exchanges(t)'
  <2>1. CASE t # s
    <3>1. \A x \in Requests : user[t] = x => pc'[x] = pc[x] /\ (Live(x, t)' => Live(x, t))
      BY <1>2, <1>7, <2>1 DEF Live
    <3> QED  BY <1>1, <1>3, <1>5, <2>1, <3>1, ExchangeStays
  <2>2. CASE t = s
    <3>1. down'[s] = <<>> /\ answer'[s] = <<>> /\ Len(<<>>) = 0
      BY <1>4 DEF AtRest
    <3>2. ~Live(r, s)'
      BY <1>1 DEF Begun, Live
    <3>3. Numbered(<<>>, 0, 0) /\ Total(0, 0, 0) = 0 /\ events[r] \in Nat
      BY <1>1, PoolTypes DEF Numbered, Total
    <3>4. up'[s][1] = Asked(r)'
      BY <1>2, <1>5 DEF Asked, Hello
    <3>5. Seen(r, 0)'
      BY <1>2 DEF Seen
    <3>6. Exchange(r, s, 0, 0)'
      BY <1>2, <3>1, <3>2, <3>3, <3>4, <3>5, ElementsOfNone DEF Exchange
    <3>7. 0 \in Nat /\ 0 \in 0..Len(down'[s])
      BY <3>1
    <3>8. \A x \in Requests : user'[s] = x => x = r
      BY <1>3
    <3> QED  BY <2>2, <3>6, <3>7, <3>8 DEF Exchanges
  <2> QED  BY <2>1, <2>2
<1>13. ASSUME NEW x \in Requests PROVE Sinks(x)'
  <2>1. 0 \notin Sockets
    BY <1>1, PoolTypes
  <2>2. \A t \in Sockets : user[t] = x => user'[t] = x
    BY <1>1, <1>3, PoolTypes
  <2>3. \A t \in Sockets : socket[t] # "unused" /\ Dropped(t) => Dropped(t)'
    BY <1>3 DEF Dropped
  <2>4. \A t \in Sockets : socket[t] # "unused" => socket'[t] # "unused"
    OBVIOUS
  <2> QED  BY <1>1, <1>6, <2>1, <2>2, <2>3, <2>4, SinkStays
<1>14. ASSUME NEW x \in Requests PROVE Begun(x)' /\ Gapless(x)'
  <2>1. CASE x # r
    BY <1>1, <1>2, <2>1, BegunStays, GaplessStays
  <2>2. CASE x = r
    BY <1>1, <1>2, <2>2 DEF Begun, Gapless
  <2> QED  BY <2>1, <2>2
<1> QED  BY <1>8, <1>10, <1>11, <1>12, <1>13, <1>14 DEF PoolIInv

(* A handler ends and its connection is dropped, or idle, and then at rest. *)
LEMMA EndKeeps ==
  ASSUME PoolIInv, Typed', PoolOK', NEW r \in Requests, NEW s \in Sockets, user[s] = r,
         user' = [user EXCEPT ![s] = None], pc' = [pc EXCEPT ![r] = "over"],
         \A t \in Sockets \ {s} : InPool(t)' <=> InPool(t),
         InPool(s)' => AtRest(s)' /\ (sink[r] = s => run[r] = "over"),
         \A t \in Sockets \ {s} : down'[t] = down[t],
         Elements(down[s])' \subseteq Elements(down[s]),
         \A x \in Requests \ {r} : held'[x] = held[x] /\ streamed'[x] = streamed[x],
         Gapless(r)',
         UNCHANGED <<kind, up, socket, answer, run, sink, events>>
  PROVE  PoolIInv'
<1>1. /\ Typed /\ PoolOK /\ Holding /\ Single
      /\ \A t \in Sockets : Wires(t) /\ Exchanges(t)
      /\ \A x \in Requests : Sinks(x) /\ Begun(x) /\ Gapless(x)
  BY DEF PoolIInv
<1>2. pc'[r] = "over" /\ \A x \in Requests \ {r} : pc'[x] = pc[x]
  BY <1>1, PoolTypes
<1>3. user'[s] = None /\ \A t \in Sockets \ {s} : user'[t] = user[t]
  BY <1>1, PoolTypes
<1>4. \A x \in Requests : pc[x] = "over" => pc'[x] = "over"
  BY <1>2
<1>5. Holding' /\ Single'
  BY <1>1, HoldingEnds, SingleStays
<1>6. None \notin Requests /\ 0 \notin Sockets
  BY <1>1, PoolTypes
<1>7. \A t \in Sockets \ {s} : user[t] # r
  BY <1>1, <1>6 DEF Holding
<1>8. pc[r] \in Active /\ socket[s] # "unused"
  BY <1>1, <1>6 DEF Holding, PoolOK
<1>9. ASSUME NEW t \in Sockets PROVE Wires(t)'
  <2>1. CASE t # s
    BY <1>1, <1>3, <1>4, <2>1, WiresSame
  <2>2. CASE t = s
    <3>1. Under(s)' \subseteq Under(s) /\ Elements(up[s])' \subseteq Elements(up[s])
      BY DEF Under
    <3>2. Len(up'[s]) <= 1 /\ socket'[s] # "unused"
      BY <1>1, <1>8 DEF Wires
    <3> QED  BY <1>1, <1>2, <1>3, <1>4, <2>2, <3>1, <3>2, WiresStay
  <2> QED  BY <2>1, <2>2
<1>10. ASSUME NEW t \in Sockets PROVE Exchanges(t)'
  <2>1. CASE t # s
    <3>1. \A x \in Requests : user[t] = x => /\ pc'[x] = pc[x] /\ (Live(x, t)' => Live(x, t))
                                             /\ held'[x] = held[x] /\ streamed'[x] = streamed[x]
      BY <1>2, <1>7, <2>1 DEF Live
    <3> QED  BY <1>1, <1>3, <2>1, <3>1, ExchangeStays
  <2>2. CASE t = s
    BY <1>3, <1>6, <2>2 DEF Exchanges
  <2> QED  BY <2>1, <2>2
<1>11. ASSUME NEW x \in Requests PROVE Sinks(x)'
  <2>1. CASE x = r
    <3> SUFFICES ASSUME NEW t \in Sockets, sink'[r] = t
                 PROVE  socket'[t] # "unused" /\ (run'[r] = "over" \/ Dropped(t)')
      BY <1>2, <2>1 DEF Sinks
    <3>1. sink[r] = t /\ pc[r] # "over"
      BY <1>8 DEF Active
    <3>2. socket[t] # "unused" /\ user[t] = r
      BY <1>1, <3>1 DEF Sinks
    <3>3. t = s
      BY <1>7, <3>2
    <3> QED  BY <1>3, <3>1, <3>2, <3>3 DEF Dropped
  <2>2. CASE x # r
    <3>1. \A t \in Sockets : user[t] = x => user'[t] = x
      BY <1>3, <2>2
    <3>2. \A t \in Sockets : Dropped(t) => Dropped(t)'
      BY <1>3, <1>6 DEF Dropped
    <3> QED  BY <1>1, <1>4, <1>6, <3>1, <3>2, SinkStays
  <2> QED  BY <2>1, <2>2
<1>12. ASSUME NEW x \in Requests PROVE Begun(x)' /\ Gapless(x)'
  <2>1. CASE x # r
    BY <1>1, <1>2, <2>1, BegunStays, GaplessStays
  <2>2. CASE x = r
    BY <1>1, <1>2, <2>2 DEF Begun
  <2> QED  BY <2>1, <2>2
<1> QED  BY <1>5, <1>9, <1>10, <1>11, <1>12 DEF PoolIInv

(* A handler reads a frame and goes on. *)
LEMMA StayKeeps ==
  ASSUME PoolIInv, Typed', NEW r \in Requests, NEW s \in Sockets, user[s] = r,
         pc'[r] \in Active, \A x \in Requests \ {r} : pc'[x] = pc[x],
         \A t \in Sockets \ {s} : down'[t] = down[t] /\ up'[t] = up[t],
         Elements(down[s])' \subseteq Elements(down[s]),
         up'[s] = up[s] \/ (up'[s] = <<Ask(r)>> /\ run[r] = "none"),
         \A x \in Requests \ {r} : held'[x] = held[x] /\ streamed'[x] = streamed[x],
         Begun(r)', Gapless(r)', \E b \in Nat, q \in 0..Len(down'[s]) : Exchange(r, s, b, q)',
         UNCHANGED <<kind, user, idle, permits, socket, answer, run, sink, events>>
  PROVE  PoolIInv'
<1>1. /\ Typed /\ PoolOK /\ Holding /\ Single
      /\ \A t \in Sockets : Wires(t) /\ Exchanges(t)
      /\ \A x \in Requests : Sinks(x) /\ Begun(x) /\ Gapless(x)
  BY DEF PoolIInv
<1>2. None \notin Requests /\ 0 \notin Sockets
  BY <1>1, PoolTypes
<1>3. pc[r] \in Active /\ socket[s] # "unused"
  BY <1>1, <1>2 DEF Holding, PoolOK
<1>4. \A x \in Requests : pc[x] = "over" => pc'[x] = "over"
  BY <1>3 DEF Active
<1>5. PoolOK' /\ Holding'
  BY <1>1, <1>3, PoolStays, HoldingStays
<1>6. \A t \in Sockets \ {s} : user[t] # r
  BY <1>1, <1>2 DEF Holding
<1>7. \A t \in Sockets : InPool(t)' <=> InPool(t)
  BY DEF InPool
<1>8. /\ up'[s] = up[s] \/ (Elements(up[s])' = {Ask(r)} /\ Len(up'[s]) = 1 /\ run[r] = "none")
      /\ Ask(r).of = r /\ Ask(r).type = "request"
  <2>1. Elements(<<Ask(r)>>) = {Ask(r)} /\ Len(<<Ask(r)>>) = 1
    BY ElementsOfOne
  <2>2. up'[s] = <<Ask(r)>> => Elements(up[s])' = {Ask(r)} /\ Len(up'[s]) = 1
    BY <2>1 DEF Elements
  <2> QED  BY <1>1, <2>2, FrameFacts
<1>9. Single'
  <2>1. \A t \in Sockets \ {s} : user[t] # r /\ Elements(up[t])' = Elements(up[t])
    BY <1>6
  <2>2. \A f \in Elements(up[s])' : f \in Elements(up[s]) \/ f.of = r
    BY <1>8
  <2>3. pc[r] # "over"
    BY <1>3 DEF Active
  <2> QED  BY <1>1, <2>1, <2>2, <2>3, SingleGrows
<1>10. ASSUME NEW t \in Sockets PROVE Wires(t)'
  <2>1. CASE t # s
    BY <1>1, <1>4, <1>7, <2>1, WiresSame
  <2>2. CASE t = s
    <3>1. CASE up'[s] = up[s]
      <4>1. Under(s)' \subseteq Under(s) /\ Elements(up[s])' \subseteq Elements(up[s])
        BY <3>1 DEF Under
      <4>2. Len(up'[s]) <= 1 /\ ~InPool(s)'
        BY <1>1, <1>2, <1>7, <3>1 DEF Wires, PoolOK
      <4> QED  BY <1>1, <1>3, <1>4, <2>2, <4>1, <4>2, WiresStay
    <3>2. CASE Elements(up[s])' = {Ask(r)} /\ Len(up'[s]) = 1 /\ run[r] = "none"
      <4>1. \A f \in Under(s)' : f \in Under(s) \/ f = Ask(r)
        BY <3>2 DEF Under
      <4>2. \A f \in Under(s) : f.of = r
        BY <1>1, <1>2 DEF Wires, OfUser
      <4>3. \A f \in Under(s)' : f.of = r
        BY <1>8, <4>1, <4>2
      <4>4. ~InPool(s)' /\ socket'[s] # "unused" /\ user'[s] = r
        BY <1>1, <1>2, <1>3, <1>7 DEF PoolOK
      <4> QED  BY <1>8, <2>2, <3>2, <4>3, <4>4 DEF Wires, OfUser
    <3> QED  BY <1>8, <3>1, <3>2
  <2> QED  BY <2>1, <2>2
<1>11. ASSUME NEW t \in Sockets PROVE Exchanges(t)'
  <2>1. CASE t # s
    <3>1. \A x \in Requests : user[t] = x => /\ pc'[x] = pc[x] /\ (Live(x, t)' => Live(x, t))
                                             /\ held'[x] = held[x] /\ streamed'[x] = streamed[x]
      BY <1>6, <2>1 DEF Live
    <3> QED  BY <1>1, <2>1, <3>1, ExchangeStays
  <2>2. CASE t = s
    <3>1. \A x \in Requests : user'[s] = x => x = r
      OBVIOUS
    <3> QED  BY <2>2, <3>1 DEF Exchanges
  <2> QED  BY <2>1, <2>2
<1>12. ASSUME NEW x \in Requests PROVE Sinks(x)'
  <2>1. \A t \in Sockets : Dropped(t) => Dropped(t)'
    BY <1>7 DEF Dropped
  <2> QED  BY <1>1, <1>2, <1>4, <2>1, SinkStays
<1>13. ASSUME NEW x \in Requests PROVE Begun(x)' /\ Gapless(x)'
  <2>1. CASE x # r
    BY <1>1, <2>1, BegunStays, GaplessStays
  <2>2. CASE x = r
    BY <2>2
  <2> QED  BY <2>1, <2>2
<1> QED  BY <1>5, <1>9, <1>10, <1>11, <1>12, <1>13 DEF PoolIInv
-------------------------------------------------------------------------------
(* Handlers.                                                               *)

LEMMA GivesBack ==
  ASSUME Typed, PoolOK, NEW r \in Requests, NEW s \in Sockets, user[s] = r,
         Release(s) \/ (Drop(s) /\ idle' = idle), socket' = socket
  PROVE  /\ PoolOK' /\ user' = [user EXCEPT ![s] = None] /\ permits' \in 0..MaxConns
         /\ user' \in [Sockets -> Requests \cup {None}] /\ idle' \in Seq(Sockets)
         /\ writer' \in [Sockets -> BOOLEAN]
         /\ \A t \in Sockets \ {s} : InPool(t)' <=> InPool(t)
         /\ idle' = idle => ~InPool(s)'
<1>1. user' = [user EXCEPT ![s] = None]
  BY DEF Release, Drop
<1>2. user' \in [Sockets -> Requests \cup {None}]
  BY <1>1, PoolTypes
<1>3. idle \in Seq(Sockets) /\ writer \in [Sockets -> BOOLEAN] /\ None \notin Requests
  BY PoolTypes
<1>4. ~InPool(s)
  BY <1>3 DEF PoolOK
<1>5. idle' = idle => ~InPool(s)'
  BY <1>4 DEF InPool
<1>6. CASE Drop(s) /\ idle' = idle
  <2>1. PoolOK' /\ permits' \in 0..MaxConns
    BY <1>1, <1>6, DropKeepsPool DEF Drop
  <2>2. writer' \in [Sockets -> BOOLEAN]
    BY <1>3, <1>6 DEF Drop
  <2>3. \A t \in Sockets \ {s} : InPool(t)' <=> InPool(t)
    BY <1>6 DEF InPool
  <2> QED  BY <1>1, <1>2, <1>3, <1>5, <1>6, <2>1, <2>2, <2>3
<1>7. CASE Release(s) /\ Healthy(s) /\ Len(idle) < MaxIdle
  <2>1. permits' = permits /\ idle' = Append(idle, s) /\ writer' = writer
    BY <1>7 DEF Release
  <2> QED  BY <1>1, <1>2, <1>3, <1>5, <1>7, <2>1, ReturnKeepsPool
<1> QED  BY <1>6, <1>7 DEF Release

LEMMA RequestEnds ==
  ASSUME PoolIInv, NEW r \in Requests, NEW s \in Sockets, user[s] = r,
         NEW how \in {"ok", "failed", "left"}, Ended(r, how),
         \/ Drop(s) /\ idle' = idle
         \/ Release(s) /\ AtRest(s)' /\ (sink[r] = s => run[r] = "over"),
         down' \in [Sockets -> Seq(Frames)], \A t \in Sockets \ {s} : down'[t] = down[t],
         Elements(down[s])' \subseteq Elements(down[s]),
         held' \in [Requests -> Seq(Frames)], streamed' \in [Requests -> Seq(1..MaxEvents)],
         \A x \in Requests \ {r} : held'[x] = held[x] /\ streamed'[x] = streamed[x],
         Gapless(r)',
         UNCHANGED <<kind, up, socket, answer, run, sink, events, restarts>>
  PROVE  PoolIInv'
<1>1. Typed /\ PoolOK
  BY DEF PoolIInv
<1>2. Release(s) \/ (Drop(s) /\ idle' = idle)
  OBVIOUS
<1>3. /\ PoolOK' /\ user' = [user EXCEPT ![s] = None] /\ permits' \in 0..MaxConns
      /\ user' \in [Sockets -> Requests \cup {None}] /\ idle' \in Seq(Sockets)
      /\ writer' \in [Sockets -> BOOLEAN]
      /\ \A t \in Sockets \ {s} : InPool(t)' <=> InPool(t)
      /\ idle' = idle => ~InPool(s)'
  BY <1>1, <1>2, GivesBack
<1>4. pc' = [pc EXCEPT ![r] = "over"] /\ outcome' = [outcome EXCEPT ![r] = how]
  BY DEF Ended, Goto
<1>5. /\ pc' \in [Requests -> {"new", "waiting", "hello", "sent", "streaming", "over"}]
      /\ outcome' \in [Requests -> {"none", "ok", "busy", "failed", "left"}]
  BY <1>1, <1>4 DEF Typed, TypeOK
<1>6. Typed'
  BY <1>1, <1>3, <1>5 DEF Typed, TypeOK
<1>7. InPool(s)' => AtRest(s)' /\ (sink[r] = s => run[r] = "over")
  BY <1>3
<1> QED  BY <1>3, <1>4, <1>6, <1>7, EndKeeps

LEMMA ReadFacts ==
  ASSUME Typed, NEW s \in Sockets, down[s] # <<>>, Read(s)
  PROVE  /\ down' \in [Sockets -> Seq(Frames)] /\ \A t \in Sockets \ {s} : down'[t] = down[t]
         /\ down'[s] = Tail(down[s]) /\ Elements(down[s])' \subseteq Elements(down[s])
         /\ down[s] \in Seq(Frames) /\ Head1(s) = Head(down[s]) /\ Head1(s) \in Frames
         /\ Head1(s) \in Elements(down[s]) /\ Head1(s) \in Under(s)
<1>1. down \in [Sockets -> Seq(Frames)]
  BY PoolTypes
<1>2. down[s] \in Seq(Frames)
  BY <1>1
<1>3. /\ Tail(down[s]) \in Seq(Frames) /\ Head(down[s]) \in Frames
      /\ Elements(down[s]) = Elements(Tail(down[s])) \cup {Head(down[s])}
  BY <1>2, TailFacts
<1>4. down'[s] = Tail(down[s]) /\ \A t \in Sockets \ {s} : down'[t] = down[t]
  BY <1>1 DEF Read
<1>5. down' \in [Sockets -> Seq(Frames)]
  BY <1>1, <1>3 DEF Read
<1>6. Elements(down[s])' = Elements(Tail(down[s]))
  BY <1>4 DEF Elements
<1> QED  BY <1>2, <1>3, <1>4, <1>5, <1>6 DEF Head1, Under

LEMMA MovesKeep ==
  ASSUME PoolIInv, NEW r \in Requests, NoIdle(r) \/ ConnectFails(r) \/ AcquireTimeout(r)
  PROVE  PoolIInv'
<1>1. Typed
  BY DEF PoolIInv
<1>2. /\ kind' = kind /\ held' = held /\ streamed' = streamed /\ restarts' = restarts
      /\ UNCHANGED <<user, idle, permits, up, down, socket, answer, run, sink, events>>
      /\ writer' = writer
  BY DEF NoIdle, ConnectFails, AcquireTimeout, poolVars, wireVars, runVars
<1>3. PICK w \in {"waiting", "over"} :
        pc[r] \in {"new", "waiting"} /\ pc' = [pc EXCEPT ![r] = w]
  BY DEF NoIdle, ConnectFails, AcquireTimeout, Ended, Goto
<1>4. /\ pc' \in [Requests -> {"new", "waiting", "hello", "sent", "streaming", "over"}]
      /\ outcome' \in [Requests -> {"none", "ok", "busy", "failed", "left"}]
  BY <1>1, <1>3 DEF Typed, TypeOK, NoIdle, ConnectFails, AcquireTimeout, Ended
<1>5. Typed'
  BY <1>1, <1>2, <1>4 DEF Typed, TypeOK
<1> QED  BY <1>2, <1>3, <1>5, MoveKeeps

LEMMA LeavingKeeps ==
  ASSUME PoolIInv, NEW r \in Requests, ClientLeaves(r)
  PROVE  PoolIInv'
<1>1. Typed /\ Holding /\ Gapless(r)
  BY DEF PoolIInv
<1>2. /\ UNCHANGED <<kind, held, streamed, up, down, socket, answer, run, sink, events, restarts>>
      /\ Ended(r, "left") /\ pc[r] \in {"waiting", "hello", "sent", "streaming"}
  BY DEF ClientLeaves, runVars
<1>3. CASE Mine(r) = {}
  <2>1. UNCHANGED <<user, idle, permits>> /\ writer' = writer
    BY <1>3 DEF ClientLeaves, poolVars
  <2>2. pc[r] = "waiting"
    BY <1>1, <1>2, <1>3 DEF Holding, Mine, Active
  <2>3. pc' = [pc EXCEPT ![r] = "over"] /\ outcome' = [outcome EXCEPT ![r] = "left"]
    BY <1>2 DEF Ended, Goto
  <2>4. /\ pc' \in [Requests -> {"new", "waiting", "hello", "sent", "streaming", "over"}]
        /\ outcome' \in [Requests -> {"none", "ok", "busy", "failed", "left"}]
    BY <1>1, <2>3 DEF Typed, TypeOK
  <2>5. Typed'
    BY <1>1, <1>2, <2>1, <2>4 DEF Typed, TypeOK
  <2> QED  BY <1>2, <2>1, <2>2, <2>3, <2>5, MoveKeeps
<1>4. CASE Mine(r) # {}
  <2>1. PICK s \in Mine(r) : GiveUp(s)
    BY <1>4 DEF ClientLeaves
  <2>2. s \in Sockets /\ user[s] = r /\ Drop(s) /\ idle' = idle
    BY <2>1 DEF Mine, GiveUp
  <2>3. /\ down' \in [Sockets -> Seq(Frames)] /\ held' \in [Requests -> Seq(Frames)]
        /\ streamed' \in [Requests -> Seq(1..MaxEvents)]
    BY <1>1, <1>2, PoolTypes
  <2>4. Gapless(r)' /\ Elements(down[s])' \subseteq Elements(down[s])
    BY <1>1, <1>2, GaplessStays
  <2> QED  BY <1>2, <2>2, <2>3, <2>4, RequestEnds
<1> QED  BY <1>3, <1>4

LEMMA ClosingKeeps ==
  ASSUME PoolIInv, NEW r \in Requests, HearsClosed(r)
  PROVE  PoolIInv'
<1>1. Typed /\ Gapless(r)
  BY DEF PoolIInv
<1>2. PICK s \in Mine(r) : /\ down[s] = <<>> /\ socket[s] = "shut" /\ Hangup(r, s)
                           /\ UNCHANGED <<kind, down, socket, answer, runVars, restarts>>
  BY DEF HearsClosed
<1>3. /\ UNCHANGED <<kind, held, streamed, up, down, socket, answer, run, sink, events, restarts>>
      /\ Ended(r, "failed") /\ Drop(s) /\ idle' = idle
  BY <1>2 DEF Hangup, runVars
<1>4. s \in Sockets /\ user[s] = r
  BY DEF Mine
<1>5. /\ down' \in [Sockets -> Seq(Frames)] /\ held' \in [Requests -> Seq(Frames)]
      /\ streamed' \in [Requests -> Seq(1..MaxEvents)]
  BY <1>1, <1>3, PoolTypes
<1>6. Gapless(r)' /\ Elements(down[s])' \subseteq Elements(down[s])
  BY <1>1, <1>3, GaplessStays
<1> QED  BY <1>3, <1>4, <1>5, <1>6, RequestEnds

LEMMA ReuseKeeps ==
  ASSUME PoolIInv, NEW r \in Requests, Reuse(r)
  PROVE  PoolIInv'
<1>1. Typed /\ PoolOK
  BY DEF PoolIInv
<1> DEFINE s == Last(idle)
<1>2. /\ pc[r] = "new" /\ idle # <<>> /\ idle' = Front(idle)
      /\ UNCHANGED <<kind, outcome, held, streamed, down, socket, answer, run, sink, events,
                     restarts>>
  BY DEF Reuse, runVars
<1>3. /\ s \in Sockets /\ idle' \in Seq(Sockets) /\ InPool(s) /\ user[s] = None
      /\ \A t \in Sockets : InPool(t)' <=> InPool(t) /\ t # s
  BY <1>1, <1>2, LastFacts
<1>4. writer \in [Sockets -> BOOLEAN] /\ up \in [Sockets -> Seq(Frames)]
  BY <1>1, PoolTypes
<1>5. CASE Healthy(s)
  <2>1. permits' = permits /\ writer' = writer /\ ShakeHands(r, s)
    BY <1>5 DEF Reuse
  <2>2. /\ user' = [user EXCEPT ![s] = r] /\ pc' = [pc EXCEPT ![r] = "hello"]
        /\ up' = [up EXCEPT ![s] = Append(@, Hello(r))]
    BY <2>1 DEF ShakeHands, Goto
  <2>3. PoolOK' /\ permits' \in 0..MaxConns
    BY <1>1, <1>2, <2>1, <2>2, TakeKeepsPool
  <2>4. user' \in [Sockets -> Requests \cup {None}]
    BY <1>1, <2>2, PoolTypes
  <2>5. pc' \in [Requests -> {"new", "waiting", "hello", "sent", "streaming", "over"}]
    BY <1>1, <2>2, PoolTypes
  <2>6. up' \in [Sockets -> Seq(Frames)]
    <3>1. Append(up[s], Hello(r)) \in Seq(Frames)
      BY <1>1, <1>3, <1>4, FrameFacts
    <3> QED  BY <1>4, <2>2, <3>1
  <2>7. Typed'
    BY <1>1, <1>2, <1>3, <2>1, <2>3, <2>4, <2>5, <2>6 DEF Typed, TypeOK
  <2>8. socket'[s] # "unused"
    BY <1>1, <1>2, <1>3 DEF PoolOK
  <2> QED  BY <1>2, <1>3, <2>2, <2>3, <2>7, <2>8, BeginKeeps
<1>6. CASE ~Healthy(s)
  <2>1. Drop(s) /\ pc' = pc /\ up' = up
    BY <1>6 DEF Reuse
  <2>2. /\ user' = [user EXCEPT ![s] = None] /\ permits' = permits + 1
        /\ writer' = [writer EXCEPT ![s] = FALSE]
    BY <2>1 DEF Drop
  <2>3. permits' \in 0..MaxConns /\ user' = user
    BY <1>1, <1>2, <2>2, LoseKeepsPool
  <2>4. writer' \in [Sockets -> BOOLEAN]
    BY <1>4, <2>2
  <2>5. Typed'
    BY <1>1, <1>2, <1>3, <2>1, <2>3, <2>4 DEF Typed, TypeOK
  <2> QED  BY <1>2, <2>1, <2>2, <2>5, LoseKeeps
<1> QED  BY <1>5, <1>6

LEMMA ConnectKeeps ==
  ASSUME PoolIInv, NEW r \in Requests, Connect(r)
  PROVE  PoolIInv'
<1>1. Typed /\ PoolOK
  BY DEF PoolIInv
<1>2. /\ pc[r] = "waiting" /\ permits > 0
      /\ UNCHANGED <<kind, outcome, held, streamed, idle, down, answer, run, sink, events,
                     restarts>>
  BY DEF Connect, runVars
<1>3. PICK s \in Sockets : /\ socket[s] = "unused" /\ socket' = [socket EXCEPT ![s] = "open"]
                           /\ writer' = [writer EXCEPT ![s] = TRUE]
                           /\ permits' = permits - 1 /\ ShakeHands(r, s)
  BY DEF Connect
<1>4. /\ user' = [user EXCEPT ![s] = r] /\ pc' = [pc EXCEPT ![r] = "hello"]
      /\ up' = [up EXCEPT ![s] = Append(@, Hello(r))]
  BY <1>3 DEF ShakeHands, Goto
<1>5. PoolOK' /\ permits' \in 0..MaxConns /\ user[s] = None /\ ~InPool(s)
  BY <1>1, <1>2, <1>3, <1>4, OpenKeepsPool
<1>6. user' \in [Sockets -> Requests \cup {None}]
  BY <1>1, <1>4, PoolTypes
<1>7. pc' \in [Requests -> {"new", "waiting", "hello", "sent", "streaming", "over"}]
  BY <1>1, <1>4, PoolTypes
<1>8. up' \in [Sockets -> Seq(Frames)]
  <2>1. up \in [Sockets -> Seq(Frames)] /\ Append(up[s], Hello(r)) \in Seq(Frames)
    BY <1>1, PoolTypes, FrameFacts
  <2> QED  BY <1>4, <2>1
<1>9. /\ socket' \in [Sockets -> {"unused", "open", "shut", "closed"}]
      /\ socket'[s] = "open" /\ \A t \in Sockets \ {s} : socket'[t] = socket[t]
  BY <1>1, <1>3, PoolTypes
<1>10. writer' \in [Sockets -> BOOLEAN]
  BY <1>1, <1>3, PoolTypes
<1>11. Typed'
  BY <1>1, <1>2, <1>5, <1>6, <1>7, <1>8, <1>9, <1>10 DEF Typed, TypeOK
<1>12. \A t \in Sockets : InPool(t)' <=> InPool(t)
  BY <1>2 DEF InPool
<1> QED  BY <1>2, <1>3, <1>4, <1>5, <1>9, <1>11, <1>12, BeginKeeps
-------------------------------------------------------------------------------
(* Handlers that read a frame.                                             *)

(* What is known of the frame at the head of a connection's queue. *)
LEMMA HeadFacts ==
  ASSUME PoolIInv, NEW r \in Requests, NEW s \in Sockets, user[s] = r, down[s] # <<>>, Read(s)
  PROVE  /\ Typed /\ Begun(r) /\ Gapless(r) /\ Head1(s).of = r /\ pc[r] \in Active
         /\ down' \in [Sockets -> Seq(Frames)] /\ \A t \in Sockets \ {s} : down'[t] = down[t]
         /\ down'[s] = Tail(down[s]) /\ Elements(down[s])' \subseteq Elements(down[s])
         /\ down[s] \in Seq(Frames) /\ Head1(s) = Head(down[s]) /\ Head1(s) \in Frames
         /\ Head1(s) \in Elements(down[s])
         /\ \E b \in Nat, q \in 0..Len(down[s]) : Exchange(r, s, b, q)
<1>1. Typed /\ Begun(r) /\ Gapless(r) /\ Holding /\ Wires(s) /\ Exchanges(s)
  BY DEF PoolIInv
<1>2. None \notin Requests
  BY <1>1, PoolTypes
<1>3. Head1(s) \in Under(s)
  BY <1>1, ReadFacts
<1>4. Head1(s).of = r /\ pc[r] \in Active
  BY <1>1, <1>2, <1>3 DEF Wires, OfUser, Holding
<1> QED  BY <1>1, <1>4, ReadFacts DEF Exchanges

(* The response: nothing else is under way but events. *)
LEMMA HearsResponse ==
  ASSUME PoolIInv, NEW r \in Requests, NEW s \in Sockets, user[s] = r, down[s] # <<>>, Read(s),
         Head1(s).type \in Responses
  PROVE  /\ up[s] = <<>> /\ answer[s] = <<>> /\ Head1(s).type \in Expected(r)
         /\ \E b \in Nat : /\ Numbered(down'[s], b, 0) /\ Total(Len(down'[s]), b, 0) <= events[r]
                           /\ Live(r, s) => Total(Len(down'[s]), b, 0) = events[r]
                           /\ Seen(r, b)
<1>1. PICK b \in Nat, q \in 0..Len(down[s]) : Exchange(r, s, b, q)
  BY HeadFacts
<1>2. /\ Numbered(down[s], b, q) /\ Total(Len(down[s]), b, q) <= events[r] /\ Seen(r, b)
      /\ Live(r, s) => Total(Len(down[s]), b, q) = events[r]
      /\ q # 0 => down[s][q].type \in Expected(r) /\ up[s] = <<>> /\ answer[s] = <<>>
  BY <1>1 DEF Exchange
<1>3. down[s] \in Seq(Frames) /\ Head1(s) = Head(down[s]) /\ down'[s] = Tail(down[s])
  BY HeadFacts
<1>4. q = 1
  BY <1>2, <1>3, HeadIsResponse
<1>5. /\ Head(down[s]) = down[s][1] /\ Numbered(Tail(down[s]), b, 0)
      /\ Total(Len(Tail(down[s])), b, 0) = Total(Len(down[s]), b, 1)
  BY <1>2, <1>3, <1>4, ReadResponse
<1> QED  BY <1>2, <1>3, <1>4, <1>5

(* An event: a response may still be under way. *)
LEMMA HearsAnEvent ==
  ASSUME PoolIInv, NEW r \in Requests, NEW s \in Sockets, user[s] = r, down[s] # <<>>, Read(s),
         Head1(s).type \notin Responses
  PROVE  /\ Head1(s).type \in Events
         /\ \E b \in Nat, q \in 0..Len(down'[s]) :
              /\ Head1(s).n = b + 1 /\ Seen(r, b)
              /\ Numbered(down'[s], b + 1, q) /\ Total(Len(down'[s]), b + 1, q) <= events[r]
              /\ Live(r, s) => Total(Len(down'[s]), b + 1, q) = events[r]
              /\ up[s] # <<>> => /\ up[s][1] = Asked(r) /\ pc[r] \in {"hello", "sent"}
                                 /\ answer[s] = <<>> /\ q = 0
              /\ answer[s] # <<>> => /\ Len(answer[s]) = 1 /\ answer[s][1].type \in Expected(r)
                                     /\ q = 0
              /\ q # 0 => /\ down'[s][q].type \in Expected(r)
                          /\ up[s] = <<>> /\ answer[s] = <<>>
<1>1. PICK b \in Nat, q \in 0..Len(down[s]) : Exchange(r, s, b, q)
  BY HeadFacts
<1>2. /\ Numbered(down[s], b, q) /\ Total(Len(down[s]), b, q) <= events[r] /\ Seen(r, b)
      /\ Live(r, s) => Total(Len(down[s]), b, q) = events[r]
      /\ up[s] # <<>> => /\ up[s][1] = Asked(r) /\ pc[r] \in {"hello", "sent"}
                         /\ answer[s] = <<>> /\ q = 0
      /\ answer[s] # <<>> => Len(answer[s]) = 1 /\ answer[s][1].type \in Expected(r) /\ q = 0
      /\ q # 0 => down[s][q].type \in Expected(r) /\ up[s] = <<>> /\ answer[s] = <<>>
  BY <1>1 DEF Exchange
<1>3. down[s] \in Seq(Frames) /\ Head1(s) = Head(down[s]) /\ down'[s] = Tail(down[s])
  BY HeadFacts
<1>4. q # 1
  BY <1>2, <1>3, HeadIsResponse
<1>9. PICK p : p = (IF q = 0 THEN 0 ELSE q - 1)
  OBVIOUS
<1>5. /\ Head(down[s]).type \in Events /\ Head(down[s]).n = b + 1
      /\ p \in 0..Len(Tail(down[s])) /\ Numbered(Tail(down[s]), b + 1, p)
      /\ Total(Len(Tail(down[s])), b + 1, p) = Total(Len(down[s]), b, q)
      /\ p # 0 => Tail(down[s])[p] = down[s][q]
  BY <1>2, <1>3, <1>4, <1>9, ReadEvent
<1>6. (q = 0 => p = 0) /\ (p # 0 => q # 0)
  BY <1>9
<1>7. /\ Head1(s).n = b + 1 /\ Seen(r, b)
      /\ Numbered(down'[s], b + 1, p) /\ Total(Len(down'[s]), b + 1, p) <= events[r]
      /\ Live(r, s) => Total(Len(down'[s]), b + 1, p) = events[r]
      /\ p # 0 => down'[s][p].type \in Expected(r) /\ up[s] = <<>> /\ answer[s] = <<>>
  BY <1>2, <1>3, <1>5, <1>6
<1>8. p \in 0..Len(down'[s]) /\ Head1(s).type \in Events
  BY <1>3, <1>5
<1> QED  BY <1>2, <1>6, <1>7, <1>8

LEMMA HelloKeeps ==
  ASSUME PoolIInv, NEW r \in Requests, NEW s \in Sockets, user[s] = r, down[s] # <<>>, Read(s),
         HearsHello(r, s), UNCHANGED <<kind, socket, answer, runVars, restarts>>
  PROVE  PoolIInv'
<1>1. /\ pc[r] = "hello" /\ Head1(s).type \in Responses
      /\ up' = [up EXCEPT ![s] = Append(@, Ask(r))] /\ pc' = [pc EXCEPT ![r] = "sent"]
      /\ UNCHANGED <<kind, outcome, held, streamed, user, idle, permits, writer, socket, answer,
                     run, sink, events, restarts>>
  BY DEF HearsHello, Goto, StillOpen, poolVars, runVars
<1>2. /\ Typed /\ Begun(r) /\ Gapless(r)
      /\ down' \in [Sockets -> Seq(Frames)] /\ \A t \in Sockets \ {s} : down'[t] = down[t]
      /\ Elements(down[s])' \subseteq Elements(down[s])
  BY HeadFacts
<1>3. up[s] = <<>> /\ answer[s] = <<>>
  BY <1>1, HearsResponse
<1>4. PICK b \in Nat : /\ Numbered(down'[s], b, 0) /\ Total(Len(down'[s]), b, 0) <= events[r]
                       /\ Live(r, s) => Total(Len(down'[s]), b, 0) = events[r]
  BY <1>1, HearsResponse
<1>5. up'[s] = <<Ask(r)>> /\ \A t \in Sockets \ {s} : up'[t] = up[t]
  <2>1. up \in [Sockets -> Seq(Frames)] /\ Append(<<>>, Ask(r)) = <<Ask(r)>>
    BY <1>2, PoolTypes
  <2> QED  BY <1>1, <1>3, <2>1
<1>6. pc'[r] = "sent" /\ \A x \in Requests \ {r} : pc'[x] = pc[x]
  BY <1>1, <1>2, PoolTypes
<1>7. run[r] = "none" /\ events[r] = 0 /\ held[r] = <<>> /\ streamed[r] = <<>>
  BY <1>1, <1>2 DEF Begun
<1>8. Typed'
  <2>1. up' \in [Sockets -> Seq(Frames)]
    <3>1. up \in [Sockets -> Seq(Frames)] /\ Append(up[s], Ask(r)) \in Seq(Frames)
      BY <1>2, PoolTypes, FrameFacts
    <3> QED  BY <1>1, <3>1
  <2>2. pc' \in [Requests -> {"new", "waiting", "hello", "sent", "streaming", "over"}]
    BY <1>1, <1>2, PoolTypes
  <2>3. UNCHANGED <<kind, outcome, held, streamed, user, idle, permits, writer, socket, answer,
                    run, sink, events, restarts>>
    BY <1>1
  <2> QED  BY <1>2, <2>1, <2>2, <2>3 DEF Typed, TypeOK
<1>9. b = 0 /\ Len(down'[s]) = 0 /\ down'[s] = <<>>
  <2>1. down'[s] \in Seq(Frames) /\ Len(down'[s]) \in Nat
    BY <1>2
  <2>2. b + Len(down'[s]) <= 0
    BY <1>4, <1>7 DEF Total
  <2>3. b = 0 /\ Len(down'[s]) = 0
    BY <2>1, <2>2
  <2> QED  BY <2>1, <2>3, EmptySeq
<1>10. Exchange(r, s, b, 0)'
  <2>1. up'[s][1] = Asked(r)' /\ pc'[r] \in {"hello", "sent"} /\ answer'[s] = <<>>
    BY <1>1, <1>3, <1>5, <1>6 DEF Asked, Ask, Hello
  <2>2. Seen(r, b)'
    BY <1>1, <1>6, <1>7, <1>9 DEF Seen
  <2>3. ~Live(r, s)'
    BY <1>1, <1>7 DEF Live
  <2>4. Elements(down[s])' = {}
    BY <1>9, ElementsOfNone
  <2>5. Numbered(down'[s], b, 0) /\ Total(Len(down'[s]), b, 0) <= events'[r]
    BY <1>1, <1>4
  <2> QED  BY <2>1, <2>2, <2>3, <2>4, <2>5 DEF Exchange
<1>11. Begun(r)' /\ Gapless(r)'
  BY <1>1, <1>2, <1>6, <1>7, GaplessStays DEF Begun
<1>12. 0 \in 0..Len(down'[s])
  BY <1>9
<1> QED  BY <1>1, <1>2, <1>5, <1>6, <1>7, <1>8, <1>10, <1>11, <1>12, StayKeeps DEF Active

(* The answer of a call: it had no run, so nothing else is under way. *)
LEMMA CallKeeps ==
  ASSUME PoolIInv, NEW r \in Requests, NEW s \in Sockets, user[s] = r, down[s] # <<>>, Read(s),
         HearsRes(r, s), CallEnds(r, s), UNCHANGED <<kind, socket, answer, runVars, restarts>>
  PROVE  PoolIInv'
<1>1. /\ Head1(s).type \in Responses /\ kind[r] = "call" /\ Ended(r, "ok") /\ Release(s)
      /\ UNCHANGED <<kind, held, streamed, up, socket, answer, run, sink, events, restarts>>
  BY DEF HearsRes, CallEnds, runVars, Responses
<1>2. /\ Typed /\ Begun(r) /\ Gapless(r)
      /\ down' \in [Sockets -> Seq(Frames)] /\ \A t \in Sockets \ {s} : down'[t] = down[t]
      /\ Elements(down[s])' \subseteq Elements(down[s])
  BY HeadFacts
<1>3. up[s] = <<>> /\ answer[s] = <<>>
  BY <1>1, HearsResponse
<1>4. PICK b \in Nat : Total(Len(down'[s]), b, 0) <= events[r]
  BY <1>1, HearsResponse
<1>5. run[r] = "none" /\ events[r] = 0 /\ sink[r] = 0
  BY <1>1, <1>2 DEF Begun
<1>6. down'[s] = <<>>
  <2>1. down'[s] \in Seq(Frames) /\ Len(down'[s]) \in Nat
    BY <1>2
  <2>2. b + Len(down'[s]) <= 0
    BY <1>4, <1>5 DEF Total
  <2>3. Len(down'[s]) = 0
    BY <2>1, <2>2
  <2> QED  BY <2>1, <2>3, EmptySeq
<1>7. AtRest(s)' /\ sink[r] # s
  <2>1. 0 \notin Sockets
    BY <1>2, PoolTypes
  <2> QED  BY <1>1, <1>3, <1>5, <1>6, <2>1 DEF AtRest
<1>8. held' \in [Requests -> Seq(Frames)] /\ streamed' \in [Requests -> Seq(1..MaxEvents)]
  BY <1>1, <1>2, PoolTypes
<1>9. Gapless(r)'
  BY <1>1, <1>2, GaplessStays
<1> QED  BY <1>1, <1>2, <1>7, <1>8, <1>9, RequestEnds

LEMMA TurnKeeps ==
  ASSUME PoolIInv, NEW r \in Requests, NEW s \in Sockets, user[s] = r, down[s] # <<>>, Read(s),
         HearsRes(r, s), TurnBegins(r, s), UNCHANGED <<kind, socket, answer, runVars, restarts>>
  PROVE  PoolIInv'
<1>1. /\ Head1(s).type \in Responses /\ pc[r] = "sent" /\ kind[r] \in {"create", "send"}
      /\ pc' = [pc EXCEPT ![r] = "streaming"]
      /\ UNCHANGED <<kind, outcome, held, streamed, user, idle, permits, writer, up, socket,
                     answer, run, sink, events, restarts>>
  BY DEF HearsRes, TurnBegins, Streams, Goto, StillOpen, poolVars, runVars, Responses
<1>2. /\ Typed /\ Begun(r) /\ Gapless(r)
      /\ down' \in [Sockets -> Seq(Frames)] /\ \A t \in Sockets \ {s} : down'[t] = down[t]
      /\ Elements(down[s])' \subseteq Elements(down[s])
      /\ \E b \in Nat, q \in 0..Len(down[s]) : Exchange(r, s, b, q)
  BY HeadFacts
<1>3. up[s] = <<>> /\ answer[s] = <<>>
  BY <1>1, HearsResponse
<1>4. PICK b \in Nat : /\ Numbered(down'[s], b, 0) /\ Total(Len(down'[s]), b, 0) <= events[r]
                       /\ Live(r, s) => Total(Len(down'[s]), b, 0) = events[r]
  BY <1>1, HearsResponse
<1>5. pc'[r] = "streaming" /\ \A x \in Requests \ {r} : pc'[x] = pc[x]
  BY <1>1, <1>2, PoolTypes
<1>6. Typed'
  <2>1. pc' \in [Requests -> {"new", "waiting", "hello", "sent", "streaming", "over"}]
    BY <1>1, <1>2, PoolTypes
  <2>2. UNCHANGED <<kind, outcome, held, streamed, user, idle, permits, writer, up, socket,
                    answer, run, sink, events, restarts>>
    BY <1>1
  <2>3. down' \in [Sockets -> Seq(Frames)]
    BY <1>2
  <2> QED  BY <1>2, <2>1, <2>2, <2>3 DEF Typed, TypeOK
<1>7. \A f \in Elements(down[s])' : f.type \in Ends => run'[r] = "over" /\ f.n = events'[r]
  BY <1>1, <1>2 DEF Exchange
<1>8. streamed[r] = <<>>
  BY <1>1, <1>2 DEF Begun
<1>9. Exchange(r, s, b, 0)'
  <2>1. Seen(r, b)'
    BY <1>1, <1>5, <1>8 DEF Seen
  <2>2. up'[s] = <<>> /\ answer'[s] = <<>>
    BY <1>1, <1>3
  <2>3. Live(r, s)' => Live(r, s)
    BY <1>1 DEF Live
  <2> QED  BY <1>1, <1>4, <1>7, <2>1, <2>2, <2>3 DEF Exchange
<1>10. Begun(r)' /\ Gapless(r)'
  BY <1>1, <1>2, <1>5, GaplessStays DEF Begun
<1>11. 0 \in 0..Len(down'[s])
  BY <1>2
<1> QED  BY <1>1, <1>2, <1>5, <1>6, <1>9, <1>10, <1>11, StayKeeps DEF Active

(* A resume shows what it held: the events from the first to number b. *)
LEMMA ResumeShows ==
  ASSUME Typed, NEW r \in Requests, NEW b \in Nat, Len(held[r]) = b,
         \A i \in 1..b : held[r][i].of = r /\ held[r][i].n = i
  PROVE  /\ Shown(r, held[r]) = [k \in 1..b |-> k]
         /\ Shown(r, held[r]) \in Seq(1..MaxEvents)
         /\ b = 0 => Shown(r, held[r]) = <<>>
         /\ b # 0 => Shown(r, held[r]) # <<>>
         /\ Len(Shown(r, held[r])) = b
<1>1. held[r] \in Seq(Frames) /\ MaxEvents \in Nat
  BY PoolTypes
<1>2. Shown(r, held[r]) = [k \in 1..b |-> held[r][k].n]
  BY <1>1, ShowsAll
<1>3. Shown(r, held[r]) = [k \in 1..b |-> k]
  BY <1>2
<1>4. \A k \in 1..b : k \in 1..MaxEvents
  <2> SUFFICES ASSUME NEW k \in 1..b PROVE k \in 1..MaxEvents
    OBVIOUS
  <2>1. held[r][k] \in Frames /\ held[r][k].n = k
    BY <1>1
  <2>2. held[r][k].n \in 0..MaxEvents
    BY <2>1, FrameFacts
  <2> QED  BY <1>1, <2>1, <2>2
<1>5. [k \in 1..b |-> k] \in Seq(1..MaxEvents) /\ Len([k \in 1..b |-> k]) = b
  <2>1. [k \in 1..b |-> k] \in [1..b -> 1..MaxEvents]
    BY <1>4
  <2>2. [k \in 1..b |-> k] \in Seq(1..MaxEvents)
    BY <2>1
  <2>3. DOMAIN [k \in 1..b |-> k] = 1..b
    OBVIOUS
  <2>4. Len([k \in 1..b |-> k]) = b
    BY <2>2, <2>3
  <2> QED  BY <2>2, <2>4
<1>6. Len(<<>>) = 0
  OBVIOUS
<1>7. b = 0 => Shown(r, held[r]) = <<>>
  BY <1>3, <1>5, EmptySeq
<1> QED  BY <1>3, <1>5, <1>6, <1>7

LEMMA ResumeKeeps ==
  ASSUME PoolIInv, NEW r \in Requests, NEW s \in Sockets, user[s] = r, down[s] # <<>>, Read(s),
         HearsRes(r, s), ResumeBegins(r, s), UNCHANGED <<kind, socket, answer, runVars, restarts>>
  PROVE  PoolIInv'
<1>1. /\ Head1(s).type \in Responses /\ pc[r] = "sent" /\ kind[r] = "resume"
      /\ streamed' = [streamed EXCEPT ![r] = Shown(r, held[r])]
      /\ held' = [held EXCEPT ![r] = <<>>]
      /\ UNCHANGED <<kind, up, socket, answer, run, sink, events, restarts>>
  BY DEF HearsRes, ResumeBegins, runVars, Responses
<1>2. /\ Typed /\ Begun(r)
      /\ down' \in [Sockets -> Seq(Frames)] /\ \A t \in Sockets \ {s} : down'[t] = down[t]
      /\ Elements(down[s])' \subseteq Elements(down[s])
      /\ \E b \in Nat, q \in 0..Len(down[s]) : Exchange(r, s, b, q)
  BY HeadFacts
<1>3. up[s] = <<>> /\ answer[s] = <<>>
  BY <1>1, HearsResponse
<1>4. PICK b \in Nat : /\ Numbered(down'[s], b, 0) /\ Total(Len(down'[s]), b, 0) <= events[r]
                       /\ Live(r, s) => Total(Len(down'[s]), b, 0) = events[r]
                       /\ Seen(r, b)
  BY <1>1, HearsResponse
<1>5. Len(held[r]) = b /\ \A i \in 1..b : held[r][i].of = r /\ held[r][i].n = i
  BY <1>1, <1>4 DEF Seen
<1>6. /\ Shown(r, held[r]) = [k \in 1..b |-> k]
      /\ Shown(r, held[r]) \in Seq(1..MaxEvents)
      /\ b = 0 => Shown(r, held[r]) = <<>>
      /\ b # 0 => Shown(r, held[r]) # <<>>
      /\ Len(Shown(r, held[r])) = b
  BY <1>2, <1>5, ResumeShows
<1>7. /\ streamed' \in [Requests -> Seq(1..MaxEvents)] /\ streamed'[r] = Shown(r, held[r])
      /\ \A x \in Requests \ {r} : streamed'[x] = streamed[x]
  BY <1>1, <1>2, <1>6, PoolTypes
<1>8. /\ held' \in [Requests -> Seq(Frames)] /\ \A x \in Requests \ {r} : held'[x] = held[x]
  BY <1>1, <1>2, PoolTypes
<1>9. Gapless(r)'
  <2>1. \A i \in 1..b : streamed'[r][i] = i
    BY <1>6, <1>7
  <2>2. Len(streamed'[r]) = b /\ (streamed'[r] # <<>> => b # 0)
    BY <1>6, <1>7
  <2>3. \A i \in 1..(b - 1) : i \in 1..b /\ i + 1 \in 1..b
    OBVIOUS
  <2>4. b # 0 => 1 \in 1..b
    OBVIOUS
  <2> QED  BY <2>1, <2>2, <2>3, <2>4 DEF Gapless
<1>10. CASE \E i \in DOMAIN held[r] : Terminal(held[r][i], r)
  <2>1. Ended(r, "ok") /\ Drop(s) /\ idle' = idle
    BY <1>10 DEF ResumeBegins, HearsRes
  <2> QED  BY <1>1, <1>2, <1>7, <1>8, <1>9, <2>1, RequestEnds
<1>11. CASE ~\E i \in DOMAIN held[r] : Terminal(held[r][i], r)
  <2>1. /\ pc' = [pc EXCEPT ![r] = "streaming"]
        /\ UNCHANGED <<outcome, user, idle, permits, writer>>
    BY <1>11 DEF ResumeBegins, Streams, Goto, StillOpen, poolVars
  <2>2. pc'[r] = "streaming" /\ \A x \in Requests \ {r} : pc'[x] = pc[x]
    BY <1>2, <2>1, PoolTypes
  <2>3. Typed'
    <3>1. pc' \in [Requests -> {"new", "waiting", "hello", "sent", "streaming", "over"}]
      BY <1>2, <2>1, PoolTypes
    <3>2. UNCHANGED <<kind, up, socket, answer, run, sink, events, restarts, outcome, user, idle,
                      permits, writer>>
      BY <1>1, <2>1
    <3>3. streamed' \in [Requests -> Seq(1..MaxEvents)] /\ held' \in [Requests -> Seq(Frames)]
      BY <1>7, <1>8
    <3> QED  BY <1>2, <3>1, <3>2, <3>3 DEF Typed, TypeOK
  <2>4. \A f \in Elements(down[s])' : f.type \in Ends => run'[r] = "over" /\ f.n = events'[r]
    BY <1>1, <1>2 DEF Exchange
  <2>5. Seen(r, b)'
    <3>1. b # 0 => b \in 1..b
      OBVIOUS
    <3>2. streamed'[r] # <<>> => Len(streamed'[r]) = b /\ streamed'[r][b] = b
      BY <1>6, <1>7, <3>1
    <3>3. streamed'[r] = <<>> => b = 0
      BY <1>6, <1>7
    <3> QED  BY <2>2, <3>2, <3>3 DEF Seen
  <2>6. Exchange(r, s, b, 0)'
    <3>1. up'[s] = <<>> /\ answer'[s] = <<>>
      BY <1>1, <1>3
    <3>2. Live(r, s)' => Live(r, s)
      BY <1>1 DEF Live
    <3> QED  BY <1>1, <1>4, <2>4, <2>5, <3>1, <3>2 DEF Exchange
  <2>7. Begun(r)'
    BY <1>1, <1>2, <2>2 DEF Begun
  <2>8. 0 \in 0..Len(down'[s])
    BY <1>2
  <2> QED  BY <1>1, <1>2, <1>7, <1>8, <1>9, <2>1, <2>2, <2>3, <2>6, <2>7, <2>8, StayKeeps DEF Active
<1> QED  BY <1>10, <1>11

LEMMA RefusalKeeps ==
  ASSUME PoolIInv, NEW r \in Requests, NEW s \in Sockets, user[s] = r, down[s] # <<>>, Read(s),
         HearsError(r, s), UNCHANGED <<kind, socket, answer, runVars, restarts>>
  PROVE  PoolIInv'
<1>1. /\ Ended(r, "failed") /\ Drop(s) /\ idle' = idle
      /\ UNCHANGED <<kind, held, streamed, up, socket, answer, run, sink, events, restarts>>
  BY DEF HearsError, Hangup, runVars
<1>2. /\ Typed /\ Gapless(r)
      /\ down' \in [Sockets -> Seq(Frames)] /\ \A t \in Sockets \ {s} : down'[t] = down[t]
      /\ Elements(down[s])' \subseteq Elements(down[s])
  BY HeadFacts
<1>3. held' \in [Requests -> Seq(Frames)] /\ streamed' \in [Requests -> Seq(1..MaxEvents)]
  BY <1>1, <1>2, PoolTypes
<1>4. Gapless(r)'
  BY <1>1, <1>2, GaplessStays
<1> QED  BY <1>1, <1>2, <1>3, <1>4, RequestEnds

(* An event overtook the response: a resume holds it. *)
LEMMA EarlyKeeps ==
  ASSUME PoolIInv, NEW r \in Requests, NEW s \in Sockets, user[s] = r, down[s] # <<>>, Read(s),
         HearsEarlyEvent(r, s), UNCHANGED <<kind, socket, answer, runVars, restarts>>
  PROVE  PoolIInv'
<1>1. /\ pc[r] \in {"hello", "sent"} /\ Head1(s).type \notin Responses
      /\ pc[r] = "sent" => Hold(r, Head1(s))
      /\ pc[r] # "sent" => held' = held
      /\ UNCHANGED <<kind, pc, outcome, streamed, user, idle, permits, writer, up, socket,
                     answer, run, sink, events, restarts>>
  BY DEF HearsEarlyEvent, poolVars, runVars
<1>2. /\ Typed /\ Begun(r) /\ Gapless(r) /\ Head1(s).of = r /\ Head1(s) \in Frames
      /\ down' \in [Sockets -> Seq(Frames)] /\ \A t \in Sockets \ {s} : down'[t] = down[t]
      /\ Elements(down[s])' \subseteq Elements(down[s])
      /\ \E b \in Nat, q \in 0..Len(down[s]) : Exchange(r, s, b, q)
  BY HeadFacts
<1>3. Head1(s).type \in Events
  BY <1>1, HearsAnEvent
<1>4. PICK b \in Nat, q \in 0..Len(down'[s]) :
        /\ Head1(s).n = b + 1 /\ Seen(r, b)
        /\ Numbered(down'[s], b + 1, q) /\ Total(Len(down'[s]), b + 1, q) <= events[r]
        /\ Live(r, s) => Total(Len(down'[s]), b + 1, q) = events[r]
        /\ up[s] # <<>> => /\ up[s][1] = Asked(r) /\ pc[r] \in {"hello", "sent"}
                           /\ answer[s] = <<>> /\ q = 0
        /\ answer[s] # <<>> => Len(answer[s]) = 1 /\ answer[s][1].type \in Expected(r) /\ q = 0
        /\ q # 0 => down'[s][q].type \in Expected(r) /\ up[s] = <<>> /\ answer[s] = <<>>
  BY <1>1, HearsAnEvent
<1>5. held[r] \in Seq(Frames) /\ held \in [Requests -> Seq(Frames)]
  BY <1>2, PoolTypes
<1>6. IF pc[r] = "sent" /\ kind[r] = "resume"
      THEN held' = [held EXCEPT ![r] = Append(@, Head1(s))] ELSE held' = held
  BY <1>1, <1>3 DEF Hold, Events
<1>7. held' \in [Requests -> Seq(Frames)] /\ \A x \in Requests \ {r} : held'[x] = held[x]
  <2>1. Append(held[r], Head1(s)) \in Seq(Frames)
    BY <1>2, <1>5
  <2> QED  BY <1>5, <1>6, <2>1
<1>8. Typed'
  BY <1>1, <1>2, <1>7 DEF Typed, TypeOK
<1>9. Seen(r, b + 1)'
  <2> SUFFICES ASSUME pc[r] = "sent", kind[r] = "resume"
               PROVE  /\ Len(held'[r]) = b + 1
                      /\ \A i \in 1..(b + 1) : held'[r][i].of = r /\ held'[r][i].n = i
    BY <1>1 DEF Seen
  <2>1. held'[r] = Append(held[r], Head1(s))
    BY <1>5, <1>6
  <2>2. Len(held[r]) = b /\ \A i \in 1..b : held[r][i].of = r /\ held[r][i].n = i
    BY <1>4 DEF Seen
  <2>3. /\ Len(held'[r]) = b + 1 /\ held'[r][b + 1] = Head1(s)
        /\ \A i \in 1..b : held'[r][i] = held[r][i]
    BY <1>2, <1>5, <2>1, <2>2, AppendFacts
  <2>4. \A i \in 1..(b + 1) : i \in 1..b \/ i = b + 1
    OBVIOUS
  <2> QED  BY <1>2, <1>4, <2>2, <2>3, <2>4
<1>10. Exchange(r, s, b + 1, q)'
  <2>1. \A f \in Elements(down[s])' : f.type \in Ends => run'[r] = "over" /\ f.n = events'[r]
    BY <1>1, <1>2 DEF Exchange
  <2>2. Asked(r)' = Asked(r) /\ Expected(r)' = Expected(r) /\ (Live(r, s)' => Live(r, s))
    BY <1>1 DEF Asked, Expected, Live, Hello, Ask
  <2> QED  BY <1>1, <1>4, <1>9, <2>1, <2>2 DEF Exchange
<1>11. Begun(r)' /\ Gapless(r)'
  BY <1>1, <1>2, <1>6, GaplessStays DEF Begun
<1>12. b + 1 \in Nat
  OBVIOUS
<1> QED  BY <1>1, <1>2, <1>7, <1>8, <1>10, <1>11, <1>12, StayKeeps DEF Active

(* An event of a stream is shown; the last one ends the stream. *)
LEMMA EventKeeps ==
  ASSUME PoolIInv, NEW r \in Requests, NEW s \in Sockets, user[s] = r, down[s] # <<>>, Read(s),
         HearsEvent(r, s), UNCHANGED <<kind, socket, answer, runVars, restarts>>
  PROVE  PoolIInv'
<1>1. /\ pc[r] = "streaming"
      /\ streamed' = [streamed EXCEPT ![r] = @ \o Shown(r, <<Head1(s)>>)]
      /\ UNCHANGED <<kind, held, up, socket, answer, run, sink, events, restarts>>
  BY DEF HearsEvent, runVars
<1>2. /\ Typed /\ Begun(r) /\ Gapless(r) /\ Head1(s).of = r /\ Head1(s) \in Frames
      /\ Head1(s) \in Elements(down[s])
      /\ down' \in [Sockets -> Seq(Frames)] /\ \A t \in Sockets \ {s} : down'[t] = down[t]
      /\ Elements(down[s])' \subseteq Elements(down[s])
      /\ \E b \in Nat, q \in 0..Len(down[s]) : Exchange(r, s, b, q)
  BY HeadFacts
<1>3. Head1(s).type \notin Responses
  <2>1. Expected(r) = {}
    BY <1>1 DEF Expected
  <2> QED  BY <2>1, HearsResponse
<1>4. PICK b \in Nat, q \in 0..Len(down'[s]) :
        /\ Head1(s).n = b + 1 /\ Seen(r, b)
        /\ Numbered(down'[s], b + 1, q) /\ Total(Len(down'[s]), b + 1, q) <= events[r]
        /\ Live(r, s) => Total(Len(down'[s]), b + 1, q) = events[r]
        /\ up[s] # <<>> => /\ up[s][1] = Asked(r) /\ pc[r] \in {"hello", "sent"}
                           /\ answer[s] = <<>> /\ q = 0
        /\ answer[s] # <<>> => Len(answer[s]) = 1 /\ answer[s][1].type \in Expected(r) /\ q = 0
        /\ q # 0 => down'[s][q].type \in Expected(r) /\ up[s] = <<>> /\ answer[s] = <<>>
  BY <1>3, HearsAnEvent
<1>5. up[s] = <<>> /\ answer[s] = <<>> /\ q = 0
  <2>1. Expected(r) = {}
    BY <1>1 DEF Expected
  <2> QED  BY <1>1, <1>4, <2>1
<1>6. streamed[r] \in Seq(1..MaxEvents) /\ streamed \in [Requests -> Seq(1..MaxEvents)]
  BY <1>2, PoolTypes
<1>7. b + 1 \in 1..MaxEvents
  <2>1. Head1(s).n \in 0..MaxEvents /\ MaxEvents \in Nat
    BY <1>2, FrameFacts, PoolTypes
  <2> QED  BY <1>4, <2>1
<1>8. Shown(r, <<Head1(s)>>) = <<b + 1>>
  <2>1. <<Head1(s)>> \in Seq(Frames) /\ Len(<<Head1(s)>>) = 1 /\ <<Head1(s)>>[1] = Head1(s)
    BY <1>2
  <2>2. \A i \in 1..Len(<<Head1(s)>>) : <<Head1(s)>>[i].of = r
    BY <1>2, <2>1
  <2>3. Shown(r, <<Head1(s)>>) = [k \in 1..1 |-> <<Head1(s)>>[k].n]
    BY <2>1, <2>2, ShowsAll
  <2>4. \A k \in 1..1 : <<Head1(s)>>[k].n = b + 1
    BY <1>4, <2>1
  <2>5. Shown(r, <<Head1(s)>>) = [k \in 1..1 |-> b + 1]
    BY <2>3, <2>4
  <2> QED  BY <2>5
<1>9. streamed' = [streamed EXCEPT ![r] = Append(@, b + 1)]
  <2>1. streamed[r] \o <<b + 1>> = Append(streamed[r], b + 1)
    BY <1>6, <1>7, AppendIsConcat
  <2> QED  BY <1>1, <1>6, <1>8, <2>1
<1>10. /\ Append(streamed[r], b + 1) \in Seq(1..MaxEvents)
       /\ Len(Append(streamed[r], b + 1)) = Len(streamed[r]) + 1 /\ Len(streamed[r]) \in Nat
       /\ \A i \in 1..Len(streamed[r]) : Append(streamed[r], b + 1)[i] = streamed[r][i]
       /\ Append(streamed[r], b + 1)[Len(streamed[r]) + 1] = b + 1
  BY <1>6, <1>7, AppendFacts
<1>11. /\ streamed' \in [Requests -> Seq(1..MaxEvents)]
       /\ streamed'[r] = Append(streamed[r], b + 1)
       /\ \A x \in Requests \ {r} : streamed'[x] = streamed[x]
  BY <1>6, <1>9, <1>10
<1>12. Len(streamed[r]) = 0 <=> streamed[r] = <<>>
  BY <1>6, EmptySeq
<1>13. Gapless(r)'
  <2> SUFFICES /\ \A i \in 1..Len(streamed[r]) : streamed'[r][i + 1] = streamed'[r][i] + 1
               /\ kind[r] = "resume" => streamed'[r][1] = 1
    <3>1. (Len(streamed[r]) + 1) - 1 = Len(streamed[r])
      BY <1>10
    <3>2. Len(streamed'[r]) - 1 = Len(streamed[r])
      BY <1>10, <1>11, <3>1
    <3> QED  BY <1>1, <3>2 DEF Gapless
  <2>1. CASE streamed[r] = <<>>
    <3>1. kind[r] = "resume" => b = 0
      BY <1>1, <1>4, <2>1 DEF Seen
    <3>2. Len(streamed[r]) = 0
      BY <1>12, <2>1
    <3>3. streamed'[r][1] = b + 1 /\ 1..Len(streamed[r]) = {}
      BY <1>10, <1>11, <3>2
    <3> QED  BY <3>1, <3>3
  <2>2. CASE streamed[r] # <<>>
    <3>1. streamed[r][Len(streamed[r])] = b
      BY <1>1, <1>4, <2>2 DEF Seen
    <3>2. /\ \A i \in 1..(Len(streamed[r]) - 1) : streamed[r][i + 1] = streamed[r][i] + 1
          /\ kind[r] = "resume" => streamed[r][1] = 1
      BY <1>2, <2>2 DEF Gapless
    <3>3. Len(streamed[r]) \in Nat \ {0}
      BY <1>10, <1>12, <2>2
    <3>4. ASSUME NEW i \in 1..Len(streamed[r]) PROVE streamed'[r][i + 1] = streamed'[r][i] + 1
      <4>1. CASE i = Len(streamed[r])
        <5>1. streamed'[r][i] = streamed[r][i]
          BY <1>10, <1>11
        <5> QED  BY <1>10, <1>11, <3>1, <4>1, <5>1
      <4>2. CASE i # Len(streamed[r])
        <5>1. i \in 1..(Len(streamed[r]) - 1) /\ i + 1 \in 1..Len(streamed[r])
          BY <3>3, <4>2
        <5>2. streamed'[r][i] = streamed[r][i] /\ streamed'[r][i + 1] = streamed[r][i + 1]
          BY <1>10, <1>11, <5>1
        <5> QED  BY <3>2, <5>1, <5>2
      <4> QED  BY <4>1, <4>2
    <3>5. 1 \in 1..Len(streamed[r])
      BY <3>3
    <3> QED  BY <1>10, <1>11, <3>2, <3>4, <3>5
  <2> QED  BY <2>1, <2>2
<1>14. held' \in [Requests -> Seq(Frames)] /\ \A x \in Requests \ {r} : held'[x] = held[x]
  BY <1>1, <1>2, PoolTypes
<1>15. \A f \in Elements(down[s]) : f.type \in Ends => run[r] = "over" /\ f.n = events[r]
  BY <1>2 DEF Exchange
<1>16. CASE Terminal(Head1(s), r)
  <2>1. Ended(r, "ok") /\ (Release(s) \/ (Drop(s) /\ idle' = idle))
    BY <1>16 DEF HearsEvent
  <2>2. run[r] = "over" /\ b + 1 = events[r]
    BY <1>2, <1>4, <1>15, <1>16 DEF Terminal
  <2>3. down'[s] = <<>>
    <3>1. down'[s] \in Seq(Frames) /\ Len(down'[s]) \in Nat /\ events[r] \in Nat
      BY <1>2, PoolTypes
    <3>2. (b + 1) + Len(down'[s]) <= events[r]
      BY <1>4, <1>5 DEF Total
    <3>3. Len(down'[s]) = 0
      BY <2>2, <3>1, <3>2
    <3> QED  BY <3>1, <3>3, EmptySeq
  <2>4. AtRest(s)'
    BY <1>1, <1>5, <2>3 DEF AtRest
  <2> QED  BY <1>1, <1>2, <1>11, <1>13, <1>14, <2>1, <2>2, <2>4, RequestEnds
<1>17. CASE ~Terminal(Head1(s), r)
  <2>1. UNCHANGED <<pc, outcome, user, idle, permits, writer>>
    BY <1>17 DEF HearsEvent, poolVars
  <2>2. Typed'
    BY <1>1, <1>2, <1>11, <2>1 DEF Typed, TypeOK
  <2>3. Seen(r, b + 1)'
    <3>1. streamed'[r] # <<>> /\ streamed'[r][Len(streamed'[r])] = b + 1
      <4>1. Len(streamed'[r]) = Len(streamed[r]) + 1
        BY <1>10, <1>11
      <4>2. Len(streamed'[r]) # 0 /\ Len(<<>>) = 0
        BY <1>10, <4>1
      <4> QED  BY <1>10, <1>11, <4>1, <4>2
    <3> QED  BY <1>1, <2>1, <3>1 DEF Seen
  <2>4. Exchange(r, s, b + 1, q)'
    <3>1. up'[s] = <<>> /\ answer'[s] = <<>> /\ (Live(r, s)' => Live(r, s))
      BY <1>1, <1>5 DEF Live
    <3>2. \A f \in Elements(down[s])' : f.type \in Ends => run'[r] = "over" /\ f.n = events'[r]
      BY <1>1, <1>2, <1>15
    <3> QED  BY <1>1, <1>4, <1>5, <2>3, <3>1, <3>2 DEF Exchange
  <2>5. Begun(r)'
    BY <1>1, <1>2, <2>1 DEF Begun
  <2>6. b + 1 \in Nat /\ pc'[r] \in Active
    BY <1>1, <2>1 DEF Active
  <2> QED  BY <1>1, <1>2, <1>11, <1>13, <1>14, <2>1, <2>2, <2>4, <2>5, <2>6, StayKeeps
<1> QED  BY <1>16, <1>17

LEMMA HearingKeeps ==
  ASSUME PoolIInv, NEW r \in Requests, Hears(r)
  PROVE  PoolIInv'
<1>1. PICK s \in Mine(r) :
        /\ down[s] # <<>> /\ Read(s)
        /\ \/ HearsHello(r, s) \/ HearsRes(r, s) \/ HearsError(r, s)
           \/ HearsEarlyEvent(r, s) \/ HearsEvent(r, s)
        /\ UNCHANGED <<kind, socket, answer, runVars, restarts>>
  BY DEF Hears
<1>2. s \in Sockets /\ user[s] = r
  BY DEF Mine
<1>3. ASSUME HearsRes(r, s) PROVE PoolIInv'
  <2>1. CallEnds(r, s) \/ TurnBegins(r, s) \/ ResumeBegins(r, s)
    BY <1>3 DEF HearsRes
  <2> QED  BY <1>1, <1>2, <1>3, <2>1, CallKeeps, TurnKeeps, ResumeKeeps
<1> QED  BY <1>1, <1>2, <1>3, HelloKeeps, RefusalKeeps, EarlyKeeps, EventKeeps
-------------------------------------------------------------------------------
(* The connections' own tasks, runs and the daemon.                        *)

LEMMA TaskKeeps ==
  ASSUME PoolIInv, Typed', UNCHANGED <<kind, pc, held, streamed, user, idle, permits>>,
         \A t \in Sockets : (user[t] # None \/ InPool(t)) /\ socket[t] \in {"open", "shut"}
                              => socket'[t] \in {"open", "shut"},
         \A t \in Sockets : /\ Elements(up[t])' \subseteq Elements(up[t])
                            /\ Wires(t)' /\ Exchanges(t)',
         \A x \in Requests : Sinks(x)' /\ Begun(x)'
  PROVE  PoolIInv'
<1>1. Typed /\ PoolOK /\ Holding /\ Single /\ \A x \in Requests : Gapless(x)
  BY DEF PoolIInv
<1>2. PoolOK' /\ Holding' /\ Single'
  BY <1>1, PoolStays, HoldingStays, SingleStays
<1>3. \A x \in Requests : Gapless(x)'
  BY <1>1, GaplessStays
<1> QED  BY <1>2, <1>3 DEF PoolIInv

LEMMA ReaderKeeps ==
  ASSUME PoolIInv, NEW s \in Sockets, ReaderEnds(s)
  PROVE  PoolIInv'
<1>1. /\ Typed /\ PoolOK /\ \A t \in Sockets : Wires(t) /\ Exchanges(t)
      /\ \A x \in Requests : Sinks(x) /\ Begun(x)
  BY DEF PoolIInv
<1>2. /\ user[s] = None /\ ~Contains(idle, s)
      /\ socket' = [socket EXCEPT ![s] = "closed"]
      /\ down' = [down EXCEPT ![s] = <<>>] /\ up' = [up EXCEPT ![s] = <<>>]
      /\ UNCHANGED <<kind, pc, outcome, held, streamed, user, idle, permits, writer, answer,
                     run, sink, events, restarts>>
  BY DEF ReaderEnds, requestVars, poolVars, runVars
<1>3. ~InPool(s) /\ None \notin Requests /\ 0 \notin Sockets
  BY <1>1, <1>2, PoolTypes DEF Contains, InPool
<1>4. /\ socket' \in [Sockets -> {"unused", "open", "shut", "closed"}] /\ socket'[s] = "closed"
      /\ \A t \in Sockets \ {s} : socket'[t] = socket[t]
  BY <1>1, <1>2, PoolTypes
<1>5. /\ down' \in [Sockets -> Seq(Frames)] /\ down'[s] = <<>>
      /\ \A t \in Sockets \ {s} : down'[t] = down[t]
  BY <1>1, <1>2, PoolTypes
<1>6. /\ up' \in [Sockets -> Seq(Frames)] /\ up'[s] = <<>>
      /\ \A t \in Sockets \ {s} : up'[t] = up[t]
  BY <1>1, <1>2, PoolTypes
<1>7. Typed'
  BY <1>1, <1>2, <1>4, <1>5, <1>6 DEF Typed, TypeOK
<1>8. \A t \in Sockets : InPool(t)' <=> InPool(t)
  BY <1>2 DEF InPool
<1>9. ASSUME NEW t \in Sockets
      PROVE  Elements(up[t])' \subseteq Elements(up[t]) /\ Wires(t)' /\ Exchanges(t)'
  <2>1. CASE t # s
    <3>1. Wires(t)'
      BY <1>1, <1>2, <1>4, <1>5, <1>6, <1>7, <1>8, <2>1, WiresSame
    <3>2. \A x \in Requests : Live(x, t)' => Live(x, t)
      BY <1>2, <1>4, <2>1 DEF Live
    <3>3. Exchanges(t)'
      BY <1>1, <1>2, <1>5, <1>6, <2>1, <3>2, ExchangeStays
    <3> QED  BY <1>6, <2>1, <3>1, <3>3
  <2>2. CASE t = s
    <3>1. Elements(up[s])' = {} /\ Under(s)' \subseteq Under(s) /\ Len(up'[s]) <= 1
      BY <1>2, <1>5, <1>6, ElementsOfNone DEF Under
    <3>2. Wires(s)'
      BY <1>1, <1>2, <1>3, <1>4, <1>7, <1>8, <3>1, WiresStay
    <3> QED  BY <1>2, <1>3, <2>2, <3>1, <3>2 DEF Exchanges
  <2> QED  BY <2>1, <2>2
<1>10. ASSUME NEW x \in Requests PROVE Sinks(x)' /\ Begun(x)'
  <2>1. \A t \in Sockets : /\ Dropped(t) => Dropped(t)'
                           /\ socket[t] # "unused" => socket'[t] # "unused"
    BY <1>2, <1>4, <1>8 DEF Dropped
  <2> QED  BY <1>1, <1>2, <1>3, <2>1, SinkStays, BegunStays
<1>11. \A t \in Sockets : user[t] # None \/ InPool(t) => socket'[t] = socket[t]
  BY <1>2, <1>3, <1>4
<1> QED  BY <1>2, <1>7, <1>9, <1>10, <1>11, TaskKeeps

LEMMA WriterKeeps ==
  ASSUME PoolIInv, NEW s \in Sockets, WriterEnds(s)
  PROVE  PoolIInv'
<1>1. /\ Typed /\ PoolOK /\ \A t \in Sockets : Wires(t) /\ Exchanges(t)
      /\ \A x \in Requests : Sinks(x) /\ Begun(x)
  BY DEF PoolIInv
<1>2. /\ writer' = [writer EXCEPT ![s] = FALSE] /\ up' = [up EXCEPT ![s] = <<>>]
      /\ UNCHANGED <<kind, pc, outcome, held, streamed, user, idle, permits, down, socket, answer,
                     run, sink, events, restarts>>
  BY DEF WriterEnds, requestVars, poolVars, runVars
<1>3. /\ up' \in [Sockets -> Seq(Frames)] /\ up'[s] = <<>>
      /\ \A t \in Sockets \ {s} : up'[t] = up[t]
  BY <1>1, <1>2, PoolTypes
<1>4. writer' \in [Sockets -> BOOLEAN] /\ 0 \notin Sockets
  BY <1>1, <1>2, PoolTypes
<1>5. Typed'
  BY <1>1, <1>2, <1>3, <1>4 DEF Typed, TypeOK
<1>6. \A t \in Sockets : InPool(t)' <=> InPool(t)
  BY <1>2 DEF InPool
<1>7. \A x \in Requests, t \in Sockets : Live(x, t)' => Live(x, t)
  BY <1>2 DEF Live
<1>8. ASSUME NEW t \in Sockets
      PROVE  Elements(up[t])' \subseteq Elements(up[t]) /\ Wires(t)' /\ Exchanges(t)'
  <2>1. CASE t # s
    <3>1. Wires(t)' /\ Exchanges(t)'
      BY <1>1, <1>2, <1>3, <1>5, <1>6, <1>7, <2>1, WiresSame, ExchangeStays
    <3> QED  BY <1>3, <2>1, <3>1
  <2>2. CASE t = s
    <3>1. Elements(up[s])' = {} /\ Under(s)' \subseteq Under(s) /\ Len(up'[s]) <= 1
      BY <1>2, <1>3, ElementsOfNone DEF Under
    <3>2. InPool(s)' \/ socket'[s] = "unused" => AtRest(s)'
      BY <1>1, <1>2, <1>3, <1>6 DEF Wires, AtRest
    <3>3. Wires(s)'
      BY <1>1, <1>2, <1>5, <3>1, <3>2, WiresStay
    <3>4. ASSUME NEW x \in Requests, user'[s] = x
          PROVE  \E b \in Nat, q \in 0..Len(down'[s]) : Exchange(x, s, b, q)'
      <4>1. PICK b \in Nat, q \in 0..Len(down[s]) : Exchange(x, s, b, q)
        BY <1>1, <1>2, <3>4 DEF Exchanges
      <4>2. Seen(x, b)' /\ Expected(x)' = Expected(x) /\ (Live(x, s)' => Live(x, s))
        BY <1>2, <1>7, <4>1 DEF Seen, Expected, Exchange
      <4>3. Exchange(x, s, b, q)'
        BY <1>2, <1>3, <4>1, <4>2 DEF Exchange
      <4> QED  BY <1>2, <4>3
    <3> QED  BY <2>2, <3>1, <3>3, <3>4 DEF Exchanges
  <2> QED  BY <2>1, <2>2
<1>9. ASSUME NEW x \in Requests PROVE Sinks(x)' /\ Begun(x)'
  <2>1. \A t \in Sockets : Dropped(t) => Dropped(t)'
    BY <1>2, <1>6 DEF Dropped
  <2> QED  BY <1>1, <1>2, <1>4, <2>1, SinkStays, BegunStays
<1> QED  BY <1>2, <1>5, <1>8, <1>9, TaskKeeps

LEMMA ConcatElements ==
  ASSUME NEW S, NEW a \in Seq(S), NEW b \in Seq(S)
  PROVE  Elements(a \o b) \subseteq Elements(a) \cup Elements(b)
<1>1. /\ Len(a) \in Nat /\ Len(b) \in Nat /\ DOMAIN a = 1..Len(a) /\ DOMAIN b = 1..Len(b)
      /\ a \o b \in Seq(S) /\ Len(a \o b) = Len(a) + Len(b)
      /\ DOMAIN (a \o b) = 1..(Len(a) + Len(b))
  BY ConcatProperties
<1> SUFFICES ASSUME NEW i \in 1..(Len(a) + Len(b))
             PROVE  (a \o b)[i] \in Elements(a) \cup Elements(b)
  BY <1>1 DEF Elements
<1>2. (a \o b)[i] = IF i <= Len(a) THEN a[i] ELSE b[i - Len(a)]
  BY ConcatProperties
<1>3. i <= Len(a) => i \in DOMAIN a
  BY <1>1
<1>4. \A m, n \in Nat : \A k \in 1..(m + n) : ~(k <= m) => k - m \in 1..n
  OBVIOUS
<1>5. ~(i <= Len(a)) => i - Len(a) \in DOMAIN b
  BY <1>1, <1>4
<1> QED  BY <1>2, <1>3, <1>5 DEF Elements

LEMMA PushAnswerKeeps ==
  ASSUME PoolIInv, NEW s \in Sockets, PushAnswer(s)
  PROVE  PoolIInv'
<1>1. /\ Typed /\ PoolOK /\ \A t \in Sockets : Wires(t) /\ Exchanges(t)
      /\ \A x \in Requests : Sinks(x) /\ Begun(x)
  BY DEF PoolIInv
<1>2. /\ socket[s] = "open" /\ answer[s] # <<>>
      /\ down' = [down EXCEPT ![s] = @ \o answer[s]] /\ answer' = [answer EXCEPT ![s] = <<>>]
      /\ UNCHANGED <<kind, pc, outcome, held, streamed, user, idle, permits, writer, up, socket,
                     run, sink, events, restarts>>
  BY DEF PushAnswer, requestVars, poolVars, runVars
<1>3. /\ answer' \in [Sockets -> Seq(Frames)] /\ answer'[s] = <<>> /\ 0 \notin Sockets
      /\ \A t \in Sockets \ {s} : answer'[t] = answer[t]
  BY <1>1, <1>2, PoolTypes
<1>4. down[s] \in Seq(Frames) /\ answer[s] \in Seq(Frames) /\ down \in [Sockets -> Seq(Frames)]
  BY <1>1, PoolTypes
<1>5. /\ down' \in [Sockets -> Seq(Frames)] /\ down'[s] = down[s] \o answer[s]
      /\ \A t \in Sockets \ {s} : down'[t] = down[t]
  <2>1. down[s] \o answer[s] \in Seq(Frames)
    BY <1>4, ConcatProperties
  <2> QED  BY <1>2, <1>4, <2>1
<1>6. Typed'
  BY <1>1, <1>2, <1>3, <1>5 DEF Typed, TypeOK
<1>7. \A t \in Sockets : InPool(t)' <=> InPool(t)
  BY <1>2 DEF InPool
<1>8. \A x \in Requests, t \in Sockets : Live(x, t)' => Live(x, t)
  BY <1>2 DEF Live
<1>9. Elements(down[s])' \subseteq Elements(down[s]) \cup Elements(answer[s])
  <2>1. Elements(down[s] \o answer[s]) \subseteq Elements(down[s]) \cup Elements(answer[s])
    BY <1>4, ConcatElements
  <2> QED  BY <1>5, <2>1 DEF Elements
<1>10. Wires(s)'
  <2>1. Under(s)' \subseteq Under(s)
    BY <1>2, <1>3, <1>9, ElementsOfNone DEF Under
  <2>2. Len(up'[s]) <= 1 /\ ~InPool(s)' /\ socket'[s] # "unused"
    BY <1>1, <1>2, <1>7 DEF Wires, AtRest
  <2> QED  BY <1>1, <1>2, <1>6, <2>1, <2>2, WiresStay
<1>11. Exchanges(s)'
  <2> SUFFICES ASSUME NEW x \in Requests, user'[s] = x
               PROVE  \E b \in Nat, q \in 0..Len(down'[s]) : Exchange(x, s, b, q)'
    BY DEF Exchanges
  <2>1. PICK b \in Nat, q \in 0..Len(down[s]) : Exchange(x, s, b, q)
    BY <1>1, <1>2 DEF Exchanges
  <2>2. Len(answer[s]) = 1 /\ answer[s][1].type \in Expected(x) /\ q = 0 /\ up[s] = <<>>
    BY <1>2, <2>1 DEF Exchange
  <2>3. PICK f \in Frames : f = answer[s][1]
    BY <1>4, <2>2
  <2>4. down'[s] = Append(down[s], f)
    <3>1. answer[s] = <<f>>
      BY <1>4, <2>2, <2>3
    <3> QED  BY <1>4, <1>5, <2>3, <3>1, AppendIsConcat
  <2>5. f.type \in Responses
    BY <2>2, <2>3 DEF Expected
  <2>13. PICK p : p = Len(down[s]) + 1
    OBVIOUS
  <2>6. Numbered(down[s], b, 0) /\ Total(Len(down[s]), b, 0) <= events[x]
    BY <2>1, <2>2 DEF Exchange
  <2>7. /\ Numbered(down'[s], b, p) /\ down'[s][p] = f /\ Len(down'[s]) = p /\ Len(down[s]) \in Nat
        /\ Total(Len(down'[s]), b, p) = Total(Len(down[s]), b, 0)
    BY <1>4, <2>4, <2>5, <2>6, <2>13, AppendResponse
  <2>8. p \in 0..Len(down'[s]) /\ p # 0
    BY <2>7, <2>13
  <2>9. Seen(x, b)' /\ Expected(x)' = Expected(x) /\ (Live(x, s)' => Live(x, s))
    BY <1>2, <1>8, <2>1 DEF Seen, Expected, Exchange
  <2>10. \A g \in Elements(down[s])' : g.type \in Ends => run'[x] = "over" /\ g.n = events'[x]
    <3>1. Elements(answer[s]) = {f}
      BY <1>4, <2>2, <2>3 DEF Elements
    <3>2. f.type \notin Ends
      BY <2>5, ResponsesAreNoEvents DEF Events
    <3> QED  BY <1>2, <1>9, <2>1, <3>1, <3>2 DEF Exchange
  <2>11. Live(x, s)' => Total(Len(down'[s]), b, p) = events'[x]
    BY <1>2, <2>1, <2>2, <2>7, <2>9 DEF Exchange
  <2>12. Exchange(x, s, b, p)'
    BY <1>2, <1>3, <2>2, <2>3, <2>6, <2>7, <2>9, <2>10, <2>11 DEF Exchange
  <2> QED  BY <2>8, <2>12
<1>12. ASSUME NEW t \in Sockets
       PROVE  Elements(up[t])' \subseteq Elements(up[t]) /\ Wires(t)' /\ Exchanges(t)'
  <2>1. CASE t # s
    BY <1>1, <1>2, <1>3, <1>5, <1>6, <1>7, <1>8, <2>1, WiresSame, ExchangeStays
  <2> QED  BY <1>2, <1>10, <1>11, <2>1
<1>13. ASSUME NEW x \in Requests PROVE Sinks(x)' /\ Begun(x)'
  <2>1. \A t \in Sockets : Dropped(t) => Dropped(t)'
    BY <1>2, <1>7 DEF Dropped
  <2> QED  BY <1>1, <1>2, <1>3, <2>1, SinkStays, BegunStays
<1> QED  BY <1>2, <1>6, <1>12, <1>13, TaskKeeps

(* What the daemon makes of the frame at the head of a connection. *)
LEMMA ServeFacts ==
  ASSUME PoolIInv, NEW s \in Sockets, Serve(s)
  PROVE  \E f \in Elements(up[s]), ans \in Frames :
           /\ f = up[s][1] /\ ans.of = f.of /\ f.of \in Requests /\ f \in Under(s)
           /\ ans.type \in Responses
           /\ f.type = "hello" => ans.type = "hello"
           /\ f.type = "request" => ans.type # "hello"
           /\ up' = [up EXCEPT ![s] = <<>>] /\ answer' = [answer EXCEPT ![s] = <<ans>>]
           /\ socket[s] = "open" /\ answer[s] = <<>> /\ up[s] # <<>>
           /\ \/ run' = run /\ sink' = sink
              \/ /\ f.type = "request" /\ kind[f.of] # "call"
                 /\ run' = [run EXCEPT ![f.of] = "running"] /\ sink' = [sink EXCEPT ![f.of] = s]
           /\ UNCHANGED <<kind, pc, outcome, held, streamed, user, idle, permits, writer, down,
                          socket, events, restarts>>
<1>1. Typed /\ Wires(s)
  BY DEF PoolIInv
<1>2. /\ socket[s] = "open" /\ up[s] # <<>> /\ answer[s] = <<>>
      /\ UNCHANGED <<kind, pc, outcome, held, streamed, user, idle, permits, writer, down,
                     socket, restarts>>
  BY DEF Serve, requestVars, poolVars
<1>3. PICK f : f = Head(up[s])
  OBVIOUS
<1>4. up \in [Sockets -> Seq(Frames)] /\ up[s] \in Seq(Frames)
  BY <1>1, PoolTypes
<1>5. /\ f \in Frames /\ f = up[s][1] /\ f \in Elements(up[s]) /\ Tail(up[s]) \in Seq(Frames)
      /\ Len(Tail(up[s])) = Len(up[s]) - 1 /\ Len(up[s]) \in Nat \ {0}
  BY <1>2, <1>3, <1>4, TailFacts
<1>6. Tail(up[s]) = <<>>
  <2>1. Len(up[s]) <= 1
    BY <1>1 DEF Wires
  <2>2. \A n \in Nat \ {0} : n <= 1 => n - 1 = 0
    OBVIOUS
  <2>3. Len(Tail(up[s])) = 0
    BY <1>5, <2>1, <2>2
  <2> QED  BY <1>5, <2>3, EmptySeq
<1>7. f.of \in Requests /\ f \in Under(s)
  BY <1>5 DEF Frames, Under
<1>8. PICK ans \in Frames :
        /\ Handles(s, ans) /\ ans.of = f.of /\ ans.type \in Responses /\ events' = events
        /\ f.type = "hello" => ans.type = "hello"
        /\ f.type = "request" => ans.type # "hello"
        /\ \/ run' = run /\ sink' = sink
           \/ /\ f.type = "request" /\ kind[f.of] # "call"
              /\ run' = [run EXCEPT ![f.of] = "running"] /\ sink' = [sink EXCEPT ![f.of] = s]
  <2>1. \A type \in {"hello", "res", "err"} :
          /\ Frame(type, f.of, 0) \in Frames /\ Frame(type, f.of, 0).type = type
          /\ Frame(type, f.of, 0).of = f.of
    <3>1. 0 \in 0..MaxEvents
      BY <1>1, PoolTypes
    <3>2. PICK r \in Requests : r = f.of
      BY <1>7
    <3>3. \A type \in {"hello", "res", "err", "text"} \cup Ends, n \in 0..MaxEvents :
            /\ Frame(type, r, n) \in Frames /\ Frame(type, r, n).type = type
            /\ Frame(type, r, n).of = r
      BY <1>1, FrameFacts
    <3> QED  BY <3>1, <3>2, <3>3
  <2>2. \/ f.type = "hello" /\ Handles(s, Frame("hello", f.of, 0)) /\ UNCHANGED runVars
        \/ f.type = "request" /\ Handles(s, Frame("res", f.of, 0)) /\ UNCHANGED runVars
        \/ /\ f.type = "request" /\ kind[f.of] # "call" /\ Handles(s, Frame("res", f.of, 0))
           /\ run' = [run EXCEPT ![f.of] = "running"] /\ sink' = [sink EXCEPT ![f.of] = s]
           /\ events' = events
        \/ f.type = "request" /\ Handles(s, Frame("err", f.of, 0)) /\ UNCHANGED runVars
    BY <1>3 DEF Serve
  <2>3. CASE f.type = "hello" /\ Handles(s, Frame("hello", f.of, 0)) /\ UNCHANGED runVars
    BY <2>1, <2>3 DEF runVars, Responses
  <2>4. CASE f.type = "request" /\ Handles(s, Frame("res", f.of, 0)) /\ UNCHANGED runVars
    BY <2>1, <2>4 DEF runVars, Responses
  <2>5. CASE /\ f.type = "request" /\ kind[f.of] # "call" /\ Handles(s, Frame("res", f.of, 0))
             /\ run' = [run EXCEPT ![f.of] = "running"] /\ sink' = [sink EXCEPT ![f.of] = s]
             /\ events' = events
    BY <2>1, <2>5 DEF Responses
  <2>6. CASE f.type = "request" /\ Handles(s, Frame("err", f.of, 0)) /\ UNCHANGED runVars
    BY <2>1, <2>6 DEF runVars, Responses
  <2> QED  BY <2>2, <2>3, <2>4, <2>5, <2>6
<1>9. up' = [up EXCEPT ![s] = <<>>] /\ answer' = [answer EXCEPT ![s] = <<ans>>]
  BY <1>4, <1>6, <1>8 DEF Handles
<1> QED  BY <1>2, <1>5, <1>7, <1>8, <1>9

(* A request is served once: its run begins with no event behind it. *)
LEMMA ServeKeeps ==
  ASSUME PoolIInv, NEW s \in Sockets, Serve(s)
  PROVE  PoolIInv'
<1>1. /\ Typed /\ PoolOK /\ Holding /\ Single
      /\ \A t \in Sockets : Wires(t) /\ Exchanges(t)
      /\ \A x \in Requests : Sinks(x) /\ Begun(x)
  BY DEF PoolIInv
<1>2. PICK f \in Elements(up[s]), ans \in Frames :
           /\ f = up[s][1] /\ ans.of = f.of /\ f.of \in Requests /\ f \in Under(s)
           /\ ans.type \in Responses
           /\ f.type = "hello" => ans.type = "hello"
           /\ f.type = "request" => ans.type # "hello"
           /\ up' = [up EXCEPT ![s] = <<>>] /\ answer' = [answer EXCEPT ![s] = <<ans>>]
           /\ socket[s] = "open" /\ answer[s] = <<>> /\ up[s] # <<>>
           /\ \/ run' = run /\ sink' = sink
              \/ /\ f.type = "request" /\ kind[f.of] # "call"
                 /\ run' = [run EXCEPT ![f.of] = "running"] /\ sink' = [sink EXCEPT ![f.of] = s]
           /\ UNCHANGED <<kind, pc, outcome, held, streamed, user, idle, permits, writer, down,
                          socket, events, restarts>>
  BY ServeFacts
<1>3. PICK r \in Requests : r = f.of
  BY <1>2
<1>4. /\ None \notin Requests /\ 0 \notin Sockets /\ sink \in [Requests -> 0..MaxSockets]
      /\ run \in [Requests -> {"none", "running", "asking", "over"}]
      /\ MaxEvents \in Nat \ {0} /\ Sockets = 1..MaxSockets
  BY <1>1, PoolTypes
<1>5. up' \in [Sockets -> Seq(Frames)] /\ up'[s] = <<>> /\ \A t \in Sockets \ {s} : up'[t] = up[t]
  BY <1>1, <1>2, PoolTypes
<1>6. /\ answer' \in [Sockets -> Seq(Frames)] /\ answer'[s] = <<ans>>
      /\ \A t \in Sockets \ {s} : answer'[t] = answer[t]
  BY <1>1, <1>2, PoolTypes
<1>8. /\ run' \in [Requests -> {"none", "running", "asking", "over"}]
      /\ sink' \in [Requests -> 0..MaxSockets]
      /\ \A x \in Requests \ {r} : run'[x] = run[x] /\ sink'[x] = sink[x]
      /\ \/ run'[r] = run[r] /\ sink'[r] = sink[r]
         \/ /\ f.type = "request" /\ kind[r] # "call"
            /\ run'[r] = "running" /\ sink'[r] = s
  BY <1>2, <1>3, <1>4
<1>9. Typed'
  BY <1>1, <1>2, <1>5, <1>6, <1>8 DEF Typed, TypeOK
<1>10. \A t \in Sockets : InPool(t)' <=> InPool(t)
  BY <1>2 DEF InPool
<1>11. /\ f.type \in {"hello", "request"} /\ (f.type = "request" => run[r] = "none")
       /\ OfUser(s, f) /\ ~InPool(s)
  BY <1>1, <1>2, <1>3 DEF Wires, AtRest
<1>12. \A t \in Sockets \ {s} : \A g \in Elements(up[t]) : g.of # r
  BY <1>1, <1>2, <1>3 DEF Single
<1>13. \A t \in Sockets \ {s} : user[t] # r
  BY <1>1, <1>3, <1>4, <1>11 DEF OfUser, Holding, Active
<1>14. Elements(up[s])' = {} /\ Elements(answer[s])' = {ans}
  <2>1. Elements(<<ans>>) = {ans}
    BY ElementsOfOne
  <2> QED  BY <1>5, <1>6, <2>1, ElementsOfNone DEF Elements
<1>15. Wires(s)'
  <2>1. \A g \in Under(s)' : g = ans \/ g \in Under(s)
    BY <1>2, <1>14 DEF Under
  <2>2. OfUser(s, ans)'
    BY <1>2, <1>11 DEF OfUser
  <2>3. \A g \in Under(s) : OfUser(s, g)'
    BY <1>1, <1>2 DEF Wires, OfUser
  <2>4. Len(up'[s]) <= 1
    <3>1. Len(<<>>) <= 1
      OBVIOUS
    <3> QED  BY <1>5, <3>1
  <2>5. \A g \in Under(s)' : OfUser(s, g)'
    BY <2>1, <2>2, <2>3
  <2>6. ~InPool(s)' /\ socket'[s] # "unused"
    BY <1>2, <1>10, <1>11
  <2> QED  BY <1>14, <2>4, <2>5, <2>6 DEF Wires
<1>16. Exchanges(s)'
  <2> SUFFICES ASSUME NEW x \in Requests, user'[s] = x
               PROVE  \E b \in Nat, q \in 0..Len(down'[s]) : Exchange(x, s, b, q)'
    BY DEF Exchanges
  <2>1. PICK b \in Nat, q \in 0..Len(down[s]) : Exchange(x, s, b, q)
    BY <1>1, <1>2 DEF Exchanges
  <2>2. x = r
    BY <1>2, <1>3, <1>4, <1>11 DEF OfUser
  <2>3. up[s][1] = Asked(r) /\ pc[r] \in {"hello", "sent"} /\ q = 0
    BY <1>2, <2>1, <2>2 DEF Exchange
  <2>4. /\ pc[r] = "hello" => f.type = "hello"
        /\ pc[r] = "sent" => f.type = "request"
    BY <1>1, <1>2, <2>3, FrameFacts DEF Asked
  <2>5. ans.type \in Expected(r)'
    BY <1>2, <2>3, <2>4 DEF Expected
  <2>6. Len(<<ans>>) = 1 /\ <<ans>>[1] = ans
    OBVIOUS
  <2>7. Len(answer'[s]) = 1 /\ answer'[s][1] = ans
    BY <1>6, <2>6
  <2>8. Seen(r, b)'
    BY <1>2, <2>1, <2>2 DEF Seen, Exchange
  <2>9. Live(r, s)' => Total(Len(down'[s]), b, 0) = events'[r]
    <3>1. CASE run'[r] = run[r] /\ sink'[r] = sink[r]
      BY <1>2, <2>1, <2>2, <2>3, <3>1 DEF Exchange, Live
    <3>2. CASE f.type = "request" /\ run'[r] = "running" /\ sink'[r] = s
      <4>1. events[r] = 0
        BY <1>1, <1>11, <3>2 DEF Begun
      <4>2. Total(Len(down[s]), b, 0) <= 0
        BY <2>1, <2>2, <2>3, <4>1 DEF Exchange
      <4>3. Len(down[s]) \in Nat
        BY <1>1, PoolTypes
      <4>4. Total(Len(down[s]), b, 0) = 0
        BY <4>2, <4>3 DEF Total
      <4> QED  BY <1>2, <4>1, <4>4
    <3> QED  BY <1>8, <3>1, <3>2
  <2>10. \A g \in Elements(down[s])' : g.type \in Ends => run'[r] = "over" /\ g.n = events'[r]
    <3>1. \A g \in Elements(down[s]) : g.type \in Ends => run[r] = "over" /\ g.n = events[r]
      BY <2>1, <2>2 DEF Exchange
    <3>2. run[r] = "over" => run'[r] = "over"
      BY <1>8, <1>11
    <3> QED  BY <1>2, <3>1, <3>2
  <2>11. Numbered(down'[s], b, 0) /\ Total(Len(down'[s]), b, 0) <= events'[r]
    BY <1>2, <2>1, <2>2, <2>3 DEF Exchange
  <2>12. Exchange(r, s, b, 0)'
    BY <1>5, <2>5, <2>7, <2>8, <2>9, <2>10, <2>11 DEF Exchange
  <2>13. 0 \in 0..Len(down'[s])
    BY <1>2, <2>3
  <2> QED  BY <2>2, <2>12, <2>13
<1>17. ASSUME NEW t \in Sockets
       PROVE  Elements(up[t])' \subseteq Elements(up[t]) /\ Wires(t)' /\ Exchanges(t)'
  <2>1. CASE t # s
    <3>1. \A g \in Elements(up[t]) : run[g.of] = "none" => run'[g.of] = "none"
      <4>1. \A g \in Elements(up[t]) : g.of \in Requests
        <5>1. up[t] \in Seq(Frames)
          BY <1>1, PoolTypes
        <5>2. \A g \in Elements(up[t]) : g \in Frames
          BY <5>1 DEF Elements
        <5> QED  BY <5>2 DEF Frames
      <4> QED  BY <1>8, <1>12, <2>1, <4>1
    <3>2. Wires(t)'
      BY <1>1, <1>2, <1>5, <1>6, <1>9, <1>10, <2>1, <3>1, WiresSame
    <3>3. \A x \in Requests : user[t] = x => (Live(x, t)' => Live(x, t)) /\ run'[x] = run[x]
      BY <1>2, <1>8, <1>13, <2>1 DEF Live
    <3>4. Exchanges(t)'
      BY <1>1, <1>2, <1>5, <1>6, <2>1, <3>3, ExchangeStays
    <3> QED  BY <1>5, <2>1, <3>2, <3>4
  <2>2. CASE t = s
    BY <1>14, <1>15, <1>16, <2>2
  <2> QED  BY <2>1, <2>2
<1>18. \A t \in Sockets : Dropped(t)' <=> Dropped(t)
  BY <1>2, <1>10 DEF Dropped
<1>19. ASSUME NEW x \in Requests PROVE Sinks(x)' /\ Begun(x)'
  <2>1. CASE run'[x] = run[x] /\ sink'[x] = sink[x]
    BY <1>1, <1>2, <1>4, <1>18, <2>1, SinkStays, BegunStays
  <2>2. CASE /\ x = r /\ f.type = "request" /\ kind[r] # "call"
             /\ run'[r] = "running" /\ sink'[r] = s
    <3>1. user[s] = r \/ (pc[r] = "over" /\ Dropped(s))
      BY <1>3, <1>11 DEF OfUser, Dropped
    <3>2. pc[r] \in {"sent", "over"}
      <4>1. ASSUME user[s] = r PROVE pc[r] = "sent"
        <5>1. PICK b \in Nat, q \in 0..Len(down[s]) : Exchange(r, s, b, q)
          BY <1>1, <4>1 DEF Exchanges
        <5>2. up[s][1] = Asked(r) /\ pc[r] \in {"hello", "sent"}
          BY <1>2, <5>1 DEF Exchange
        <5> QED  BY <1>1, <1>2, <2>2, <5>2, FrameFacts DEF Asked
      <4> QED  BY <3>1, <4>1
    <3>3. Begun(r)'
      <4>1. Begun(r) /\ run[r] = "none"
        BY <1>1, <1>11, <2>2
      <4>2. events[r] = 0
        BY <4>1 DEF Begun
      <4> QED  BY <1>2, <1>4, <2>2, <3>2, <4>1, <4>2 DEF Begun
    <3>4. Sinks(r)'
      BY <1>2, <1>18, <2>2, <3>1 DEF Sinks
    <3> QED  BY <2>2, <3>3, <3>4
  <2> QED  BY <1>8, <2>1, <2>2
<1> QED  BY <1>2, <1>9, <1>17, <1>19, TaskKeeps

LEMMA HandlerEndKeeps ==
  ASSUME PoolIInv, NEW s \in Sockets, HandlerEnds(s)
  PROVE  PoolIInv'
<1>1. /\ Typed /\ PoolOK /\ \A t \in Sockets : Wires(t) /\ Exchanges(t)
      /\ \A x \in Requests : Sinks(x) /\ Begun(x)
  BY DEF PoolIInv
<1>2. /\ socket[s] = "closed" /\ answer' = [answer EXCEPT ![s] = <<>>]
      /\ sink' = [r \in Requests |-> IF sink[r] = s THEN 0 ELSE sink[r]]
      /\ UNCHANGED <<kind, pc, outcome, held, streamed, user, idle, permits, writer, up, down,
                     socket, run, events, restarts>>
  BY DEF HandlerEnds, requestVars, poolVars
<1>3. /\ answer' \in [Sockets -> Seq(Frames)] /\ answer'[s] = <<>>
      /\ \A t \in Sockets \ {s} : answer'[t] = answer[t]
  BY <1>1, <1>2, PoolTypes
<1>4. /\ sink \in [Requests -> 0..MaxSockets] /\ None \notin Requests /\ 0 \notin Sockets
      /\ MaxSockets \in Nat
  BY <1>1, PoolTypes
<1>5. sink' \in [Requests -> 0..MaxSockets] /\ \A x \in Requests : sink'[x] \in {0, sink[x]}
  BY <1>2, <1>4
<1>6. Typed'
  BY <1>1, <1>2, <1>3, <1>5 DEF Typed, TypeOK
<1>7. \A t \in Sockets : InPool(t)' <=> InPool(t)
  BY <1>2 DEF InPool
<1>8. \A x \in Requests, t \in Sockets : Live(x, t)' => Live(x, t)
  BY <1>2, <1>4, <1>5 DEF Live
<1>9. ASSUME NEW t \in Sockets
      PROVE  Elements(up[t])' \subseteq Elements(up[t]) /\ Wires(t)' /\ Exchanges(t)'
  <2>1. CASE t # s
    BY <1>1, <1>2, <1>3, <1>6, <1>7, <1>8, <2>1, WiresSame, ExchangeStays
  <2>2. CASE t = s
    <3>1. user[s] = None /\ ~InPool(s)
      BY <1>1, <1>2 DEF PoolOK
    <3>2. Exchanges(s)'
      BY <1>2, <1>4, <3>1 DEF Exchanges
    <3>3. Under(s)' \subseteq Under(s) /\ Elements(up[s])' = Elements(up[s])
      BY <1>2, <1>3, ElementsOfNone DEF Under
    <3>4. Len(up'[s]) <= 1 /\ ~InPool(s)' /\ socket'[s] # "unused"
      BY <1>1, <1>2, <1>7, <3>1 DEF Wires
    <3>5. Wires(s)'
      BY <1>1, <1>2, <1>6, <3>3, <3>4, WiresStay
    <3> QED  BY <2>2, <3>2, <3>3, <3>5
  <2> QED  BY <2>1, <2>2
<1>10. ASSUME NEW x \in Requests PROVE Sinks(x)' /\ Begun(x)'
  <2>1. \A t \in Sockets : Dropped(t) => Dropped(t)'
    BY <1>2, <1>7 DEF Dropped
  <2> QED  BY <1>1, <1>2, <1>4, <1>5, <2>1, SinkStays, BegunStays
<1> QED  BY <1>2, <1>6, <1>9, <1>10, TaskKeeps

(* A run pushes an event: to its request, as the next of its numbers, or into
   a connection that nobody reads any more. *)
LEMMA PushKeeps ==
  ASSUME PoolIInv, NEW r \in Requests, run[r] = "running", NEW type \in Events, Push(r, type),
         NEW w \in {"running", "asking", "over"}, run' = [run EXCEPT ![r] = w],
         type \in Ends => w = "over", w # "over" => events[r] + 1 < MaxEvents
  PROVE  PoolIInv'
<1>1. /\ Typed /\ PoolOK /\ Holding /\ \A t \in Sockets : Wires(t) /\ Exchanges(t)
      /\ \A x \in Requests : Sinks(x) /\ Begun(x)
  BY DEF PoolIInv
<1>2. /\ events' = [events EXCEPT ![r] = @ + 1]
      /\ down' = IF sink[r] # 0 /\ socket[sink[r]] = "open"
                 THEN [down EXCEPT ![sink[r]] = Append(@, Frame(type, r, events[r] + 1))]
                 ELSE down
      /\ UNCHANGED <<kind, pc, outcome, held, streamed, user, idle, permits, writer, up, socket,
                     answer, sink, restarts>>
  BY DEF Push, requestVars, poolVars
<1>3. /\ down \in [Sockets -> Seq(Frames)] /\ events \in [Requests -> 0..MaxEvents]
      /\ run \in [Requests -> {"none", "running", "asking", "over"}]
      /\ MaxEvents \in Nat \ {0} /\ None \notin Requests /\ 0 \notin Sockets
      /\ sink[r] # 0 => sink[r] \in Sockets
  BY <1>1, PoolTypes
<1>4. events[r] + 1 \in 0..MaxEvents /\ events[r] \in Nat /\ events[r] < MaxEvents
  <2>1. events[r] < MaxEvents /\ events[r] \in 0..MaxEvents
    BY <1>1, <1>3 DEF Begun
  <2> QED  BY <1>3, <2>1
<1>5. /\ events' \in [Requests -> 0..MaxEvents] /\ events'[r] = events[r] + 1
      /\ \A x \in Requests \ {r} : events'[x] = events[x]
  BY <1>2, <1>3, <1>4
<1>6. /\ run' \in [Requests -> {"none", "running", "asking", "over"}] /\ run'[r] = w
      /\ \A x \in Requests \ {r} : run'[x] = run[x]
  BY <1>3
<1>7. PICK f : f = Frame(type, r, events[r] + 1)
  OBVIOUS
<1>8. f \in Frames /\ f.type = type /\ f.of = r /\ f.n = events[r] + 1
  <2>1. type \in {"hello", "res", "err", "text"} \cup Ends
    BY DEF Events
  <2> QED  BY <1>1, <1>4, <1>7, <2>1, FrameFacts
<1>9. \/ down' = down
      \/ /\ sink[r] \in Sockets /\ socket[sink[r]] = "open"
         /\ down' = [down EXCEPT ![sink[r]] = Append(@, f)]
  BY <1>2, <1>3, <1>7
<1>10. down' \in [Sockets -> Seq(Frames)]
  <2>1. \A t \in Sockets : Append(down[t], f) \in Seq(Frames)
    BY <1>3, <1>8
  <2> QED  BY <1>3, <1>9, <2>1
<1>11. \A t \in Sockets : \/ down'[t] = down[t] /\ ~(sink[r] = t /\ socket[t] = "open")
                          \/ sink[r] = t /\ socket[t] = "open" /\ down'[t] = Append(down[t], f)
  BY <1>2, <1>3, <1>7
<1>12. Typed'
  BY <1>1, <1>2, <1>5, <1>6, <1>10 DEF Typed, TypeOK
<1>13. \A t \in Sockets : InPool(t)' <=> InPool(t)
  BY <1>2 DEF InPool
<1>14. \A x \in Requests : run[x] = "none" => run'[x] = "none"
  BY <1>6
<1>15. \A t \in Sockets : \A g \in Elements(up[t]) : run[g.of] = "none" => run'[g.of] = "none"
  <2> SUFFICES ASSUME NEW t \in Sockets, NEW g \in Elements(up[t]) PROVE g.of \in Requests
    BY <1>14
  <2>1. up[t] \in Seq(Frames)
    BY <1>1, PoolTypes
  <2>2. g \in Frames
    BY <2>1 DEF Elements
  <2> QED  BY <2>2 DEF Frames
<1>16. ASSUME NEW t \in Sockets, down'[t] = down[t], ~(sink[r] = t /\ socket[t] = "open")
       PROVE  Wires(t)' /\ Exchanges(t)'
  <2>1. Wires(t)'
    BY <1>1, <1>2, <1>12, <1>13, <1>15, <1>16, WiresSame
  <2>2. CASE user[t] # r
    <3>1. \A x \in Requests : user[t] = x => /\ Live(x, t)' => Live(x, t)
                                             /\ events'[x] = events[x]
                                             /\ run[x] = "over" => run'[x] = "over"
      BY <1>2, <1>5, <1>6, <2>2 DEF Live
    <3>2. Exchanges(t)'
      BY <1>1, <1>2, <1>16, <3>1, ExchangeStays
    <3> QED  BY <2>1, <3>2
  <2>3. CASE user[t] = r
    <3>1. PICK b \in Nat, q \in 0..Len(down[t]) : Exchange(r, t, b, q)
      BY <1>1, <2>3 DEF Exchanges
    <3>2. /\ Seen(r, b)' /\ Asked(r)' = Asked(r) /\ Expected(r)' = Expected(r) /\ ~Live(r, t)'
      BY <1>2, <1>16, <3>1 DEF Exchange, Seen, Asked, Expected, Live, Hello, Ask
    <3>3. Total(Len(down'[t]), b, q) <= events'[r]
      <4>1. Total(Len(down[t]), b, q) <= events[r]
        BY <3>1 DEF Exchange
      <4>2. Len(down[t]) \in Nat
        BY <1>3
      <4>3. Total(Len(down[t]), b, q) \in Int
        BY <4>2 DEF Total
      <4> QED  BY <1>4, <1>5, <1>16, <4>1, <4>3
    <3>4. \A g \in Elements(down[t])' : g.type \in Ends => run'[r] = "over" /\ g.n = events'[r]
      BY <1>16, <3>1 DEF Exchange, Elements
    <3>5. Exchange(r, t, b, q)'
      BY <1>2, <1>16, <3>1, <3>2, <3>3, <3>4 DEF Exchange
    <3> QED  BY <1>2, <1>16, <2>1, <2>3, <3>5 DEF Exchanges
  <2> QED  BY <2>2, <2>3
<1>17. ASSUME NEW t \in Sockets, sink[r] = t, socket[t] = "open", down'[t] = Append(down[t], f)
       PROVE  Wires(t)' /\ Exchanges(t)'
  <2>1. user[t] = r \/ (pc[r] = "over" /\ Dropped(t))
    BY <1>1, <1>17 DEF Sinks
  <2>2. Elements(down[t])' = Elements(down[t]) \cup {f}
    <3>1. Elements(Append(down[t], f)) = Elements(down[t]) \cup {f}
      BY <1>3, <1>8, AppendFacts
    <3> QED  BY <1>17, <3>1 DEF Elements
  <2>3. Wires(t)'
    <3>1. \A g \in Under(t)' : g \in Under(t) \/ g = f
      BY <1>2, <2>2 DEF Under
    <3>2. OfUser(t, f)'
      BY <1>2, <1>8, <2>1 DEF OfUser, Dropped
    <3>3. \A g \in Under(t) : OfUser(t, g)'
      BY <1>1, <1>2 DEF Wires, OfUser
    <3>4. \A g \in Under(t)' : OfUser(t, g)'
      BY <3>1, <3>2, <3>3
    <3>5. ~InPool(t)' /\ socket'[t] # "unused"
      BY <1>1, <1>2, <1>3, <1>13, <1>17, <2>1 DEF PoolOK, Dropped
    <3>6. Elements(up[t])' = Elements(up[t]) /\ Len(up'[t]) <= 1
      BY <1>1, <1>2 DEF Wires
    <3>7. \A g \in Elements(up[t])' : /\ g.type \in {"hello", "request"}
                                      /\ g.type = "request" => run'[g.of] = "none"
      BY <1>1, <1>15, <3>6 DEF Wires
    <3> QED  BY <3>4, <3>5, <3>6, <3>7 DEF Wires
  <2>4. CASE user[t] # r
    <3>1. user'[t] = None
      BY <1>2, <2>1, <2>4 DEF Dropped
    <3> QED  BY <1>3, <2>3, <3>1 DEF Exchanges
  <2>5. CASE user[t] = r
    <3>1. PICK b \in Nat, q \in 0..Len(down[t]) : Exchange(r, t, b, q)
      BY <1>1, <2>5 DEF Exchanges
    <3>2. Live(r, t)
      BY <1>17 DEF Live
    <3>3. Numbered(down[t], b, q) /\ Total(Len(down[t]), b, q) = events[r]
      BY <3>1, <3>2 DEF Exchange
    <3>4. /\ Numbered(down'[t], b, q) /\ q \in 0..Len(down'[t])
          /\ Total(Len(down'[t]), b, q) = events[r] + 1
          /\ q # 0 => down'[t][q] = down[t][q]
      BY <1>3, <1>8, <1>17, <3>3, AppendEvent
    <3>5. Seen(r, b)' /\ Asked(r)' = Asked(r) /\ Expected(r)' = Expected(r)
      BY <1>2, <3>1 DEF Exchange, Seen, Asked, Expected, Hello, Ask
    <3>6. \A g \in Elements(down[t])' : g.type \in Ends => run'[r] = "over" /\ g.n = events'[r]
      <4>1. \A g \in Elements(down[t]) : g.type \notin Ends
        BY <3>1 DEF Exchange
      <4> QED  BY <1>5, <1>6, <1>8, <2>2, <4>1
    <3>7. Total(Len(down'[t]), b, q) <= events'[r] /\ Total(Len(down'[t]), b, q) = events'[r]
      BY <1>4, <1>5, <3>4
    <3>8. Exchange(r, t, b, q)'
      BY <1>2, <3>1, <3>4, <3>5, <3>6, <3>7 DEF Exchange
    <3> QED  BY <1>2, <2>3, <2>5, <3>4, <3>8 DEF Exchanges
  <2> QED  BY <2>4, <2>5
<1>18. \A t \in Sockets : Elements(up[t])' \subseteq Elements(up[t]) /\ Wires(t)' /\ Exchanges(t)'
  BY <1>2, <1>11, <1>16, <1>17
<1>19. ASSUME NEW x \in Requests PROVE Sinks(x)' /\ Begun(x)'
  <2>1. \A t \in Sockets : Dropped(t) => Dropped(t)'
    BY <1>2, <1>13 DEF Dropped
  <2>2. Sinks(x)'
    BY <1>1, <1>2, <1>3, <1>6, <2>1, SinkStays
  <2>3. CASE x # r
    BY <1>1, <1>2, <1>5, <1>6, <2>2, <2>3, BegunStays
  <2>4. CASE x = r
    <3>1. Begun(r)'
      BY <1>1, <1>2, <1>5, <1>6 DEF Begun
    <3> QED  BY <2>2, <2>4, <3>1
  <2> QED  BY <2>3, <2>4
<1> QED  BY <1>2, <1>12, <1>18, <1>19, TaskKeeps

LEMMA RunKeeps ==
  ASSUME PoolIInv, NEW r \in Requests, RunSays(r) \/ RunEnds(r)
  PROVE  PoolIInv'
<1>1. Typed
  BY DEF PoolIInv
<1>2. run \in [Requests -> {"none", "running", "asking", "over"}]
  BY <1>1, PoolTypes
<1>3. events[r] \in Nat /\ MaxEvents \in Nat
  BY <1>1, PoolTypes
<1>4. \A e \in Ends : e \in Events
  BY DEF Events
<1>5. "text" \in Events /\ "text" \notin Ends
  BY DEF Events, Ends
<1>6. CASE RunSays(r)
  <2>1. /\ run[r] = "running" /\ events[r] < MaxEvents - 1 /\ Push(r, "text")
        /\ run' = run \/ run' = [run EXCEPT ![r] = "asking"]
    BY <1>6 DEF RunSays
  <2>2. events[r] + 1 < MaxEvents
    BY <1>3, <2>1
  <2>3. CASE run' = run
    <3>1. run' = [run EXCEPT ![r] = "running"]
      BY <1>2, <2>1, <2>3
    <3> QED  BY <1>5, <2>1, <2>2, <3>1, PushKeeps
  <2>4. CASE run' = [run EXCEPT ![r] = "asking"]
    BY <1>5, <2>1, <2>2, <2>4, PushKeeps
  <2> QED  BY <2>1, <2>3, <2>4
<1>7. CASE RunEnds(r)
  <2>1. PICK e \in Ends : /\ run[r] = "running" /\ Push(r, e)
                          /\ run' = [run EXCEPT ![r] = "over"]
    BY <1>7 DEF RunEnds
  <2> QED  BY <1>4, <2>1, PushKeeps
<1> QED  BY <1>6, <1>7

LEMMA AskKeeps ==
  ASSUME PoolIInv, NEW r \in Requests, AskAnswered(r) \/ AskSeesClosed(r)
  PROVE  PoolIInv'
<1>1. /\ Typed /\ \A t \in Sockets : Wires(t) /\ Exchanges(t)
      /\ \A x \in Requests : Sinks(x) /\ Begun(x)
  BY DEF PoolIInv
<1>2. /\ run[r] = "asking" /\ run' = [run EXCEPT ![r] = "running"]
      /\ UNCHANGED <<kind, pc, outcome, held, streamed, user, idle, permits, writer, up, down,
                     socket, answer, sink, events, restarts>>
  BY DEF AskAnswered, AskSeesClosed, requestVars, poolVars, wireVars
<1>3. /\ run' \in [Requests -> {"none", "running", "asking", "over"}] /\ run'[r] = "running"
      /\ \A x \in Requests \ {r} : run'[x] = run[x]
  BY <1>1, <1>2, PoolTypes
<1>4. Typed'
  BY <1>1, <1>2, <1>3 DEF Typed, TypeOK
<1>5. \A t \in Sockets : InPool(t)' <=> InPool(t)
  BY <1>2 DEF InPool
<1>6. \A x \in Requests : /\ run[x] = "none" => run'[x] = "none"
                          /\ run[x] = "over" => run'[x] = "over"
                          /\ \A t \in Sockets : Live(x, t)' => Live(x, t)
  BY <1>2, <1>3 DEF Live
<1>7. ASSUME NEW t \in Sockets
      PROVE  Elements(up[t])' \subseteq Elements(up[t]) /\ Wires(t)' /\ Exchanges(t)'
  <2>1. up[t] \in Seq(Frames)
    BY <1>1, PoolTypes
  <2>2. \A g \in Elements(up[t]) : g \in Frames
    BY <2>1 DEF Elements
  <2>3. \A g \in Elements(up[t]) : run[g.of] = "none" => run'[g.of] = "none"
    BY <1>6, <2>2 DEF Frames
  <2>4. Wires(t)'
    BY <1>1, <1>2, <1>4, <1>5, <2>3, WiresSame
  <2>5. Exchanges(t)'
    BY <1>1, <1>2, <1>6, ExchangeStays
  <2> QED  BY <1>2, <2>4, <2>5
<1>8. ASSUME NEW x \in Requests PROVE Sinks(x)' /\ Begun(x)'
  <2>1. 0 \notin Sockets /\ \A t \in Sockets : Dropped(t) => Dropped(t)'
    BY <1>1, <1>2, <1>5, PoolTypes DEF Dropped
  <2>2. Sinks(x)'
    BY <1>1, <1>2, <1>6, <2>1, SinkStays
  <2>3. Begun(x)'
    BY <1>1, <1>2, <1>3 DEF Begun
  <2> QED  BY <2>2, <2>3
<1> QED  BY <1>2, <1>4, <1>7, <1>8, TaskKeeps

(* The daemon is gone: nobody streams, and nothing more is answered. *)
LEMMA RestartKeeps ==
  ASSUME PoolIInv, Restart
  PROVE  PoolIInv'
<1>1. /\ Typed /\ \A t \in Sockets : Wires(t) /\ Exchanges(t)
      /\ \A x \in Requests : Sinks(x) /\ Begun(x)
  BY DEF PoolIInv
<1>2. /\ restarts > 0 /\ restarts' = restarts - 1
      /\ socket' = [s \in Sockets |-> IF socket[s] = "open" THEN "shut" ELSE socket[s]]
      /\ answer' = [s \in Sockets |-> <<>>]
      /\ run' = [r \in Requests |-> IF run[r] = "none" THEN "none" ELSE "over"]
      /\ sink' = [r \in Requests |-> 0]
      /\ UNCHANGED <<kind, pc, outcome, held, streamed, user, idle, permits, writer, up, down,
                     events>>
  BY DEF Restart, requestVars, poolVars
<1>3. /\ socket \in [Sockets -> {"unused", "open", "shut", "closed"}] /\ MaxSockets \in Nat
      /\ 0 \notin Sockets
  BY <1>1, PoolTypes
<1>4. /\ socket' \in [Sockets -> {"unused", "open", "shut", "closed"}]
      /\ \A t \in Sockets : socket'[t] = IF socket[t] = "open" THEN "shut" ELSE socket[t]
  BY <1>2, <1>3
<1>5. answer' \in [Sockets -> Seq(Frames)] /\ \A t \in Sockets : answer'[t] = <<>>
  BY <1>2
<1>6. /\ run' \in [Requests -> {"none", "running", "asking", "over"}]
      /\ \A x \in Requests : run'[x] = IF run[x] = "none" THEN "none" ELSE "over"
  BY <1>2
<1>7. sink' \in [Requests -> 0..MaxSockets] /\ \A x \in Requests : sink'[x] = 0
  BY <1>2, <1>3
<1>8. restarts' \in 0..MaxRestarts
  <2>1. restarts \in 0..MaxRestarts /\ MaxRestarts \in Nat
    BY <1>1 DEF Typed, TypeOK, GatewayAssumption
  <2> QED  BY <1>2, <2>1
<1>9. Typed'
  BY <1>1, <1>2, <1>4, <1>5, <1>6, <1>7, <1>8 DEF Typed, TypeOK
<1>10. \A t \in Sockets : InPool(t)' <=> InPool(t)
  BY <1>2 DEF InPool
<1>11. ASSUME NEW t \in Sockets
       PROVE  Elements(up[t])' \subseteq Elements(up[t]) /\ Wires(t)' /\ Exchanges(t)'
  <2>1. up[t] \in Seq(Frames)
    BY <1>1, PoolTypes
  <2>2. \A g \in Elements(up[t]) : g \in Frames
    BY <2>1 DEF Elements
  <2>3. \A g \in Elements(up[t]) : run[g.of] = "none" => run'[g.of] = "none"
    BY <1>6, <2>2 DEF Frames
  <2>4. Under(t)' \subseteq Under(t) /\ Elements(up[t])' = Elements(up[t]) /\ Len(up'[t]) <= 1
    BY <1>1, <1>2, <1>5, ElementsOfNone DEF Under, Wires
  <2>5. InPool(t)' \/ socket'[t] = "unused" => AtRest(t)'
    BY <1>1, <1>2, <1>4, <1>5, <1>10 DEF Wires, AtRest
  <2>6. Wires(t)'
    BY <1>1, <1>2, <1>9, <2>3, <2>4, <2>5, WiresStay
  <2>7. ASSUME NEW x \in Requests, user'[t] = x
        PROVE  \E b \in Nat, q \in 0..Len(down'[t]) : Exchange(x, t, b, q)'
    <3>1. PICK b \in Nat, q \in 0..Len(down[t]) : Exchange(x, t, b, q)
      BY <1>1, <1>2, <2>7 DEF Exchanges
    <3>2. Seen(x, b)' /\ Asked(x)' = Asked(x) /\ Expected(x)' = Expected(x)
      BY <1>2, <3>1 DEF Exchange, Seen, Asked, Expected, Hello, Ask
    <3>3. ~Live(x, t)'
      BY <1>3, <1>7 DEF Live
    <3>4. run[x] = "over" => run'[x] = "over"
      BY <1>6
    <3>5. Exchange(x, t, b, q)'
      BY <1>2, <1>5, <3>1, <3>2, <3>3, <3>4 DEF Exchange
    <3> QED  BY <1>2, <3>5
  <2> QED  BY <2>4, <2>6, <2>7 DEF Exchanges
<1>12. ASSUME NEW x \in Requests PROVE Sinks(x)' /\ Begun(x)'
  BY <1>1, <1>2, <1>3, <1>6, <1>7 DEF Sinks, Begun
<1>13. \A t \in Sockets : socket[t] \in {"open", "shut"} => socket'[t] \in {"open", "shut"}
  BY <1>4
<1> QED  BY <1>2, <1>9, <1>11, <1>12, <1>13, TaskKeeps
-------------------------------------------------------------------------------
(* The invariant holds, and what follows from it.                          *)

LEMMA PoolBegins == ASSUME GatewayAssumption, Init PROVE PoolIInv
<1>1. /\ MaxConns \in Nat /\ MaxIdle \in Nat /\ MaxSockets \in Nat /\ MaxEvents \in Nat \ {0}
      /\ MaxRestarts \in Nat /\ None \notin Requests /\ Kinds \subseteq AllKinds
  BY DEF GatewayAssumption
<1>2. TypeOK
  BY <1>1 DEF Init, TypeOK
<1>3. \A s \in Sockets : AtRest(s) /\ Under(s) = {} /\ Elements(up[s]) = {}
  BY ElementsOfNone DEF Init, AtRest, Under
<1>4. PoolOK
  <2>1. InUse = {}
    BY DEF Init, InUse
  <2>2. permits = MaxConns /\ Len(idle) = 0 /\ idle = <<>> /\ DOMAIN idle = {}
    BY DEF Init
  <2>3. PermitsAddUp
    BY <1>1, <2>1, <2>2, FS_EmptySet DEF PermitsAddUp
  <2> QED  BY <1>1, <2>2, <2>3 DEF PoolOK, InPool, Init
<1>5. Holding
  BY <1>1 DEF Init, Holding, Active
<1>6. Single
  BY <1>3 DEF Single
<1>7. ASSUME NEW s \in Sockets PROVE Wires(s) /\ Exchanges(s)
  <2>1. Len(up[s]) = 0
    BY DEF Init
  <2>2. Wires(s)
    BY <1>3, <2>1 DEF Wires
  <2> QED  BY <1>1, <2>2 DEF Exchanges, Init
<1>8. ASSUME NEW r \in Requests PROVE Sinks(r) /\ Begun(r) /\ Gapless(r)
  <2>1. 0 \notin Sockets
    BY <1>1 DEF Sockets
  <2> QED  BY <2>1 DEF Init, Sinks, Begun, Gapless
<1> QED  BY <1>2, <1>4, <1>5, <1>6, <1>7, <1>8 DEF PoolIInv, Typed

LEMMA StutterKeepsPool == ASSUME PoolIInv, UNCHANGED vars PROVE PoolIInv'
<1>1. UNCHANGED <<kind, pc, outcome, held, streamed, user, idle, permits, writer, up, down,
                  socket, answer, run, sink, events, restarts>>
  BY DEF vars, requestVars, poolVars, wireVars, runVars
<1>2. /\ Typed /\ \A t \in Sockets : Wires(t) /\ Exchanges(t)
      /\ \A x \in Requests : Sinks(x) /\ Begun(x)
  BY DEF PoolIInv
<1>3. Typed'
  BY <1>1, <1>2 DEF Typed, TypeOK
<1>4. \A t \in Sockets : InPool(t)' <=> InPool(t)
  BY <1>1 DEF InPool
<1>5. \A t \in Sockets : Wires(t)'
  BY <1>1, <1>2, <1>3, <1>4, WiresSame
<1>6. \A x \in Requests, t \in Sockets : Live(x, t)' => Live(x, t)
  BY <1>1 DEF Live
<1>7. \A t \in Sockets : Exchanges(t)'
  BY <1>1, <1>2, <1>6, ExchangeStays
<1>8. ASSUME NEW x \in Requests PROVE Sinks(x)' /\ Begun(x)'
  <2>1. 0 \notin Sockets /\ \A t \in Sockets : Dropped(t) => Dropped(t)'
    BY <1>1, <1>2, <1>4, PoolTypes DEF Dropped
  <2> QED  BY <1>1, <1>2, <2>1, SinkStays, BegunStays
<1> QED  BY <1>1, <1>3, <1>5, <1>7, <1>8, TaskKeeps

LEMMA NextKeepsPool == ASSUME PoolIInv, [Next]_vars PROVE PoolIInv'
<1>1. ASSUME NEW r \in Requests, Handler(r) PROVE PoolIInv'
  BY <1>1, ReuseKeeps, MovesKeep, ConnectKeeps, HearingKeeps, ClosingKeeps DEF Handler
<1>2. ASSUME NEW r \in Requests, AcquireTimeout(r) PROVE PoolIInv'
  BY <1>2, MovesKeep
<1>3. ASSUME NEW r \in Requests, ClientLeaves(r) PROVE PoolIInv'
  BY <1>3, LeavingKeeps
<1>4. ASSUME NEW r \in Requests, RunSays(r) \/ RunEnds(r) PROVE PoolIInv'
  BY <1>4, RunKeeps
<1>5. ASSUME NEW r \in Requests, AskAnswered(r) \/ AskSeesClosed(r) PROVE PoolIInv'
  BY <1>5, AskKeeps
<1>6. ASSUME NEW s \in Sockets, Tasks(s) PROVE PoolIInv'
  BY <1>6, ReaderKeeps, WriterKeeps, PushAnswerKeeps, HandlerEndKeeps DEF Tasks
<1>7. ASSUME NEW s \in Sockets, Serve(s) PROVE PoolIInv'
  BY <1>7, ServeKeeps
<1>8. CASE Restart
  BY <1>8, RestartKeeps
<1>9. CASE UNCHANGED vars
  BY <1>9, StutterKeepsPool
<1> QED  BY <1>1, <1>2, <1>3, <1>4, <1>5, <1>6, <1>7, <1>8, <1>9 DEF Next

(* At most one answer is owed on a connection in use: the frame that went up,
   the answer not yet pushed, or the response among the events. *)
LEMMA OneIsOwed ==
  ASSUME PoolIInv, NEW s \in Sockets, NEW r \in Requests, user[s] = r
  PROVE  \E k \in Nat : Owed(s) \subseteq {k}
<1>1. Typed /\ Wires(s) /\ Exchanges(s)
  BY DEF PoolIInv
<1>2. up[s] \in Seq(Frames) /\ answer[s] \in Seq(Frames) /\ down[s] \in Seq(Frames)
  BY <1>1, PoolTypes
<1>3. PICK b \in Nat, q \in 0..Len(down[s]) : Exchange(r, s, b, q)
  BY <1>1 DEF Exchanges
<1>4. /\ Numbered(down[s], b, q)
      /\ up[s] # <<>> => answer[s] = <<>> /\ q = 0
      /\ answer[s] # <<>> => Len(answer[s]) = 1 /\ q = 0
  BY <1>3 DEF Exchange
<1>5. \A x \in Events : x \notin Responses \cup {"request"}
  BY DEF Events, Ends, Responses
<1>6. \A i \in 1..Len(down[s]) : i # q => down[s][i].type \notin Responses \cup {"request"}
  BY <1>4, <1>5 DEF Numbered
<1>7. CASE up[s] = <<>> /\ answer[s] = <<>>
  <2>1. Line(s) = down[s]
    BY <1>2, <1>7, ConcatEmptySeq DEF Line
  <2>2. DOMAIN Line(s) = 1..Len(down[s])
    BY <1>2, <2>1
  <2>3. Owed(s) \subseteq {q}
    BY <1>6, <2>1, <2>2 DEF Owed
  <2> QED  BY <2>3
<1>8. ASSUME NEW F \in Seq(Frames), Len(F) = 1, Line(s) = F \o down[s], q = 0
      PROVE  Owed(s) \subseteq {1}
  <2>1. /\ Len(Line(s)) = 1 + Len(down[s]) /\ Len(down[s]) \in Nat /\ Line(s) \in Seq(Frames)
        /\ \A i \in 1..(1 + Len(down[s])) :
             Line(s)[i] = IF i <= 1 THEN F[i] ELSE down[s][i - 1]
    <3>1. /\ F \o down[s] \in Seq(Frames) /\ Len(F \o down[s]) = Len(F) + Len(down[s])
          /\ \A i \in 1..(Len(F) + Len(down[s])) :
               (F \o down[s])[i] = IF i <= Len(F) THEN F[i] ELSE down[s][i - Len(F)]
      BY <1>2, ConcatProperties
    <3>2. Len(down[s]) \in Nat
      BY <1>2
    <3> QED  BY <1>8, <3>1, <3>2
  <2>2. DOMAIN Line(s) = 1..(1 + Len(down[s]))
    BY <2>1
  <2> SUFFICES ASSUME NEW i \in 1..(1 + Len(down[s])), i # 1
               PROVE  Line(s)[i].type \notin Responses \cup {"request"}
    BY <2>2 DEF Owed
  <2>3. \A n \in Nat : \A j \in 1..(1 + n) : j # 1 => j - 1 \in 1..n /\ ~(j <= 1) /\ j - 1 # 0
    OBVIOUS
  <2>4. i - 1 \in 1..Len(down[s]) /\ ~(i <= 1) /\ i - 1 # q
    BY <1>8, <2>1, <2>3
  <2> QED  BY <1>6, <2>1, <2>4
<1>9. CASE up[s] # <<>>
  <2>1. Len(up[s]) = 1
    <3>1. Len(up[s]) \in Nat \ {0} /\ Len(up[s]) <= 1
      BY <1>1, <1>2, <1>9, EmptySeq DEF Wires
    <3>2. \A n \in Nat \ {0} : n <= 1 => n = 1
      OBVIOUS
    <3> QED  BY <3>1, <3>2
  <2>2. Line(s) = up[s] \o down[s]
    BY <1>2, <1>4, <1>9, ConcatEmptySeq DEF Line
  <2> QED  BY <1>2, <1>4, <1>8, <1>9, <2>1, <2>2
<1>10. CASE up[s] = <<>> /\ answer[s] # <<>>
  <2>1. Line(s) = answer[s] \o down[s]
    BY <1>2, <1>10, ConcatEmptySeq DEF Line
  <2> QED  BY <1>2, <1>4, <1>8, <1>10, <2>1
<1> QED  BY <1>7, <1>9, <1>10

LEMMA LineIsUnderWay ==
  ASSUME Typed, NEW s \in Sockets, NEW i \in DOMAIN Line(s)
  PROVE  Line(s)[i] \in Under(s)
<1>1. up[s] \in Seq(Frames) /\ answer[s] \in Seq(Frames) /\ down[s] \in Seq(Frames)
  BY PoolTypes
<1>2. up[s] \o answer[s] \in Seq(Frames)
  BY <1>1, ConcatProperties
<1>3. Elements(Line(s)) \subseteq Elements(up[s] \o answer[s]) \cup Elements(down[s])
  BY <1>1, <1>2, ConcatElements DEF Line
<1>4. Elements(up[s] \o answer[s]) \subseteq Elements(up[s]) \cup Elements(answer[s])
  BY <1>1, ConcatElements
<1>5. Line(s)[i] \in Elements(Line(s))
  BY DEF Elements
<1> QED  BY <1>3, <1>4, <1>5 DEF Under

LEMMA AtRestOrOwing == ASSUME PoolIInv PROVE ConnectionsAreAtRest
<1>1. Typed /\ PoolOK /\ \A s \in Sockets : Wires(s)
  BY DEF PoolIInv
<1>2. None \notin Requests /\ user \in [Sockets -> Requests \cup {None}]
  BY <1>1, PoolTypes
<1>3. ASSUME NEW s \in Sockets, Contains(idle, s)
      PROVE  Owed(s) = {} /\ \A r \in Requests : sink[r] = s => run[r] = "over"
  <2>1. InPool(s)
    BY <1>1, <1>3, PoolTypes DEF Contains, InPool
  <2>2. AtRest(s) /\ user[s] = None
    BY <1>1, <2>1 DEF Wires, PoolOK
  <2>3. \A i \in DOMAIN Line(s) : Line(s)[i] \in Under(s)
    BY <1>1, LineIsUnderWay
  <2>4. Under(s) = {}
    BY <2>2, RestIsEmpty
  <2>5. Owed(s) = {}
    BY <2>3, <2>4 DEF Owed
  <2>6. ASSUME NEW r \in Requests, sink[r] = s PROVE run[r] = "over"
    BY <1>2, <2>1, <2>2, <2>6 DEF PoolIInv, Sinks, Dropped
  <2> QED  BY <2>5, <2>6
<1>4. ASSUME NEW s \in Sockets, user[s] # None
      PROVE  Cardinality(Owed(s)) <= 1 /\ \A i \in Owed(s) : Line(s)[i].of = user[s]
  <2>1. PICK r \in Requests : user[s] = r
    BY <1>2, <1>4
  <2>2. PICK k \in Nat : Owed(s) \subseteq {k}
    BY <2>1, OneIsOwed
  <2>3. IsFiniteSet({k}) /\ Cardinality({k}) = 1
    BY FS_Singleton
  <2>4. Cardinality(Owed(s)) <= 1
    BY <2>2, <2>3, FS_Subset
  <2>5. ASSUME NEW i \in Owed(s) PROVE Line(s)[i].of = user[s]
    <3>1. Line(s)[i] \in Under(s)
      BY <1>1, LineIsUnderWay DEF Owed
    <3> QED  BY <1>1, <1>4, <3>1 DEF Wires, OfUser
  <2> QED  BY <2>4, <2>5
<1> QED  BY <1>3, <1>4 DEF ConnectionsAreAtRest

LEMMA PoolFollows == ASSUME PoolIInv PROVE PoolInv
<1>1. Typed /\ PoolOK /\ Holding
  BY DEF PoolIInv
<1>2. Cardinality(ToSet(idle)) = Len(idle)
  <2>1. Len(idle) \in Nat /\ DOMAIN idle = 1..Len(idle) /\ idle \in Seq(Sockets)
    BY <1>1, PoolTypes
  <2>2. idle \in [1..Len(idle) -> ToSet(idle)]
    BY <2>1 DEF ToSet
  <2>3. IsInjective(idle)
    BY <1>1 DEF PoolOK, IsInjective
  <2>4. \A t \in ToSet(idle) : \E i \in 1..Len(idle) : idle[i] = t
    BY <2>1 DEF ToSet
  <2>5. ExistsBijection(1..Len(idle), ToSet(idle))
    BY <2>2, <2>3, <2>4 DEF ExistsBijection, Bijection, Injection, Surjection
  <2> QED  BY <2>1, <2>5, FS_CountingElements
<1>3. ASSUME NEW r \in Requests
      PROVE  Cardinality(Mine(r)) = IF pc[r] \in {"hello", "sent", "streaming"} THEN 1 ELSE 0
  <2>1. None \notin Requests
    BY <1>1, PoolTypes
  <2>2. CASE pc[r] \in Active
    <3>1. PICK s \in Sockets : user[s] = r
      BY <1>1, <2>2 DEF Holding
    <3>2. Mine(r) = {s}
      BY <1>1, <2>1, <3>1 DEF Holding, Mine
    <3> QED  BY <2>2, <3>2, FS_Singleton DEF Active
  <2>3. CASE pc[r] \notin Active
    <3>1. Mine(r) = {}
      BY <1>1, <2>1, <2>3 DEF Holding, Mine
    <3> QED  BY <2>3, <3>1, FS_EmptySet DEF Active
  <2> QED  BY <2>2, <2>3
<1>4. TypeOK /\ PermitsAddUp /\ Len(idle) <= MaxIdle
  BY <1>1 DEF Typed, PoolOK
<1> QED  BY <1>2, <1>3, <1>4, AtRestOrOwing DEF PoolInv

(* The pool is in order in every reachable state of every instance: permits add
   up, an idle connection is at rest, and on one in use the answer that is under
   way is its user's (ConnPool, the handlers and the daemon's side of the wire). *)
THEOREM PoolIsInOrder == Spec => []PoolInv
<1>1. Init => PoolIInv
  BY PoolBegins, GatewayAssumption
<1>2. PoolIInv /\ [Next]_vars => PoolIInv'
  BY NextKeepsPool
<1>3. PoolIInv => PoolInv
  BY PoolFollows
<1> QED  BY <1>1, <1>2, <1>3, PTL DEF Spec

(* What a page is sent of a run has no gap, and a page that resumed is sent the
   run from its first event on (proto.rs, the stream handlers, run_log replay). *)
THEOREM NoGapIsRelayed == Spec => []RelayHasNoGap
<1>1. Init => PoolIInv
  BY PoolBegins, GatewayAssumption
<1>2. PoolIInv /\ [Next]_vars => PoolIInv'
  BY NextKeepsPool
<1>3. PoolIInv => RelayHasNoGap
  BY DEF PoolIInv, Gapless, RelayHasNoGap
<1> QED  BY <1>1, <1>2, <1>3, PTL DEF Spec
===============================================================================
