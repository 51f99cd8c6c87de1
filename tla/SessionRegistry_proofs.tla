------------------------ MODULE SessionRegistry_proofs ------------------------
(***************************************************************************)
(* Theorems about SessionRegistry, for any sessions, any number of         *)
(* requests and of probes, and any length of the queue.                    *)
(***************************************************************************)
EXTENDS SessionRegistry, SequenceTheorems, TLAPS

-------------------------------------------------------------------------------
(* The inductive invariant.                                                 *)

Message == [probe : Nat] \cup [client : Clients]
Contents(s) == {s[i] : i \in DOMAIN s}
Once(s, x) == \A i, j \in DOMAIN s : s[i] = x /\ s[j] = x => i = j

(* Channels hold requests and probes. *)
MailTyped == box \in [Actors -> Seq(Message)]

(* The map gives a session an actor of its own. *)
EntryOwns == \A s \in Sessions : entry[s] # None => owner[entry[s]] = s

(* No probe is meant for main's actor, nor on its way to it. *)
ProbesSpareMain ==
  /\ \A x \in todo : x[1] # Main /\ owner[x[2]] = x[1]
  /\ \A a \in Actors : \A m \in Contents(box[a]) : IsProbe(m) => owner[a] # Main

(* A request that has taken a handle knows an actor of its session. *)
Holding(c) == pc[c] \in {"submit", "wait", "none"}
HoldersKnow == \A c \in Clients : Holding(c) => handle[c] \in Actors /\ owner[handle[c]] = Target[c]

(* A request in a channel is there once, and waits for this actor. *)
RequestsWait ==
  \A a \in Actors, c \in Clients :
    Request(c) \in Contents(box[a]) => pc[c] = "wait" /\ handle[c] = a /\ Once(box[a], Request(c))

(* Since a request took its handle, no other actor of its session has come of age. *)
OthersAreYoung ==
  \A c \in Clients, a \in Actors :
    Holding(c) /\ alive[a] /\ owner[a] = Target[c] /\ a # handle[c] => ~aged[a]

(* While a request is on its second try, no actor of its session is old enough to go. *)
RetriedLaneIsYoung ==
  \A c \in Clients, a \in Actors :
    c \in retried /\ UnderWay(c) /\ alive[a] /\ owner[a] = Target[c] => ~aged[a]

(* So the second try reaches an actor, and is refused by it only if its queue is full. *)
RetryIsHeard ==
  \A c \in Clients : c \in retried =>
    /\ pc[c] \in {"submit", "wait"} => alive[handle[c]]
    /\ pc[c] = "none" => c \in rejected

(* Whoever was told None without being rejected holds the handle of a dead actor. *)
NoneIsDead == \A c \in Clients : pc[c] = "none" /\ c \notin rejected => ~alive[handle[c]]

RegInv ==
  /\ TypeOK /\ MailTyped /\ LiveIsRegistered /\ MainStays /\ NoSpuriousBusy /\ NoWorkEvicted
  /\ EntryOwns /\ ProbesSpareMain /\ HoldersKnow /\ RequestsWait
  /\ OthersAreYoung /\ RetriedLaneIsYoung /\ RetryIsHeard /\ NoneIsDead

-------------------------------------------------------------------------------
(* Sequences, messages and a growing number of actors.                      *)

(* What an Append does to the places of a sequence. *)
LEMMA AppendFacts ==
  ASSUME NEW S, NEW s \in Seq(S), NEW x \in S
  PROVE  /\ Append(s, x) \in Seq(S) /\ Len(Append(s, x)) = Len(s) + 1
         /\ \A i \in 1..Len(s) : Append(s, x)[i] = s[i]
         /\ Append(s, x)[Len(s) + 1] = x
OBVIOUS

(* What an Append does to the elements of a channel. *)
LEMMA ContentsAppend ==
  ASSUME NEW S, NEW s \in Seq(S), NEW x \in S
  PROVE  /\ Append(s, x) \in Seq(S)
         /\ Contents(Append(s, x)) = Contents(s) \cup {x}
<1>1. /\ Append(s, x) \in Seq(S) /\ Len(s) \in Nat
      /\ Len(Append(s, x)) = Len(s) + 1
      /\ \A i \in 1..Len(s) : Append(s, x)[i] = s[i]
      /\ Append(s, x)[Len(s) + 1] = x
  OBVIOUS
<1>2. DOMAIN s = 1..Len(s) /\ DOMAIN Append(s, x) = 1..(Len(s) + 1)
  BY <1>1
<1>3. Contents(Append(s, x)) \subseteq Contents(s) \cup {x}
  BY <1>1, <1>2 DEF Contents
<1>4. Contents(s) \subseteq Contents(Append(s, x))
  <2>1. SUFFICES ASSUME NEW i \in 1..Len(s)
                 PROVE  s[i] \in Contents(Append(s, x))
    BY <1>2 DEF Contents
  <2>2. i \in 1..(Len(s) + 1) /\ Append(s, x)[i] = s[i]
    BY <1>1, <1>2
  <2>3. QED
    BY <2>2, <1>2 DEF Contents
<1>5. x \in Contents(Append(s, x))
  BY <1>1, <1>2 DEF Contents
<1>6. QED
  BY <1>1, <1>3, <1>4, <1>5

(* Appending what is not there yet keeps every element single. *)
LEMMA OnceAppend ==
  ASSUME NEW S, NEW s \in Seq(S), NEW x \in S, NEW y, Once(s, y), x # y \/ y \notin Contents(s)
  PROVE  Once(Append(s, x), y)
<1>1. /\ Len(Append(s, x)) = Len(s) + 1 /\ Len(s) \in Nat
      /\ \A i \in 1..Len(s) : Append(s, x)[i] = s[i]
      /\ Append(s, x)[Len(s) + 1] = x
      /\ DOMAIN s = 1..Len(s) /\ DOMAIN Append(s, x) = 1..(Len(s) + 1)
  OBVIOUS
<1>2. \A i \in 1..Len(s) : s[i] \in Contents(s)
  BY <1>1 DEF Contents
<1>3. QED
  BY <1>1, <1>2 DEF Once

(* What taking the head leaves. *)
LEMMA ContentsTail ==
  ASSUME NEW S, NEW s \in Seq(S), s # <<>>
  PROVE  /\ Head(s) \in S /\ Head(s) \in Contents(s)
         /\ Tail(s) \in Seq(S) /\ Contents(Tail(s)) \subseteq Contents(s)
         /\ \A y : Once(s, y) => Once(Tail(s), y)
         /\ Once(s, Head(s)) => Head(s) \notin Contents(Tail(s))
<1>1. /\ Head(s) \in S /\ Tail(s) \in Seq(S) /\ Len(s) \in Nat /\ Len(s) > 0
      /\ Len(Tail(s)) = Len(s) - 1 /\ Head(s) = s[1]
      /\ \A i \in 1..(Len(s) - 1) : Tail(s)[i] = s[i + 1]
  OBVIOUS
<1>2. DOMAIN s = 1..Len(s) /\ DOMAIN Tail(s) = 1..(Len(s) - 1)
  BY <1>1
<1>3. Head(s) \in Contents(s)
  BY <1>1, <1>2 DEF Contents
<1>4. Contents(Tail(s)) \subseteq Contents(s)
  <2>1. SUFFICES ASSUME NEW i \in 1..(Len(s) - 1)
                 PROVE  Tail(s)[i] \in Contents(s)
    BY <1>2 DEF Contents
  <2>2. i + 1 \in 1..Len(s) /\ Tail(s)[i] = s[i + 1]
    BY <1>1
  <2>3. QED
    BY <2>2, <1>2 DEF Contents
<1>5. ASSUME NEW y, Once(s, y) PROVE Once(Tail(s), y)
  BY <1>1, <1>2, <1>5 DEF Once
<1>6. ASSUME Once(s, Head(s)), NEW i \in 1..(Len(s) - 1), Tail(s)[i] = Head(s) PROVE FALSE
  <2>1. s[1] = Head(s) /\ s[i + 1] = Head(s) /\ 1 \in 1..Len(s) /\ i + 1 \in 1..Len(s)
    BY <1>1, <1>6
  <2>2. 1 = i + 1
    BY <2>1, <1>2, <1>6 DEF Once
  <2>3. QED
    BY <2>2
<1>7. Once(s, Head(s)) => Head(s) \notin Contents(Tail(s))
  BY <1>2, <1>6 DEF Contents
<1>8. QED
  BY <1>1, <1>3, <1>4, <1>5, <1>7

(* An empty channel holds nothing. *)
LEMMA EmptyChannel == ASSUME NEW S PROVE <<>> \in Seq(S) /\ Contents(<<>>) = {}
BY DEF Contents

(* A message is a probe or a request, and a request is known by its client. *)
LEMMA Kinds ==
  /\ \A n \in Nat : Probe(n) \in Message /\ IsProbe(Probe(n))
  /\ \A c \in Clients : Request(c) \in Message /\ ~IsProbe(Request(c)) /\ Request(c).client = c
  /\ \A m \in Message : ~IsProbe(m) => m.client \in Clients /\ m = Request(m.client)
BY DEF Message, Probe, Request, IsProbe

(* A record g of the actors is f with one more at the end. *)
Grown(g, f, S, n, x) ==
  /\ g \in [1..(n + 1) -> S]
  /\ \A a \in 1..n : g[a] = f[a]
  /\ g[n + 1] = x

LEMMA OneMore ==
  ASSUME NEW S, NEW n \in Nat, NEW f \in [1..n -> S], NEW x \in S
  PROVE  Grown(Append(f, x), f, S, n, x)
<1>1. f \in Seq(S) /\ Len(f) = n
  OBVIOUS
<1>2. Append(f, x) \in Seq(S) /\ Len(Append(f, x)) = n + 1
  BY <1>1
<1>3. Append(f, x) \in [1..(n + 1) -> S]
  BY <1>2, LenProperties
<1>4. (\A a \in 1..Len(f) : Append(f, x)[a] = f[a]) /\ Append(f, x)[Len(f) + 1] = x
  BY <1>1, AppendFacts
<1>5. QED
  BY <1>1, <1>3, <1>4 DEF Grown


-------------------------------------------------------------------------------
(* Every step keeps the invariant.                                          *)

(* It holds when only main has been spawned. *)
LEMMA InitInv == Init => RegInv
<1>1. SUFFICES ASSUME Init PROVE RegInv
  OBVIOUS
<1>2. ASSUME NEW S, NEW x \in S PROVE <<x>> \in [1..1 -> S] /\ <<x>>[1] = x
  <2>1. <<x>> \in Seq(S) /\ Len(<<x>>) = 1 /\ <<x>>[1] = x
    OBVIOUS
  <2>2. QED
    BY <2>1, LenProperties
<1>0. /\ spawned = 1 /\ owner = <<Main>> /\ alive = <<TRUE>> /\ aged = <<FALSE>>
      /\ work = <<0>> /\ box = << <<>> >>
      /\ entry = [s \in Sessions |-> IF s = Main THEN 1 ELSE None]
      /\ slot = {Main} /\ gc = "idle" /\ todo = {} /\ retried = {} /\ rejected = {}
      /\ target = <<Main, None>> /\ probes = 0
      /\ pc = [c \in Clients |-> "get"] /\ handle = [c \in Clients |-> None]
  BY <1>1 DEF Init
<1>3. spawned = 1 /\ Actors = {1}
  BY <1>0 DEF Actors
<1>4. /\ owner \in [Actors -> Sessions] /\ owner[1] = Main
      /\ alive \in [Actors -> BOOLEAN] /\ alive[1] = TRUE
      /\ aged \in [Actors -> BOOLEAN] /\ aged[1] = FALSE
      /\ work \in [Actors -> {0}] /\ work[1] = 0
      /\ box \in [Actors -> Seq(Message)] /\ box[1] = <<>>
  <2>1. Main \in Sessions /\ TRUE \in BOOLEAN /\ FALSE \in BOOLEAN /\ 0 \in {0} /\ Actors = 1..1
    BY <1>3, RegistryAssumption DEF Actors
  <2>2. <<>> \in Seq(Message)
    BY EmptyChannel
  <2>3. QED
    BY <1>0, <1>2, <2>1, <2>2
<1>5. /\ entry \in [Sessions -> {1, None}] /\ entry[Main] = 1
      /\ \A s \in Sessions : s # Main => entry[s] = None
  BY <1>0, RegistryAssumption
<1>6. TypeOK
  <2>1. work \in [Actors -> 0..(QueueCap + 1)] /\ DOMAIN box = Actors
    BY <1>4, RegistryAssumption
  <2>2. target \in Sessions \X (Actors \cup {None}) /\ probes \in 0..MaxProbes /\ gc = "idle"
        /\ slot \subseteq Sessions /\ todo = {} /\ retried = {} /\ rejected = {}
    BY <1>0, RegistryAssumption
  <2>3. pc \in [Clients -> Labels] /\ handle \in [Clients -> Actors \cup {None}]
    BY <1>0 DEF Labels
  <2>4. spawned \in Nat \ {0} /\ entry \in [Sessions -> Actors \cup {None}]
    BY <1>3, <1>5
  <2>5. QED
    BY <1>4, <2>1, <2>2, <2>3, <2>4 DEF TypeOK
<1>7. LiveIsRegistered /\ MainStays /\ EntryOwns
  <2>1. LiveIsRegistered
    BY <1>3, <1>4, <1>5 DEF LiveIsRegistered
  <2>2. MainStays
    BY <1>4, <1>5, RegistryAssumption DEF MainStays, Live
  <2>3. EntryOwns
    BY <1>4, <1>5 DEF EntryOwns
  <2>4. QED
    BY <2>1, <2>2, <2>3
<1>8. /\ NoSpuriousBusy /\ NoWorkEvicted /\ HoldersKnow /\ OthersAreYoung /\ RetriedLaneIsYoung
      /\ RetryIsHeard /\ NoneIsDead
  BY <1>0, <1>3, <1>4 DEF NoSpuriousBusy, NoWorkEvicted, HoldersKnow, OthersAreYoung,
                    RetriedLaneIsYoung, RetryIsHeard, NoneIsDead, Holding
<1>9. ProbesSpareMain /\ RequestsWait
  <2>1. todo = {} /\ \A a \in Actors : Contents(box[a]) = {}
    BY <1>0, <1>3, <1>4, EmptyChannel
  <2>2. QED
    BY <2>1 DEF ProbesSpareMain, RequestsWait
<1>10. QED
  BY <1>4, <1>6, <1>7, <1>8, <1>9 DEF RegInv, MailTyped

(* A handle that was looked up, without or under the lock, is that of the only live actor. *)
LEMMA LookupInv ==
  ASSUME RegInv, NEW c \in Clients, pc[c] \in {"get", "entry"}, Live(Target[c]),
         handle' = [handle EXCEPT ![c] = entry[Target[c]]], Goto(c, "submit"),
         UNCHANGED <<actorVars, entry, slot, retried, rejected, gcVars>>
  PROVE  RegInv'
<1> USE RegistryAssumption DEF actorVars, gcVars
<1>1. /\ Target[c] \in Sessions /\ entry[Target[c]] \in Actors
      /\ owner[entry[Target[c]]] = Target[c]
      /\ alive[entry[Target[c]]]
  BY DEF RegInv, TypeOK, Live, EntryOwns
<1>2. /\ pc \in [Clients -> Labels] /\ handle \in [Clients -> Actors \cup {None}]
      /\ handle'[c] = entry[Target[c]] /\ pc'[c] = "submit"
      /\ \A d \in Clients : d # c => pc'[d] = pc[d] /\ handle'[d] = handle[d]
  BY <1>1 DEF RegInv, TypeOK, Goto
<1>3. TypeOK'
  BY <1>1, <1>2 DEF RegInv, TypeOK, Actors, Goto, Labels
<1>4. /\ MailTyped' /\ LiveIsRegistered' /\ MainStays' /\ NoWorkEvicted' /\ EntryOwns'
      /\ ProbesSpareMain'
  BY DEF RegInv, MailTyped, LiveIsRegistered, MainStays, Live, NoWorkEvicted, EntryOwns,
     ProbesSpareMain, Actors
<1>5. NoSpuriousBusy' /\ HoldersKnow' /\ NoneIsDead'
  BY <1>1, <1>2 DEF RegInv, NoSpuriousBusy, HoldersKnow, Holding, NoneIsDead, Actors
<1>6. RequestsWait'
  BY <1>2 DEF RegInv, RequestsWait, Actors
<1>7. OthersAreYoung'
  BY <1>1, <1>2 DEF RegInv, OthersAreYoung, Holding, LiveIsRegistered, Actors
<1>8. RetriedLaneIsYoung'
  BY <1>2 DEF RegInv, RetriedLaneIsYoung, UnderWay, Actors
<1>9. RetryIsHeard'
  BY <1>1, <1>2 DEF RegInv, RetryIsHeard
<1>10. QED
  BY <1>3, <1>4, <1>5, <1>6, <1>7, <1>8, <1>9 DEF RegInv

(* A new actor is alone: had its session a live one, it would have been found. *)
LEMMA SpawnInv ==
  ASSUME RegInv, NEW c \in Clients, GetEntry(c), ~Live(Target[c])
  PROVE  RegInv'
<1> DEFINE new == spawned + 1
           s == Target[c]
<1>0. /\ spawned' = new /\ owner' = Append(owner, s) /\ alive' = Append(alive, TRUE)
      /\ box' = Append(box, <<>>) /\ work' = Append(work, 0) /\ aged' = Append(aged, FALSE)
      /\ entry' = [entry EXCEPT ![s] = new] /\ slot' = slot \cup {s}
      /\ handle' = [handle EXCEPT ![c] = new] /\ pc' = [pc EXCEPT ![c] = "submit"]
      /\ pc[c] = "entry"
      /\ retried' = retried /\ rejected' = rejected
      /\ gc' = gc /\ todo' = todo /\ target' = target /\ probes' = probes
  BY DEF GetEntry, Reusable, Goto, gcVars
<1>1. /\ spawned \in Nat \ {0} /\ s \in Sessions /\ new \in Nat /\ new \notin Actors
      /\ Actors = 1..spawned
      /\ Actors' = 1..new /\ Actors' = Actors \cup {new} /\ None \notin Actors'
  <2>1. spawned \in Nat \ {0} /\ s \in Sessions /\ spawned' = new
    BY <1>0, RegistryAssumption DEF RegInv, TypeOK
  <2>2. Actors = 1..spawned /\ Actors' = 1..new
    BY <2>1 DEF Actors
  <2>3. QED
    BY <2>1, <2>2, RegistryAssumption
<1>2. /\ owner' \in [Actors' -> Sessions] /\ owner'[new] = s
      /\ \A a \in Actors : owner'[a] = owner[a]
      /\ alive' \in [Actors' -> BOOLEAN] /\ alive'[new] = TRUE
      /\ \A a \in Actors : alive'[a] = alive[a]
      /\ aged' \in [Actors' -> BOOLEAN] /\ aged'[new] = FALSE
      /\ \A a \in Actors : aged'[a] = aged[a]
  <2>1. /\ owner \in [1..spawned -> Sessions] /\ alive \in [1..spawned -> BOOLEAN]
        /\ aged \in [1..spawned -> BOOLEAN] /\ spawned \in Nat
    BY <1>1 DEF RegInv, TypeOK
  <2>2. TRUE \in BOOLEAN /\ FALSE \in BOOLEAN /\ s \in Sessions
    BY <1>1
  <2>3. /\ Grown(owner', owner, Sessions, spawned, s)
        /\ Grown(alive', alive, BOOLEAN, spawned, TRUE)
        /\ Grown(aged', aged, BOOLEAN, spawned, FALSE)
    BY <1>0, <2>1, <2>2, OneMore, Zenon
  <2>4. QED
    BY <1>1, <2>3 DEF Grown
<1>3. /\ work' \in [Actors' -> 0..(QueueCap + 1)] /\ work'[new] = 0
      /\ \A a \in Actors : work'[a] = work[a]
      /\ box' \in [Actors' -> Seq(Message)] /\ box'[new] = <<>>
      /\ \A a \in Actors : box'[a] = box[a]
  <2>1. /\ work \in [1..spawned -> 0..(QueueCap + 1)] /\ box \in [1..spawned -> Seq(Message)]
        /\ spawned \in Nat
    BY <1>1 DEF RegInv, TypeOK, MailTyped
  <2>2. 0 \in 0..(QueueCap + 1) /\ <<>> \in Seq(Message)
    BY RegistryAssumption
  <2>3. /\ Grown(work', work, 0..(QueueCap + 1), spawned, 0)
        /\ Grown(box', box, Seq(Message), spawned, <<>>)
    BY <1>0, <2>1, <2>2, OneMore, Zenon
  <2>4. QED
    BY <1>1, <2>3 DEF Grown
<1>4. entry \in [Sessions -> Actors \cup {None}] /\ slot \subseteq Sessions
  BY DEF RegInv, TypeOK
<1>5. /\ pc \in [Clients -> Labels] /\ handle \in [Clients -> Actors \cup {None}]
      /\ handle'[c] = new /\ pc'[c] = "submit"
      /\ \A d \in Clients : d # c => pc'[d] = pc[d] /\ handle'[d] = handle[d]
      /\ entry'[s] = new /\ \A t \in Sessions : t # s => entry'[t] = entry[t]
  BY <1>0, <1>1, <1>4 DEF RegInv, TypeOK
<1>6. \A a \in Actors : alive[a] => owner[a] # s
  BY <1>1, RegistryAssumption DEF RegInv, LiveIsRegistered, Live
<1>7. \A a \in Actors' : a = new \/ a \in Actors
  BY <1>1
<1>8. TypeOK'
  <2>1. /\ entry' \in [Sessions -> Actors' \cup {None}]
        /\ handle' \in [Clients -> Actors' \cup {None}]
        /\ pc' \in [Clients -> Labels]
    BY <1>1, <1>0, <1>4, <1>5 DEF Labels
  <2>2. DOMAIN box' = Actors' /\ spawned' \in Nat \ {0}
    <3>1. spawned' \in Nat \ {0}
      BY <1>0, <1>1
    <3>2. QED
      BY <1>3, <3>1
  <2>3. /\ slot' \subseteq Sessions /\ retried' \subseteq Clients /\ rejected' \subseteq Clients
        /\ gc' \in {"idle", "next", "wait", "remove", "forget"} /\ probes' \in 0..MaxProbes
        /\ todo' \subseteq Sessions \X Actors' /\ target' \in Sessions \X (Actors' \cup {None})
    BY <1>0, <1>1, <1>4 DEF RegInv, TypeOK
  <2>4. QED
    BY <1>2, <1>3, <2>1, <2>2, <2>3 DEF TypeOK
<1>9. MailTyped' /\ NoWorkEvicted'
  BY <1>1, <1>2, <1>3, <1>7 DEF RegInv, MailTyped, NoWorkEvicted
<1>10. LiveIsRegistered'
  <2>1. \A a \in Actors : owner[a] \in Sessions
    BY DEF RegInv, TypeOK
  <2>2. QED
    BY <1>2, <1>5, <1>6, <1>7, <2>1 DEF RegInv, LiveIsRegistered
<1>11. MainStays'
  BY <1>1, <1>2, <1>0, <1>4, <1>5, RegistryAssumption DEF RegInv, MainStays, Live
<1>12. EntryOwns'
  BY <1>1, <1>2, <1>0, <1>4, <1>5 DEF RegInv, EntryOwns
<1>13. ProbesSpareMain'
  <2>1. \A x \in todo' : x[1] # Main /\ owner'[x[2]] = x[1]
    BY <1>0, <1>2 DEF RegInv, TypeOK, ProbesSpareMain
  <2>2. \A a \in Actors' : \A m \in Contents(box'[a]) : IsProbe(m) => owner'[a] # Main
    BY <1>2, <1>3, <1>7, EmptyChannel DEF RegInv, ProbesSpareMain
  <2>3. QED
    BY <2>1, <2>2 DEF ProbesSpareMain
<1>14. NoSpuriousBusy' /\ HoldersKnow' /\ NoneIsDead' /\ RetryIsHeard'
  <2>1. NoSpuriousBusy'
    BY <1>0, <1>4, <1>5 DEF RegInv, NoSpuriousBusy
  <2>2. HoldersKnow'
    BY <1>1, <1>2, <1>5 DEF RegInv, HoldersKnow, Holding
  <2>3. NoneIsDead'
    BY <1>2, <1>0, <1>4, <1>5 DEF RegInv, NoneIsDead, HoldersKnow, Holding
  <2>4. RetryIsHeard'
    BY <1>2, <1>0, <1>4, <1>5 DEF RegInv, RetryIsHeard, HoldersKnow, Holding
  <2>5. QED
    BY <2>1, <2>2, <2>3, <2>4
<1>15. RequestsWait'
  BY <1>3, <1>0, <1>4, <1>5, <1>7, EmptyChannel DEF RegInv, RequestsWait
<1>16. OthersAreYoung'
  BY <1>2, <1>5, <1>6, <1>7 DEF RegInv, OthersAreYoung, Holding
<1>17. RetriedLaneIsYoung'
  <2>1. \A d \in Clients : d \in retried' /\ UnderWay(d)' => d \in retried /\ UnderWay(d)
    BY <1>0, <1>5 DEF UnderWay
  <2>2. QED
    BY <1>2, <1>7, <2>1 DEF RegInv, RetriedLaneIsYoung
<1>18. QED
  BY <1>8, <1>9, <1>10, <1>11, <1>12, <1>13, <1>14, <1>15, <1>16, <1>17 DEF RegInv

(* The first look finds nobody: the request goes on to the lock. *)
LEMMA GetInv == ASSUME RegInv, NEW c \in Clients, Get(c) PROVE RegInv'
<1>1. CASE Live(Target[c])
  BY <1>1, LookupInv DEF Get, actorVars, gcVars
<1>2. CASE ~Live(Target[c])
  <2>1. /\ pc[c] = "get" /\ pc' = [pc EXCEPT ![c] = "entry"] /\ handle' = handle /\ Actors' = Actors
        /\ UNCHANGED <<spawned, owner, alive, box, work, aged, entry, slot, retried, rejected, gc,
                       todo, target, probes>>
    BY <1>2 DEF Get, Goto, actorVars, gcVars, Actors
  <2>2. /\ pc \in [Clients -> Labels] /\ pc'[c] = "entry"
        /\ \A d \in Clients : d # c => pc'[d] = pc[d]
    BY <2>1 DEF RegInv, TypeOK
  <2>3. TypeOK'
    BY <2>1, <2>2 DEF RegInv, TypeOK, Labels
  <2>4. /\ MailTyped' /\ LiveIsRegistered' /\ MainStays' /\ NoWorkEvicted' /\ EntryOwns'
        /\ ProbesSpareMain'
    BY <2>1 DEF RegInv, MailTyped, LiveIsRegistered, MainStays, Live, NoWorkEvicted, EntryOwns,
                ProbesSpareMain
  <2>5. NoSpuriousBusy' /\ HoldersKnow' /\ NoneIsDead' /\ OthersAreYoung' /\ RetryIsHeard'
    BY <2>1, <2>2 DEF RegInv, NoSpuriousBusy, HoldersKnow, Holding, NoneIsDead, OthersAreYoung,
                      RetryIsHeard
  <2>6. RequestsWait' /\ RetriedLaneIsYoung'
    BY <2>1, <2>2 DEF RegInv, RequestsWait, RetriedLaneIsYoung, UnderWay
  <2>7. QED
    BY <2>3, <2>4, <2>5, <2>6 DEF RegInv
<1>3. QED
  BY <1>1, <1>2

(* The second look, under the lock. *)
LEMMA GetEntryInv == ASSUME RegInv, NEW c \in Clients, GetEntry(c) PROVE RegInv'
<1>1. CASE Live(Target[c])
  <2>1. /\ handle' = [handle EXCEPT ![c] = entry[Target[c]]] /\ pc[c] \in {"get", "entry"}
        /\ Goto(c, "submit") /\ UNCHANGED <<actorVars, entry, slot, retried, rejected, gcVars>>
    BY <1>1 DEF GetEntry, Reusable, actorVars, gcVars
  <2>2. QED
    BY <1>1, <2>1, LookupInv
<1>2. CASE ~Live(Target[c])
  BY <1>2, SpawnInv
<1>3. QED
  BY <1>1, <1>2

(* A live actor's channel takes the request, a dead one's refuses it at once; a second try does
   not meet a dead one. *)
LEMMA SubmitInv == ASSUME RegInv, NEW c \in Clients, Submit(c) PROVE RegInv'
<1> DEFINE h == handle[c]
<1>1. /\ pc[c] = "submit" /\ Actors' = Actors
      /\ spawned' = spawned /\ owner' = owner /\ alive' = alive /\ work' = work /\ aged' = aged
      /\ entry' = entry /\ slot' = slot /\ handle' = handle /\ retried' = retried
      /\ rejected' = rejected /\ gc' = gc /\ todo' = todo /\ target' = target /\ probes' = probes
  BY DEF Submit, gcVars, Actors
<1>2. h \in Actors /\ owner[h] = Target[c]
  BY <1>1 DEF RegInv, HoldersKnow, Holding
<1>3. /\ LiveIsRegistered' /\ MainStays' /\ NoWorkEvicted' /\ EntryOwns'
  BY <1>1 DEF RegInv, LiveIsRegistered, MainStays, Live, NoWorkEvicted, EntryOwns
<1>4. CASE alive[h]
  <2>1. box' = [box EXCEPT ![h] = Append(@, Request(c))] /\ pc' = [pc EXCEPT ![c] = "wait"]
    BY <1>4 DEF Submit, Goto
  <2>2. /\ pc \in [Clients -> Labels] /\ pc'[c] = "wait"
        /\ \A d \in Clients : d # c => pc'[d] = pc[d]
    BY <2>1 DEF RegInv, TypeOK
  <2>3. /\ box \in [Actors -> Seq(Message)] /\ box'[h] = Append(box[h], Request(c))
        /\ DOMAIN box' = Actors /\ \A a \in Actors : a # h => box'[a] = box[a]
    BY <1>2, <2>1 DEF RegInv, MailTyped
  <2>4. /\ box'[h] \in Seq(Message) /\ Contents(box'[h]) = Contents(box[h]) \cup {Request(c)}
        /\ Request(c) \in Message
    BY <1>2, <2>3, ContentsAppend, Kinds
  <2>5. TypeOK'
    BY <1>1, <2>1, <2>2, <2>3 DEF RegInv, TypeOK, Labels
  <2>6. MailTyped'
    BY <1>1, <2>1, <2>3, <2>4 DEF MailTyped
  <2>7. ProbesSpareMain'
    <3>1. ~IsProbe(Request(c))
      BY Kinds
    <3>2. \A a \in Actors : \A m \in Contents(box'[a]) : IsProbe(m) => m \in Contents(box[a])
      BY <2>3, <2>4, <3>1
    <3>3. QED
      BY <1>1, <3>2 DEF RegInv, ProbesSpareMain
  <2>8. NoSpuriousBusy' /\ HoldersKnow' /\ NoneIsDead' /\ OthersAreYoung' /\ RetryIsHeard'
    BY <1>1, <1>4, <2>2 DEF RegInv, NoSpuriousBusy, HoldersKnow, Holding, NoneIsDead,
       OthersAreYoung, RetryIsHeard
  <2>9. RetriedLaneIsYoung'
    BY <1>1, <2>2 DEF RegInv, RetriedLaneIsYoung, UnderWay
  <2>10. \A a \in Actors : Request(c) \notin Contents(box[a])
    BY <1>1 DEF RegInv, RequestsWait
  <2>11. ASSUME NEW a \in Actors, NEW d \in Clients, Request(d) \in Contents(box'[a])
         PROVE  pc'[d] = "wait" /\ handle'[d] = a /\ Once(box'[a], Request(d))
    <3>1. CASE d = c
      <4>1. a = h
        BY <2>3, <2>10, <2>11, <3>1
      <4>2. Once(box[h], Request(c))
        BY <1>2, <2>3, <2>10 DEF Once, Contents
      <4>3. Once(box'[h], Request(c))
        BY <1>2, <2>3, <2>4, <2>10, <4>2, OnceAppend
      <4>4. QED
        BY <1>1, <2>2, <3>1, <4>1, <4>3
    <3>2. CASE d # c
      <4>1. Request(d) # Request(c)
        BY <3>2, Kinds
      <4>2. Request(d) \in Contents(box[a])
        BY <2>3, <2>4, <2>11, <4>1
      <4>3. pc[d] = "wait" /\ handle[d] = a /\ Once(box[a], Request(d))
        BY <4>2 DEF RegInv, RequestsWait
      <4>4. Once(box'[a], Request(d))
        <5>1. CASE a = h
          <6>1. box[h] \in Seq(Message) /\ Once(box[h], Request(d))
            BY <1>2, <2>3, <4>3, <5>1
          <6>2. Once(Append(box[h], Request(c)), Request(d))
            BY <2>4, <4>1, <6>1, OnceAppend, Zenon
          <6>3. QED
            BY <2>3, <5>1, <6>2
        <5>2. CASE a # h
          BY <2>3, <4>3, <5>2
        <5>3. QED
          BY <5>1, <5>2
      <4>5. QED
        BY <1>1, <2>2, <3>2, <4>3, <4>4
    <3>3. QED
      BY <3>1, <3>2
  <2>12. RequestsWait'
    BY <1>1, <2>11 DEF RequestsWait
  <2>13. QED
    BY <1>3, <2>5, <2>6, <2>7, <2>8, <2>9, <2>12 DEF RegInv
<1>5. CASE ~alive[h]
  <2>1. box' = box /\ pc' = [pc EXCEPT ![c] = "none"]
    BY <1>5 DEF Submit, Goto
  <2>2. /\ pc \in [Clients -> Labels] /\ pc'[c] = "none"
        /\ \A d \in Clients : d # c => pc'[d] = pc[d]
    BY <2>1 DEF RegInv, TypeOK
  <2>3. TypeOK'
    BY <1>1, <2>1, <2>2 DEF RegInv, TypeOK, Labels
  <2>4. MailTyped' /\ ProbesSpareMain'
    BY <1>1, <2>1 DEF RegInv, MailTyped, ProbesSpareMain
  <2>5. NoSpuriousBusy' /\ HoldersKnow' /\ NoneIsDead' /\ OthersAreYoung'
    BY <1>1, <1>5, <2>2 DEF RegInv, NoSpuriousBusy, HoldersKnow, Holding, NoneIsDead, OthersAreYoung
  <2>6. RetryIsHeard'
    BY <1>1, <1>5, <2>2 DEF RegInv, RetryIsHeard
  <2>7. RequestsWait' /\ RetriedLaneIsYoung'
    BY <1>1, <2>1, <2>2 DEF RegInv, RequestsWait, RetriedLaneIsYoung, UnderWay
  <2>8. QED
    BY <1>3, <2>3, <2>4, <2>5, <2>6, <2>7 DEF RegInv
<1>6. QED
  BY <1>4, <1>5

(* None: the first try may be repeated if its actor is dead, and then whoever comes next is young;
   the second is given up only if it was rejected. *)
LEMMA GotNoneInv == ASSUME RegInv, NEW c \in Clients, GotNone(c) PROVE RegInv'
<1>1. /\ pc[c] = "none" /\ Actors' = Actors
      /\ UNCHANGED <<spawned, owner, alive, box, work, aged, entry, slot, handle, rejected, gc,
                     todo, target, probes>>
  BY DEF GotNone, actorVars, gcVars, Actors
<1>2. /\ MailTyped' /\ LiveIsRegistered' /\ MainStays' /\ NoWorkEvicted' /\ EntryOwns'
      /\ ProbesSpareMain'
  BY <1>1 DEF RegInv, MailTyped, LiveIsRegistered, MainStays, Live, NoWorkEvicted, EntryOwns,
              ProbesSpareMain
<1>3. CASE MayRetry(c)
  <2>1. retried' = retried \cup {c} /\ pc' = [pc EXCEPT ![c] = "get"] /\ ~alive[handle[c]]
    BY <1>3 DEF GotNone, Goto, MayRetry
  <2>2. /\ pc \in [Clients -> Labels] /\ pc'[c] = "get"
        /\ \A d \in Clients : d # c => pc'[d] = pc[d]
    BY <2>1 DEF RegInv, TypeOK
  <2>3. TypeOK'
    BY <1>1, <2>1, <2>2 DEF RegInv, TypeOK, Labels
  <2>4. NoSpuriousBusy' /\ HoldersKnow' /\ NoneIsDead' /\ OthersAreYoung' /\ RetryIsHeard'
    BY <1>1, <2>1, <2>2 DEF RegInv, NoSpuriousBusy, HoldersKnow, Holding, NoneIsDead,
       OthersAreYoung, RetryIsHeard
  <2>5. RetriedLaneIsYoung'
    BY <1>1, <2>1, <2>2 DEF RegInv, RetriedLaneIsYoung, OthersAreYoung, Holding, UnderWay
  <2>6. RequestsWait'
    BY <1>1, <2>2 DEF RegInv, RequestsWait
  <2>7. QED
    BY <1>2, <2>3, <2>4, <2>5, <2>6 DEF RegInv
<1>4. CASE ~MayRetry(c)
  <2>1. retried' = retried /\ pc' = [pc EXCEPT ![c] = "busy"] /\ (alive[handle[c]] \/ c \in retried)
    BY <1>4 DEF GotNone, Goto, MayRetry
  <2>2. /\ pc \in [Clients -> Labels] /\ pc'[c] = "busy"
        /\ \A d \in Clients : d # c => pc'[d] = pc[d]
    BY <2>1 DEF RegInv, TypeOK
  <2>3. c \in rejected
    BY <1>1, <2>1 DEF RegInv, NoneIsDead, RetryIsHeard
  <2>4. TypeOK'
    BY <1>1, <2>1, <2>2 DEF RegInv, TypeOK, Labels
  <2>5. NoSpuriousBusy' /\ HoldersKnow' /\ NoneIsDead' /\ OthersAreYoung' /\ RetryIsHeard'
    BY <1>1, <2>1, <2>2, <2>3 DEF RegInv, NoSpuriousBusy, HoldersKnow, Holding, NoneIsDead,
                      OthersAreYoung, RetryIsHeard
  <2>6. RequestsWait' /\ RetriedLaneIsYoung'
    BY <1>1, <2>1, <2>2 DEF RegInv, RequestsWait, RetriedLaneIsYoung, UnderWay
  <2>7. QED
    BY <1>2, <2>4, <2>5, <2>6 DEF RegInv
<1>5. QED
  BY <1>3, <1>4

(* Takes or refuses the request at the head of its channel. *)
LEMMA ReceiveRequestInv == ASSUME RegInv, NEW b \in Actors, ReceiveRequest(b) PROVE RegInv'
<1> DEFINE c == Head(box[b]).client
<1>1. /\ alive[b] /\ box[b] # <<>> /\ ~IsProbe(Head(box[b])) /\ Actors' = Actors
      /\ box' = [box EXCEPT ![b] = Tail(@)] /\ aged' = [aged EXCEPT ![b] = FALSE]
      /\ spawned' = spawned /\ owner' = owner /\ alive' = alive /\ entry' = entry /\ slot' = slot
      /\ handle' = handle /\ retried' = retried
      /\ gc' = gc /\ todo' = todo /\ target' = target /\ probes' = probes
  BY DEF ReceiveRequest, gcVars, Actors
<1>2. \/ /\ Takes(b) /\ work' = [work EXCEPT ![b] = @ + 1] /\ pc' = [pc EXCEPT ![c] = "accepted"]
         /\ rejected' = rejected
      \/ /\ rejected' = rejected \cup {c} /\ pc' = [pc EXCEPT ![c] = "none"] /\ work' = work
  BY DEF ReceiveRequest, Goto
<1>3. /\ box \in [Actors -> Seq(Message)] /\ box[b] \in Seq(Message) /\ DOMAIN box' = Actors
      /\ box'[b] = Tail(box[b]) /\ \A a \in Actors : a # b => box'[a] = box[a]
  BY <1>1 DEF RegInv, MailTyped
<1>4. /\ Head(box[b]) \in Message /\ Head(box[b]) \in Contents(box[b])
      /\ Tail(box[b]) \in Seq(Message) /\ Contents(Tail(box[b])) \subseteq Contents(box[b])
      /\ \A y : Once(box[b], y) => Once(Tail(box[b]), y)
      /\ Once(box[b], Head(box[b])) => Head(box[b]) \notin Contents(Tail(box[b]))
  BY <1>1, <1>3, ContentsTail
<1>5. c \in Clients /\ Head(box[b]) = Request(c)
  BY <1>1, <1>4, Kinds
<1>6. /\ pc[c] = "wait" /\ handle[c] = b /\ Request(c) \notin Contents(Tail(box[b]))
      /\ \A a \in Actors : a # b => Request(c) \notin Contents(box[a])
  BY <1>4, <1>5 DEF RegInv, RequestsWait
<1>7. /\ pc \in [Clients -> Labels] /\ pc'[c] \in {"accepted", "none"}
      /\ \A d \in Clients : d # c => pc'[d] = pc[d]
      /\ pc'[c] = "none" => c \in rejected'
      /\ rejected \subseteq rejected' /\ \A d \in rejected' : d = c \/ d \in rejected
  BY <1>2, <1>5 DEF RegInv, TypeOK
<1>8. /\ aged \in [Actors -> BOOLEAN] /\ aged'[b] = FALSE
      /\ \A a \in Actors : a # b => aged'[a] = aged[a]
  BY <1>1 DEF RegInv, TypeOK
<1>9. /\ work \in [Actors -> 0..(QueueCap + 1)] /\ work' \in [Actors -> 0..(QueueCap + 1)]
      /\ \A a \in Actors : a # b => work'[a] = work[a]
  <2>1. work \in [Actors -> 0..(QueueCap + 1)] /\ QueueCap \in Nat
    BY RegistryAssumption DEF RegInv, TypeOK
  <2>2. Takes(b) => work[b] + 1 \in 0..(QueueCap + 1)
    BY <2>1 DEF Takes
  <2>3. QED
    BY <1>2, <2>1, <2>2
<1>10. TypeOK'
  <2>1. aged' \in [Actors' -> BOOLEAN] /\ pc' \in [Clients -> Labels] /\ rejected' \subseteq Clients
    <3>1. aged' \in [Actors' -> BOOLEAN]
      BY <1>1, <1>8
    <3>2. "accepted" \in Labels /\ "none" \in Labels /\ rejected \subseteq Clients
      BY DEF RegInv, TypeOK, Labels
    <3>3. pc' \in [Clients -> Labels] /\ rejected' \subseteq Clients
      BY <1>2, <1>5, <1>7, <3>2
    <3>4. QED
      BY <3>1, <3>3
  <2>2. /\ spawned' \in Nat \ {0} /\ owner' \in [Actors' -> Sessions]
        /\ alive' \in [Actors' -> BOOLEAN]
        /\ entry' \in [Sessions -> Actors' \cup {None}] /\ slot' \subseteq Sessions
        /\ handle' \in [Clients -> Actors' \cup {None}] /\ retried' \subseteq Clients
        /\ gc' \in {"idle", "next", "wait", "remove", "forget"} /\ probes' \in 0..MaxProbes
        /\ todo' \subseteq Sessions \X Actors' /\ target' \in Sessions \X (Actors' \cup {None})
    BY <1>1 DEF RegInv, TypeOK
  <2>3. DOMAIN box' = Actors' /\ work' \in [Actors' -> 0..(QueueCap + 1)]
    BY <1>1, <1>3, <1>9
  <2>4. QED
    BY <2>1, <2>2, <2>3 DEF TypeOK
<1>11. MailTyped'
  BY <1>1, <1>3, <1>4 DEF MailTyped
<1>12. LiveIsRegistered' /\ MainStays' /\ EntryOwns'
  BY <1>1 DEF RegInv, LiveIsRegistered, MainStays, Live, EntryOwns
<1>13. NoWorkEvicted'
  BY <1>1, <1>9 DEF RegInv, NoWorkEvicted
<1>14. ProbesSpareMain'
  <2>1. \A a \in Actors : Contents(box'[a]) \subseteq Contents(box[a])
    BY <1>3, <1>4
  <2>2. QED
    BY <1>1, <2>1 DEF RegInv, ProbesSpareMain
<1>15. NoSpuriousBusy' /\ HoldersKnow'
  BY <1>1, <1>6, <1>7 DEF RegInv, NoSpuriousBusy, HoldersKnow, Holding
<1>16. NoneIsDead' /\ RetryIsHeard'
  BY <1>1, <1>7 DEF RegInv, NoneIsDead, RetryIsHeard
<1>17. OthersAreYoung' /\ RetriedLaneIsYoung'
  BY <1>1, <1>6, <1>7, <1>8 DEF RegInv, OthersAreYoung, RetriedLaneIsYoung, Holding, UnderWay
<1>18. ASSUME NEW a \in Actors, NEW d \in Clients, Request(d) \in Contents(box'[a])
       PROVE  pc'[d] = "wait" /\ handle'[d] = a /\ Once(box'[a], Request(d))
  <2>1. d # c
    BY <1>3, <1>6, <1>18
  <2>2. Request(d) \in Contents(box[a])
    BY <1>3, <1>4, <1>18
  <2>3. pc[d] = "wait" /\ handle[d] = a /\ Once(box[a], Request(d))
    BY <2>2 DEF RegInv, RequestsWait
  <2>4. Once(box'[a], Request(d))
    BY <1>3, <1>4, <2>3
  <2>5. QED
    BY <1>1, <1>7, <2>1, <2>3, <2>4
<1>19. RequestsWait'
  BY <1>1, <1>18 DEF RequestsWait
<1>20. QED
  BY <1>10, <1>11, <1>12, <1>13, <1>14, <1>15, <1>16, <1>17, <1>19 DEF RegInv

(* A turn ends. *)
LEMMA FinishTurnInv == ASSUME RegInv, NEW b \in Actors, FinishTurn(b) PROVE RegInv'
<1>1. /\ alive[b] /\ work[b] > 0 /\ Actors' = Actors
      /\ work' = [work EXCEPT ![b] = @ - 1] /\ aged' = [aged EXCEPT ![b] = FALSE]
      /\ UNCHANGED <<spawned, owner, alive, box, entry, slot, pc, handle, retried, rejected, gc,
                     todo, target, probes>>
  BY DEF FinishTurn, clientVars, gcVars, Actors
<1>2. /\ aged \in [Actors -> BOOLEAN] /\ aged'[b] = FALSE
      /\ \A a \in Actors : a # b => aged'[a] = aged[a]
  BY <1>1 DEF RegInv, TypeOK
<1>3. /\ work' \in [Actors -> 0..(QueueCap + 1)] /\ \A a \in Actors : a # b => work'[a] = work[a]
  <2>1. work \in [Actors -> 0..(QueueCap + 1)] /\ QueueCap \in Nat
    BY RegistryAssumption DEF RegInv, TypeOK
  <2>2. work[b] - 1 \in 0..(QueueCap + 1)
    BY <1>1, <2>1
  <2>3. QED
    BY <1>1, <2>1, <2>2
<1>4. TypeOK'
  BY <1>1, <1>2, <1>3 DEF RegInv, TypeOK
<1>5. MailTyped' /\ LiveIsRegistered' /\ MainStays' /\ EntryOwns' /\ ProbesSpareMain'
  BY <1>1 DEF RegInv, MailTyped, LiveIsRegistered, MainStays, Live, EntryOwns, ProbesSpareMain
<1>6. NoWorkEvicted'
  BY <1>1, <1>3 DEF RegInv, NoWorkEvicted
<1>7. NoSpuriousBusy' /\ HoldersKnow' /\ RequestsWait' /\ RetryIsHeard' /\ NoneIsDead'
  BY <1>1 DEF RegInv, NoSpuriousBusy, HoldersKnow, Holding, RequestsWait, RetryIsHeard, NoneIsDead
<1>8. OthersAreYoung' /\ RetriedLaneIsYoung'
  BY <1>1, <1>2 DEF RegInv, OthersAreYoung, RetriedLaneIsYoung, Holding, UnderWay
<1>9. QED
  BY <1>4, <1>5, <1>6, <1>7, <1>8 DEF RegInv

(* An actor comes of age while no request is under way. *)
LEMMA AgeInv == ASSUME RegInv, NEW b \in Actors, Age(b) PROVE RegInv'
<1>1. /\ Actors' = Actors /\ aged' = [aged EXCEPT ![b] = TRUE]
      /\ \A c \in Clients : ~UnderWay(c)
      /\ UNCHANGED <<spawned, owner, alive, box, work, entry, slot, pc, handle, retried, rejected,
                     gc, todo, target, probes>>
  BY DEF Age, clientVars, gcVars, Actors
<1>2. aged' \in [Actors -> BOOLEAN]
  BY <1>1 DEF RegInv, TypeOK
<1>3. TypeOK'
  BY <1>1, <1>2 DEF RegInv, TypeOK
<1>4. /\ MailTyped' /\ LiveIsRegistered' /\ MainStays' /\ NoWorkEvicted' /\ EntryOwns'
      /\ ProbesSpareMain'
  BY <1>1 DEF RegInv, MailTyped, LiveIsRegistered, MainStays, Live, NoWorkEvicted, EntryOwns,
              ProbesSpareMain
<1>5. NoSpuriousBusy' /\ HoldersKnow' /\ RequestsWait' /\ RetryIsHeard' /\ NoneIsDead'
  BY <1>1 DEF RegInv, NoSpuriousBusy, HoldersKnow, Holding, RequestsWait, RetryIsHeard, NoneIsDead
<1>6. OthersAreYoung' /\ RetriedLaneIsYoung'
  BY <1>1 DEF OthersAreYoung, RetriedLaneIsYoung, Holding, UnderWay
<1>7. QED
  BY <1>3, <1>4, <1>5, <1>6 DEF RegInv

(* A probe finds the actor busy and is taken off the channel, or shuts the actor; the requests it
   held are told None.  None of them is on its second try: that actor is young. *)
LEMMA ReceiveProbeInv == ASSUME RegInv, NEW b \in Actors, ReceiveProbe(b) PROVE RegInv'
<1>1. /\ alive[b] /\ box[b] # <<>> /\ IsProbe(Head(box[b])) /\ Actors' = Actors
      /\ UNCHANGED <<spawned, owner, work, aged, entry, slot, handle, retried, rejected, todo,
                     target, probes>>
      /\ gc' \in {gc, "next", "remove"}
  BY DEF ReceiveProbe, Actors
<1>2. /\ box \in [Actors -> Seq(Message)] /\ box[b] \in Seq(Message)
  BY <1>1 DEF RegInv, MailTyped
<1>3. gc' \in {"idle", "next", "wait", "remove", "forget"}
  BY <1>1 DEF RegInv, TypeOK
<1>4. EntryOwns'
  BY <1>1 DEF RegInv, EntryOwns
<1>5. CASE Busy(b)
  <2>1. box' = [box EXCEPT ![b] = Tail(@)] /\ alive' = alive /\ pc' = pc
    BY <1>5 DEF ReceiveProbe
  <2>2. /\ box'[b] = Tail(box[b]) /\ DOMAIN box' = Actors
        /\ \A a \in Actors : a # b => box'[a] = box[a]
    BY <1>2, <2>1
  <2>3. /\ Tail(box[b]) \in Seq(Message) /\ Contents(Tail(box[b])) \subseteq Contents(box[b])
        /\ \A y : Once(box[b], y) => Once(Tail(box[b]), y)
    BY <1>1, <1>2, ContentsTail
  <2>4. TypeOK'
    BY <1>1, <1>3, <2>1, <2>2 DEF RegInv, TypeOK
  <2>5. MailTyped'
    BY <1>1, <1>2, <2>2, <2>3, <2>1 DEF MailTyped
  <2>6. LiveIsRegistered' /\ MainStays' /\ NoWorkEvicted'
    BY <1>1, <2>1 DEF RegInv, LiveIsRegistered, MainStays, Live, NoWorkEvicted
  <2>7. ProbesSpareMain' /\ RequestsWait'
    <3>1. \A a \in Actors : Contents(box'[a]) \subseteq Contents(box[a])
      BY <2>2, <2>3
    <3>2. \A a \in Actors : \A y : Once(box[a], y) => Once(box'[a], y)
      BY <2>2, <2>3
    <3>3. ProbesSpareMain'
      BY <1>1, <3>1 DEF RegInv, ProbesSpareMain
    <3>4. RequestsWait'
      BY <1>1, <2>1, <3>1, <3>2 DEF RegInv, RequestsWait
    <3>5. QED
      BY <3>3, <3>4
  <2>8. NoSpuriousBusy' /\ HoldersKnow' /\ RetryIsHeard' /\ NoneIsDead'
    BY <1>1, <2>1 DEF RegInv, NoSpuriousBusy, HoldersKnow, Holding, RetryIsHeard, NoneIsDead
  <2>9. OthersAreYoung' /\ RetriedLaneIsYoung'
    BY <1>1, <2>1 DEF RegInv, OthersAreYoung, RetriedLaneIsYoung, Holding, UnderWay
  <2>10. QED
    BY <1>4, <2>4, <2>5, <2>6, <2>7, <2>8, <2>9 DEF RegInv
<1>6. CASE ~Busy(b)
  <2>1. /\ alive' = [alive EXCEPT ![b] = FALSE] /\ box' = [box EXCEPT ![b] = <<>>]
        /\ pc' = [c \in Clients |-> IF c \in Waiting(b) THEN "none" ELSE pc[c]]
        /\ aged[b] /\ ~(work[b] > 0)
    BY <1>6 DEF ReceiveProbe, AnswerNone, Busy
  <2>2. /\ box'[b] = <<>> /\ DOMAIN box' = Actors /\ \A a \in Actors : a # b => box'[a] = box[a]
        /\ Contents(box'[b]) = {} /\ <<>> \in Seq(Message)
    BY <1>2, <2>1, EmptyChannel
  <2>3. /\ alive \in [Actors -> BOOLEAN] /\ alive'[b] = FALSE /\ alive' \in [Actors -> BOOLEAN]
        /\ \A a \in Actors : a # b => alive'[a] = alive[a]
    BY <2>1 DEF RegInv, TypeOK
  <2>4. \A c \in Clients : c \in Waiting(b) => pc[c] = "wait" /\ handle[c] = b
    BY DEF RegInv, RequestsWait, Waiting, Contents
  <2>5. /\ \A c \in Clients : pc'[c] = IF c \in Waiting(b) THEN "none" ELSE pc[c]
        /\ pc' \in [Clients -> Labels]
    BY <2>1 DEF RegInv, TypeOK, Labels
  <2>6. owner[b] # Main /\ owner[b] \in Sessions
    <3>1. Head(box[b]) \in Contents(box[b])
      BY <1>1, <1>2, ContentsTail
    <3>2. QED
      BY <1>1, <3>1 DEF RegInv, ProbesSpareMain, TypeOK
  <2>7. TypeOK'
    BY <1>1, <1>3, <2>2, <2>3, <2>5 DEF RegInv, TypeOK
  <2>8. MailTyped'
    BY <1>1, <1>2, <2>1, <2>2 DEF MailTyped
  <2>9. LiveIsRegistered'
    BY <1>1, <2>3 DEF RegInv, LiveIsRegistered
  <2>10. MainStays'
    <3>1. /\ entry[Main] # None /\ entry[Main] \in Actors /\ alive[entry[Main]]
          /\ owner[entry[Main]] = Main
      BY RegistryAssumption DEF RegInv, TypeOK, MainStays, Live, EntryOwns
    <3>2. entry[Main] # b
      BY <2>6, <3>1
    <3>3. QED
      BY <1>1, <2>3, <3>1, <3>2 DEF MainStays, Live
  <2>11. NoWorkEvicted'
    <3>1. work[b] = 0
      BY <2>1, RegistryAssumption DEF RegInv, TypeOK
    <3>2. QED
      BY <1>1, <2>3, <3>1 DEF RegInv, NoWorkEvicted
  <2>12. ProbesSpareMain'
    BY <1>1, <2>2 DEF RegInv, ProbesSpareMain
  <2>13. NoSpuriousBusy' /\ HoldersKnow'
    BY <1>1, <2>4, <2>5 DEF RegInv, NoSpuriousBusy, HoldersKnow, Holding
  <2>14. \A c \in Clients : pc[c] = "wait" /\ handle[c] = b => c \notin retried
    <3>1. \A c \in Clients : pc[c] = "wait" /\ handle[c] = b => owner[b] = Target[c] /\ UnderWay(c)
      BY DEF RegInv, HoldersKnow, Holding, UnderWay
    <3>2. QED
      BY <1>1, <2>1, <3>1 DEF RegInv, RetriedLaneIsYoung
  <2>15. \A c \in Clients : pc[c] = "submit" /\ handle[c] = b => c \notin retried
    <3>1. \A c \in Clients : pc[c] = "submit" /\ handle[c] = b => owner[b] = Target[c] /\ UnderWay(c)
      BY DEF RegInv, HoldersKnow, Holding, UnderWay
    <3>2. QED
      BY <1>1, <2>1, <3>1 DEF RegInv, RetriedLaneIsYoung
  <2>16. RequestsWait'
    <3>1. ASSUME NEW a \in Actors, NEW c \in Clients, Request(c) \in Contents(box'[a])
          PROVE  pc'[c] = "wait" /\ handle'[c] = a /\ Once(box'[a], Request(c))
      <4>1. a # b /\ Request(c) \in Contents(box[a])
        BY <2>2, <3>1
      <4>2. pc[c] = "wait" /\ handle[c] = a /\ Once(box[a], Request(c))
        BY <4>1 DEF RegInv, RequestsWait
      <4>3. c \notin Waiting(b)
        BY <2>4, <4>1, <4>2
      <4>4. QED
        BY <1>1, <2>2, <2>5, <4>1, <4>2, <4>3
    <3>2. QED
      BY <1>1, <3>1 DEF RequestsWait
  <2>17. OthersAreYoung'
    BY <1>1, <2>3, <2>4, <2>5 DEF RegInv, OthersAreYoung, Holding
  <2>18. RetriedLaneIsYoung'
    <3>1. \A c \in Clients : UnderWay(c)' => UnderWay(c)
      BY <1>1, <2>4, <2>5 DEF UnderWay
    <3>2. QED
      BY <1>1, <2>3, <3>1 DEF RegInv, RetriedLaneIsYoung
  <2>19. RetryIsHeard'
    <3>1. \A c \in Clients : c \in retried => c \notin Waiting(b)
      BY <2>4, <2>14
    <3>2. \A c \in Clients : c \in retried /\ pc'[c] \in {"submit", "wait"} =>
                            handle[c] \in Actors /\ handle[c] # b
      BY <2>5, <2>14, <2>15, <3>1 DEF RegInv, HoldersKnow, Holding
    <3>3. QED
      BY <1>1, <2>3, <2>5, <3>1, <3>2 DEF RegInv, RetryIsHeard
  <2>20. NoneIsDead'
    <3>1. \A c \in Clients : pc'[c] = "none" => handle[c] \in Actors
      BY <2>13, <1>1 DEF HoldersKnow, Holding
    <3>2. QED
      BY <1>1, <2>3, <2>4, <2>5, <3>1 DEF RegInv, NoneIsDead
  <2>21. QED
    BY <1>4, <2>7, <2>8, <2>9, <2>10, <2>11, <2>12, <2>13, <2>16, <2>17, <2>18, <2>19,
       <2>20 DEF RegInv
<1>7. QED
  BY <1>5, <1>6

(* A step of the sweep that changes nothing but its own place and what it has still to probe. *)
LEMMA SweepFrame ==
  ASSUME RegInv, gc' \in {"idle", "next", "wait", "remove", "forget"},
         todo' \subseteq Sessions \X Actors, \A x \in todo' : x[1] # Main /\ owner[x[2]] = x[1],
         slot' \subseteq Sessions, UNCHANGED <<actorVars, entry, clientVars, target, probes>>
  PROVE  RegInv'
<1>1. /\ Actors' = Actors
      /\ UNCHANGED <<spawned, owner, alive, box, work, aged, entry, pc, handle, retried, rejected,
                     target, probes>>
  BY DEF actorVars, clientVars, Actors
<1>2. TypeOK'
  BY <1>1 DEF RegInv, TypeOK
<1>3. MailTyped' /\ LiveIsRegistered' /\ MainStays' /\ NoWorkEvicted' /\ EntryOwns'
  BY <1>1 DEF RegInv, MailTyped, LiveIsRegistered, MainStays, Live, NoWorkEvicted, EntryOwns
<1>4. ProbesSpareMain'
  BY <1>1 DEF RegInv, ProbesSpareMain
<1>5. NoSpuriousBusy' /\ HoldersKnow' /\ RequestsWait' /\ RetryIsHeard' /\ NoneIsDead'
  BY <1>1 DEF RegInv, NoSpuriousBusy, HoldersKnow, Holding, RequestsWait, RetryIsHeard, NoneIsDead
<1>6. OthersAreYoung' /\ RetriedLaneIsYoung'
  BY <1>1 DEF RegInv, OthersAreYoung, RetriedLaneIsYoung, Holding, UnderWay
<1>7. QED
  BY <1>2, <1>3, <1>4, <1>5, <1>6 DEF RegInv

(* The snapshot leaves main out, and holds actors of the sessions it names. *)
LEMMA SweepInv == ASSUME RegInv, Sweep PROVE RegInv'
<1>1. /\ todo' = {<<s, entry[s]>> : s \in {s \in Evictable : entry[s] # None}} /\ gc' = "next"
      /\ slot' = slot /\ UNCHANGED <<actorVars, entry, clientVars, target, probes>>
  BY DEF Sweep
<1>2. \A s \in Evictable : entry[s] # None => /\ s \in Sessions /\ s # Main
                                             /\ entry[s] \in Actors /\ owner[entry[s]] = s
  BY DEF RegInv, TypeOK, EntryOwns, Evictable
<1>3. todo' \subseteq Sessions \X Actors /\ \A x \in todo' : x[1] # Main /\ owner[x[2]] = x[1]
  BY <1>1, <1>2
<1>4. slot' \subseteq Sessions
  BY <1>1 DEF RegInv, TypeOK
<1>5. QED
  BY <1>1, <1>3, <1>4, SweepFrame

(* The sweep ends, gives a probe up or forgets a slot. *)
LEMMA SweepMovesInv == ASSUME RegInv, SweepDone \/ ProbeTimeout \/ ForgetSlot PROVE RegInv'
<1>1. /\ gc' \in {"idle", "next"} /\ todo' \subseteq todo /\ slot' \subseteq slot
      /\ UNCHANGED <<actorVars, entry, clientVars, target, probes>>
  BY DEF SweepDone, ProbeTimeout, ForgetSlot
<1>2. /\ todo' \subseteq Sessions \X Actors /\ slot' \subseteq Sessions
      /\ \A x \in todo' : x[1] # Main /\ owner[x[2]] = x[1]
  BY <1>1 DEF RegInv, TypeOK, ProbesSpareMain
<1>3. QED
  BY <1>1, <1>2, SweepFrame

(* A probe is sent to an actor that is not main's. *)
LEMMA ProbeNextInv == ASSUME RegInv, ProbeNext PROVE RegInv'
<1>1. PICK x \in todo :
        /\ todo' = todo \ {x} /\ target' = x
        /\ IF alive[x[2]]
           THEN /\ probes' = probes + 1 /\ gc' = "wait"
                /\ box' = [box EXCEPT ![x[2]] = Append(@, Probe(probes + 1))]
           ELSE UNCHANGED <<probes, box, gc>>
  BY DEF ProbeNext
<1> DEFINE b == x[2]
           m == Probe(probes + 1)
<1>2. /\ Actors' = Actors /\ probes < MaxProbes /\ gc = "next"
      /\ UNCHANGED <<spawned, owner, alive, work, aged, entry, slot, pc, handle, retried, rejected>>
  BY DEF ProbeNext, clientVars, Actors
<1>3. /\ x \in Sessions \X Actors /\ b \in Actors /\ owner[b] # Main
      /\ probes \in 0..MaxProbes /\ probes + 1 \in 0..MaxProbes
  <2>1. x \in Sessions \X Actors /\ x[1] # Main /\ owner[x[2]] = x[1] /\ probes \in 0..MaxProbes
    BY <1>1 DEF RegInv, TypeOK, ProbesSpareMain
  <2>2. probes + 1 \in 0..MaxProbes
    BY <1>2, <2>1, RegistryAssumption
  <2>3. QED
    BY <2>1, <2>2
<1>4. m \in Message /\ IsProbe(m) /\ \A c \in Clients : m # Request(c)
  BY <1>3, Kinds
<1>5. /\ box \in [Actors -> Seq(Message)] /\ DOMAIN box' = Actors
      /\ box'[b] = box[b] \/ box'[b] = Append(box[b], m)
      /\ \A a \in Actors : a # b => box'[a] = box[a]
  <2>1. box \in [Actors -> Seq(Message)]
    BY DEF RegInv, MailTyped
  <2>2. box' = box \/ box' = [box EXCEPT ![b] = Append(box[b], m)]
    BY <1>1
  <2>3. QED
    BY <1>3, <2>1, <2>2
<1>6. /\ box[b] \in Seq(Message) /\ Append(box[b], m) \in Seq(Message)
      /\ Contents(Append(box[b], m)) = Contents(box[b]) \cup {m}
  BY <1>3, <1>4, <1>5, ContentsAppend
<1>7. TypeOK'
  <2>1. gc' \in {"idle", "next", "wait", "remove", "forget"} /\ probes' \in 0..MaxProbes
    BY <1>1, <1>2, <1>3
  <2>2. todo' \subseteq Sessions \X Actors' /\ target' \in Sessions \X (Actors' \cup {None})
    BY <1>1, <1>2, <1>3 DEF RegInv, TypeOK
  <2>3. QED
    BY <1>2, <1>5, <2>1, <2>2 DEF RegInv, TypeOK
<1>8. MailTyped'
  <2>1. box' \in [Actors -> Seq(Message)]
    <3>1. box' = box \/ box' = [box EXCEPT ![b] = Append(box[b], m)]
      BY <1>1
    <3>2. QED
      BY <1>3, <1>5, <1>6, <3>1
  <2>2. QED
    BY <1>2, <2>1 DEF MailTyped
<1>9. LiveIsRegistered' /\ MainStays' /\ NoWorkEvicted' /\ EntryOwns'
  BY <1>2 DEF RegInv, LiveIsRegistered, MainStays, Live, NoWorkEvicted, EntryOwns
<1>10. ProbesSpareMain'
  <2>1. \A a \in Actors : \A n \in Contents(box'[a]) : n \in Contents(box[a]) \/ a = b
    BY <1>5
  <2>2. \A y \in todo' : y \in todo
    BY <1>1
  <2>3. QED
    BY <1>2, <1>3, <2>1, <2>2 DEF RegInv, ProbesSpareMain
<1>11. NoSpuriousBusy' /\ HoldersKnow' /\ RetryIsHeard' /\ NoneIsDead'
  BY <1>2 DEF RegInv, NoSpuriousBusy, HoldersKnow, Holding, RetryIsHeard, NoneIsDead
<1>12. OthersAreYoung' /\ RetriedLaneIsYoung'
  BY <1>2 DEF RegInv, OthersAreYoung, RetriedLaneIsYoung, Holding, UnderWay
<1>13. ASSUME NEW a \in Actors, NEW c \in Clients, Request(c) \in Contents(box'[a])
       PROVE  pc'[c] = "wait" /\ handle'[c] = a /\ Once(box'[a], Request(c))
  <2>1. Request(c) \in Contents(box[a])
    BY <1>4, <1>5, <1>6, <1>13
  <2>2. pc[c] = "wait" /\ handle[c] = a /\ Once(box[a], Request(c))
    BY <2>1 DEF RegInv, RequestsWait
  <2>3. Once(box'[a], Request(c))
    <3>1. CASE box'[a] = box[a]
      BY <2>2, <3>1
    <3>2. CASE a = b /\ box'[a] = Append(box[a], m)
      <4>1. m # Request(c) /\ box[a] \in Seq(Message)
        BY <1>4, <1>5
      <4>2. Once(Append(box[a], m), Request(c))
        BY <1>4, <2>2, <4>1, OnceAppend, Zenon
      <4>3. QED
        BY <3>2, <4>2
    <3>3. QED
      BY <1>5, <3>1, <3>2
  <2>4. QED
    BY <1>2, <2>2, <2>3
<1>14. RequestsWait'
  BY <1>2, <1>13 DEF RequestsWait
<1>15. QED
  BY <1>7, <1>8, <1>9, <1>10, <1>11, <1>12, <1>14 DEF RegInv

(* Only the entry of a dead actor is removed. *)
LEMMA RemoveEntryInv == ASSUME RegInv, RemoveEntry PROVE RegInv'
<1> DEFINE s == target[1]
<1>1. /\ Actors' = Actors /\ gc' \in {"forget", "next"}
      /\ entry' = entry \/ (MayRemove(s) /\ entry' = [entry EXCEPT ![s] = None])
      /\ UNCHANGED <<spawned, owner, alive, box, work, aged, slot, pc, handle, retried, rejected,
                     todo, target, probes>>
  BY DEF RemoveEntry, actorVars, clientVars, Actors
<1>2. /\ entry \in [Sessions -> Actors \cup {None}] /\ s \in Sessions
  BY DEF RegInv, TypeOK
<1>3. /\ entry' \in [Sessions -> Actors \cup {None}]
      /\ \A t \in Sessions : \/ entry'[t] = entry[t]
                             \/ entry'[t] = None /\ entry[t] # None /\ ~alive[entry[t]]
  BY <1>1, <1>2 DEF MayRemove
<1>4. TypeOK'
  BY <1>1, <1>3 DEF RegInv, TypeOK
<1>5. LiveIsRegistered'
  <2>1. \A a \in Actors : owner[a] \in Sessions
    BY DEF RegInv, TypeOK
  <2>2. QED
    BY <1>1, <1>3, <2>1 DEF RegInv, LiveIsRegistered
<1>6. MainStays' /\ EntryOwns'
  BY <1>1, <1>3, RegistryAssumption DEF RegInv, MainStays, Live, EntryOwns
<1>7. MailTyped' /\ NoWorkEvicted' /\ ProbesSpareMain'
  BY <1>1 DEF RegInv, MailTyped, NoWorkEvicted, ProbesSpareMain
<1>8. NoSpuriousBusy' /\ HoldersKnow' /\ RequestsWait' /\ RetryIsHeard' /\ NoneIsDead'
  BY <1>1 DEF RegInv, NoSpuriousBusy, HoldersKnow, Holding, RequestsWait, RetryIsHeard, NoneIsDead
<1>9. OthersAreYoung' /\ RetriedLaneIsYoung'
  BY <1>1 DEF RegInv, OthersAreYoung, RetriedLaneIsYoung, Holding, UnderWay
<1>10. QED
  BY <1>4, <1>5, <1>6, <1>7, <1>8, <1>9 DEF RegInv

(* A step that changes nothing. *)
LEMMA StutterInv == ASSUME RegInv, UNCHANGED vars PROVE RegInv'
<1>1. /\ gc' = gc /\ todo' = todo /\ slot' = slot
      /\ UNCHANGED <<actorVars, entry, clientVars, target, probes>>
  BY DEF vars, gcVars
<1>2. /\ gc \in {"idle", "next", "wait", "remove", "forget"} /\ todo \subseteq Sessions \X Actors
      /\ slot \subseteq Sessions /\ \A x \in todo : x[1] # Main /\ owner[x[2]] = x[1]
  BY DEF RegInv, TypeOK, ProbesSpareMain
<1>3. QED
  BY <1>1, <1>2, SweepFrame

(* Each of the actions is one of the lemmas above. *)
LEMMA NextInv == RegInv /\ [Next]_vars => RegInv'
<1>1. SUFFICES ASSUME RegInv, [Next]_vars PROVE RegInv'
  OBVIOUS
<1>2. ASSUME NEW c \in Clients, Client(c) PROVE RegInv'
  BY <1>1, <1>2, GetInv, GetEntryInv, SubmitInv, GotNoneInv DEF Client
<1>3. ASSUME NEW a \in Actors, Actor(a) \/ Age(a) PROVE RegInv'
  BY <1>1, <1>3, ReceiveRequestInv, FinishTurnInv, ReceiveProbeInv, AgeInv DEF Actor
<1>4. ASSUME Gc PROVE RegInv'
  BY <1>1, <1>4, SweepInv, ProbeNextInv, SweepMovesInv, RemoveEntryInv DEF Gc
<1>5. ASSUME Quiescent PROVE RegInv'
  BY <1>1, <1>5, StutterInv DEF Quiescent
<1>6. ASSUME UNCHANGED vars PROVE RegInv'
  BY <1>1, <1>6, StutterInv
<1>7. QED
  BY <1>1, <1>2, <1>3, <1>4, <1>5, <1>6 DEF Next

(* Whoever is alive is the one its session's entry names: two actors of a session are one. *)
LEMMA RegInvImplies == RegInv => RegistryInv
<1>1. RegInv => OneLane
  BY DEF RegInv, LiveIsRegistered, OneLane
<1>2. QED
  BY <1>1 DEF RegInv, RegistryInv

-------------------------------------------------------------------------------
(* The theorems.                                                            *)

(* The whole inductive invariant holds in every reachable state. *)
THEOREM Invariant == Spec => []RegInv
<1>1. QED
  BY InitInv, NextInv, PTL DEF Spec

(* registry.rs, dispatch.rs and session.rs together: whatever requests and sweeps cross, a session
   has one live actor, the map finds it, main's is never evicted, nobody is told "the queue is
   full" because of an eviction, and no evicted actor leaves accepted work behind. *)
THEOREM RegistryIsSafe == Spec => []RegistryInv
<1>1. QED
  BY Invariant, RegInvImplies, PTL
===============================================================================
