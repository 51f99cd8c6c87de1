------------------------------ MODULE ContextPlan ------------------------------
(***************************************************************************)
(* Which messages of a conversation are sent to the model                  *)
(* (oc-core/src/compaction.rs, plan_compaction; applied by oc-server's     *)
(* run.rs, apply_compaction, before each model turn).                      *)
(*                                                                         *)
(* A message is its kind and its length in characters.  A "call" is an     *)
(* assistant message that asks for a tool, a "result" answers the call     *)
(* before it; providers refuse one without the other.  The plan counts     *)
(* tokens: a quarter of the characters, scaled to what the provider        *)
(* reported of the turn before; what is cut is cut by characters.  The     *)
(* scaling is exact here, a double in the code.                            *)
(***************************************************************************)
EXTENDS Integers, FiniteSets, SequencesExt

CONSTANTS
  PruneTo,     \* CompactCfg.prune_tool_to_tokens
  KeepRecent,  \* CompactCfg.keep_recent
  Marker       \* the characters of the note a cut result ends with

LOCAL Greater(m, n) == IF m > n THEN m ELSE n
Positions(s) == [i \in DOMAIN s |-> i]
SizeOf(metas, S) == FoldLeft(LAMBDA sum, i : IF i \in S THEN sum + metas[i].size ELSE sum,
                             0, Positions(metas))
Total(metas) == SizeOf(metas, DOMAIN metas)

(* A message as the plan sees it: its tokens, by the characters alone, and scaled by the
   count the provider reported (0: none) and rounded. *)
Estimated(history) ==
  [i \in DOMAIN history |->
     [kind |-> history[i].kind, size |-> Greater(history[i].chars \div 4, 1)]]
Metas(history, reported) ==
  LET est == Estimated(history)
      total == Total(est)
  IN  IF reported = 0 THEN est
      ELSE [i \in DOMAIN est |->
              [est[i] EXCEPT !.size = Greater((2 * @ * reported + total) \div (2 * total), 1)]]

(* The messages the plan may touch: all but the most recent ones. *)
MovableEnd(metas) == IF Len(metas) > KeepRecent THEN Len(metas) - KeepRecent ELSE 0
Movable(metas) == SubSeq(Positions(metas), 1, MovableEnd(metas))

(* Step 1: old tool results are cut down, the oldest first, until it fits. *)
Pruning(metas, trigger) ==
  FoldLeft(LAMBDA plan, i :
             IF /\ plan.left > trigger
                /\ metas[i].kind = "result" /\ metas[i].size > PruneTo
             THEN [plan EXCEPT !.prune = @ \cup {i},
                               !.left = @ - (metas[i].size - PruneTo)]
             ELSE plan,
           [prune |-> {}, drop |-> {}, left |-> Total(metas)], Movable(metas))

(* Slips: the halves of a tool round are judged each on its own; a message that
   was cut down still counts with its full size. *)
NoMates(metas, i) == {}
FullSize(metas, plan, i) == metas[i].size

(* The position of the other half of a tool round: a result follows its call. *)
Mates(metas, i) ==
  CASE metas[i].kind = "call" ->
         {j \in {i + 1} \cap DOMAIN metas : metas[j].kind = "result"}
    [] metas[i].kind = "result" ->
         {j \in {i - 1} \cap DOMAIN metas : metas[j].kind = "call"}
    [] OTHER -> {}

(* effective: what is left of a message that was cut down. *)
Effective(metas, plan, i) == IF i \in plan.prune THEN PruneTo ELSE metas[i].size

(* Step 2: the oldest messages go until it fits, each with its other half.  A
   round that reaches into the recent messages stays as a whole. *)
Dropping(metas, trigger, pruned) ==
  FoldLeft(LAMBDA plan, i :
             LET unit == {i} \cup Mates(metas, i)
             IN  IF plan.left > trigger /\ i \notin plan.drop
                    /\ \A j \in unit : j <= MovableEnd(metas)
                 THEN [plan EXCEPT
                         !.drop = @ \cup unit,
                         !.left = FoldLeft(LAMBDA left, j :
                                             IF j \in unit \ plan.drop
                                             THEN left - Effective(metas, plan, j)
                                             ELSE left,
                                           @, Positions(metas))]
                 ELSE plan,
           pruned, Movable(metas))

(* plan_compaction, and apply_compaction's walk over the messages.  Step 3, the
   interval to be summarised, is switched off wherever the program plans. *)
Plan(metas, trigger) == Dropping(metas, trigger, Pruning(metas, trigger))

(* A result the plan cuts keeps its first characters and gets the note, unless it is not longer
   than that. *)
CutDown(message) ==
  IF message.chars > PruneTo * 4 THEN [message EXCEPT !.chars = PruneTo * 4 + Marker] ELSE message
Sent(history, plan) ==
  FoldLeft(LAMBDA out, i :
             IF i \in plan.drop THEN out
             ELSE Append(out, IF i \in plan.prune THEN CutDown(history[i]) ELSE history[i]),
           <<>>, Positions(history))

-------------------------------------------------------------------------------
(* What the plan promises.                                                  *)

(* Every result follows its call and every call has its result. *)
Paired(history) ==
  \A i \in DOMAIN history :
    /\ history[i].kind = "call" => i < Len(history) /\ history[i + 1].kind = "result"
    /\ history[i].kind = "result" => i > 1 /\ history[i - 1].kind = "call"

(* compaction.rs:143 "工具对成对进出": whatever is cut, a provider accepts the rest. *)
SentIsPaired(history, reported, trigger) ==
  Paired(history) => Paired(Sent(history, Plan(Metas(history, reported), trigger)))

(* compaction.rs:101: the recent messages are sent as they are. *)
RecentAreSent(history, reported, trigger) ==
  LET sent == Sent(history, Plan(Metas(history, reported), trigger))
  IN  \A n \in 0..(Len(history) - MovableEnd(history) - 1) :
        n < Len(sent) /\ sent[Len(sent) - n] = history[Len(history) - n]

(* The plan fits by its own count, or there is nothing left it could take: only rounds that
   reach into the recent messages. *)
PlanFits(history, reported, trigger) ==
  LET plan == Plan(Metas(history, reported), trigger)
  IN  \/ plan.left <= trigger
      \/ \A i \in 1..MovableEnd(history) \ plan.drop :
           \E j \in Mates(history, i) : j > MovableEnd(history)

(* While no provider has reported a count, the plan's count is that of what is sent, but for the
   notes: nothing is subtracted twice and each cut result is as short as the plan says.  With a
   count this is not so: a result whose scaled size is above PruneTo may be too short to be cut. *)
SentIsAsPlanned(history, trigger) ==
  LET plan == Plan(Metas(history, 0), trigger)
  IN  Total(Estimated(Sent(history, plan)))
        = plan.left + (Marker \div 4) * Cardinality(plan.prune \ plan.drop)

(* Nothing is dropped while cutting tool results is enough, and a message goes
   only after every older one that can. *)
DropsAreNeeded(history, reported, trigger) ==
  LET metas == Metas(history, reported)
      plan == Plan(metas, trigger)
      droppable == {i \in 1..MovableEnd(metas) :
                      \A j \in Mates(metas, i) : j <= MovableEnd(metas)}
  IN  /\ Pruning(metas, trigger).left <= trigger => plan.drop = {}
      /\ \A i \in plan.drop, j \in droppable :
           j < i => j \in plan.drop
      /\ plan.drop # {} =>
           LET last == CHOOSE i \in plan.drop : \A j \in plan.drop : j <= i
               unit == {last} \cup Mates(metas, last)
               size(i) == IF i \in plan.prune THEN PruneTo ELSE metas[i].size
           IN  plan.left + FoldLeft(LAMBDA sum, i : IF i \in unit THEN sum + size(i) ELSE sum,
                                    0, Positions(metas)) > trigger
===============================================================================
