------------------------------- MODULE FeedPlan -------------------------------
(***************************************************************************)
(* How a LiveFeedSupervisor is built from a subscription plan: the whole   *)
(* plan, or some of its instruments.  A plan assigns an instrument to a    *)
(* shard; what is selected and not assigned goes to the default shard.     *)
(* Then the collectors report by instrument, and the supervisor finds the  *)
(* shard.  The health of a shard is in FeedSupervisor.                     *)
(*                                                                         *)
(* One venue is followed.  An instrument is a model value: that it reads   *)
(* the same with and without blanks around it is assumed.                  *)
(***************************************************************************)
EXTENDS Integers, Sequences, FiniteSets, SequencesExt

CONSTANTS
  Tokens,       \* instruments of the venue
  MaxEntries    \* bound on the entries of a plan, and on the length of a selection

NoId == "no id"            \* an entry without an identifier
Listlike == "[a, b]"       \* several identifiers in one text, or one that is too long
WholeFeed == "whole"       \* of the selection: from_subscription_plan
ShardIds == {"0", "1"}
ASSUME PlanAssumption == MaxEntries \in Nat /\ Tokens \cap {NoId, Listlike, WholeFeed} = {}
Default == "0"

VARIABLES
  plan,       \* venue, entries, the older list of instruments
  selection,  \* the instruments asked for, or WholeFeed
  feeds       \* what was built: shards, preflight report, who is tracked

planVars == <<plan, selection, feeds>>

UpTo(n, S) == UNION {[1 .. k -> S] : k \in 0 .. n}
PlanInit ==
  /\ plan \in [venue : {"polymarket", "kalshi"}, legacy : UpTo(MaxEntries, Tokens),
               entries : UpTo(MaxEntries, [id : Tokens \cup {NoId, Listlike}, shard : ShardIds])]
  /\ selection \in UpTo(MaxEntries, Tokens) \cup {<<WholeFeed>>}
  /\ feeds = [status |-> "none", shards |-> {}, tracked |-> {}]

-----------------------------------------------------------------------------
\* Shards: an identifier, and the instruments in their order.

ShardOf(id, instruments) == [id |-> id, instruments |-> instruments]
\* The elements of s at some positions, in their order.
Filtered(s, positions) ==
  LET upTo[n \in 0 .. Len(s)] ==
        IF n = 0 THEN <<>>
        ELSE IF n \in positions THEN Append(upTo[n - 1], s[n]) ELSE upTo[n - 1]
  IN upTo[Len(s)]
Named(entries) == Filtered(entries, {n \in DOMAIN entries : entries[n].id # NoId})
InShard(entries, s) == Filtered(entries, {n \in DOMAIN entries : entries[n].shard = s})
IdsOf(entries) == [n \in DOMAIN entries |-> entries[n].id]

\* _polymarket_shards, _kalshi_shards: an entry without an identifier still makes a shard.
WholePlan ==
  IF plan.entries = <<>> THEN {ShardOf(Default, plan.legacy)}
  ELSE {ShardOf(s, IdsOf(Named(InShard(plan.entries, s)))) :
          s \in {plan.entries[n].shard : n \in DOMAIN plan.entries}}

Unique(ids) == Filtered(ids, {n \in DOMAIN ids : \A m \in 1 .. n - 1 : ids[m] # ids[n]})
Place(ids, id) == CHOOSE n \in DOMAIN ids : ids[n] = id
InOrderOf(selected, ids) ==
  LET p == CHOOSE p \in Bijection(DOMAIN ids, DOMAIN ids) : \A m, n \in DOMAIN ids :
             m < n => Place(selected, ids[p[m]]) <= Place(selected, ids[p[n]])
  IN [n \in DOMAIN ids |-> ids[p[n]]]

\* _selected_shards: planned entries of what is selected, what is not planned in the default
\* shard, in the order of the selection.  An empty selection stands for the older list.
SelectedIds ==
  IF Unique(selection) = <<>> THEN Unique(plan.legacy) ELSE Unique(selection)
Planned(selected) ==
  Filtered(plan.entries, {n \in DOMAIN plan.entries : Contains(selected, plan.entries[n].id)})
Leftovers(selected, planned) ==
  Filtered(selected, {n \in DOMAIN selected : \A m \in DOMAIN planned : planned[m].id # selected[n]})
\* A fault: what is planned nowhere is forgotten.
SelectedPlanOfPlanned ==
  LET planned == Planned(SelectedIds)
  IN {ShardOf(s, InOrderOf(SelectedIds, IdsOf(InShard(planned, s)))) :
        s \in {planned[n].shard : n \in DOMAIN planned}}
SelectedPlan ==
  LET selected == SelectedIds
      leftovers == Leftovers(selected, Planned(selected))
      rest == [n \in DOMAIN leftovers |-> [id |-> leftovers[n], shard |-> Default]]
      entries == Planned(selected) \o rest
  IN IF plan.entries = <<>> THEN {ShardOf(Default, selected)}
     ELSE {ShardOf(s, InOrderOf(selected, IdsOf(InShard(entries, s)))) :
             s \in {entries[n].shard : n \in DOMAIN entries}}

-----------------------------------------------------------------------------
\* Building.

\* FeedShardHealth.__post_init__ refuses an instrument that is twice in a shard, the supervisor
\* one that is in two.
TwiceInOne(shards) == \E s \in shards : ~IsInjective(s.instruments)
InTwo(shards) ==
  \E s, t \in shards : s # t /\ Range(s.instruments) \cap Range(t.instruments) # {}

\* _core_subscription_plan_preflight, of the whole plan.
Preflight ==
  LET all == UNION {Range(s.instruments) : s \in WholePlan} IN
    /\ ~TwiceInOne(WholePlan)
    /\ plan.venue = "polymarket" => Listlike \notin all
    /\ all # {}

Construct(shards) ==
  feeds' = [feeds EXCEPT !.status = IF TwiceInOne(shards) \/ InTwo(shards) THEN "raised" ELSE "built",
                         !.shards = IF TwiceInOne(shards) \/ InTwo(shards) THEN {} ELSE shards]

Refused == feeds' = [feeds EXCEPT !.status = "refused"]

FromSubscriptionPlan ==
  /\ feeds.status = "none" /\ selection = <<WholeFeed>>
  /\ IF Preflight THEN Construct(WholePlan) ELSE Refused
  /\ UNCHANGED <<plan, selection>>

FromSelection ==
  /\ feeds.status = "none" /\ selection # <<WholeFeed>>
  /\ IF Preflight THEN Construct(SelectedPlan) ELSE Refused
  /\ UNCHANGED <<plan, selection>>

-----------------------------------------------------------------------------
\* Using: a report of an instrument goes to its shard, and is refused where there is none.

Subscribed == UNION {Range(s.instruments) : s \in feeds.shards}
Report(id) ==
  /\ feeds.status = "built" /\ id \in Subscribed
  /\ feeds' = [feeds EXCEPT !.tracked = @ \cup {id}]
  /\ UNCHANGED <<plan, selection>>

PlanNext == FromSubscriptionPlan \/ FromSelection \/ \E id \in Tokens : Report(id)

-----------------------------------------------------------------------------
Wanted ==
  IF selection # <<WholeFeed>> THEN Range(SelectedIds)
  ELSE UNION {Range(s.instruments) : s \in WholePlan}

\* Every instrument asked for is in one shard, that its plan names or the default one, and no
\* other is, so that a report has one place to go; the shards follow the order of the selection;
\* and a plan is turned down only when it names an instrument twice, or none, or several at once.
EveryPlannedBookHasAShard ==
  /\ feeds.status = "built" =>
       /\ Subscribed = Wanted
       /\ \A s, t \in feeds.shards : s # t =>
            s.id # t.id /\ Range(s.instruments) \cap Range(t.instruments) = {}
       /\ \A s \in feeds.shards : \A id \in Range(s.instruments) :
            IF \E n \in DOMAIN plan.entries : plan.entries[n].id = id
              THEN \E n \in DOMAIN plan.entries : plan.entries[n] = [id |-> id, shard |-> s.id]
              ELSE s.id = Default
       /\ selection # <<WholeFeed>> => \A s \in feeds.shards : \A m, n \in DOMAIN s.instruments :
            m < n => Place(SelectedIds, s.instruments[m]) < Place(SelectedIds, s.instruments[n])
  /\ feeds.status \in {"refused", "raised"} =>
       LET ids == IF plan.entries = <<>> THEN plan.legacy ELSE IdsOf(Named(plan.entries)) IN
         ids = <<>> \/ Contains(ids, Listlike) \/ ~IsInjective(ids)
=============================================================================
