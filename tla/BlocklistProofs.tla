-------------------------- MODULE BlocklistProofs --------------------------
(***************************************************************************)
(* Proofs about Blocklist, for every list of sources, every set of         *)
(* editions and every configuration: what is_blocked decides of names      *)
(* below a whitelisted or a blocked one, what a refresh leaves in the      *)
(* blocked set, and what the statistics say when nothing runs.             *)
(***************************************************************************)
EXTENDS Blocklist, TLAPS, FiniteSetTheorems, SequenceTheorems, WellFoundedInduction

Listed == UNION {Names(e) : e \in UNION {Edition[s] : s \in Source}}

(***************************************************************************)
(* The tasks, the editions and the history, as far as the proofs need them.*)
(***************************************************************************)
Shape ==
    /\ edition \in [Source -> UNION {Edition[s] : s \in Source}]
    /\ \A s \in Source : edition[s] \in Edition[s]
    /\ task \in [Task -> [pc : {"start", "idle", "fetch", "insert"}, i : Nat,
                          data : SUBSET Listed]]
    /\ \A t \in Task : task[t].pc \in {"fetch", "insert"} => config.enabled /\ task[t].i >= 1
    /\ recent \in [names : SUBSET Listed, load : BOOLEAN]

\* Since the last clear without a load beside it: no load runs or will, and all
\* that is blocked, published or fetched was published since.
Fresh ==
    ~ recent.load =>
        /\ task["load"].pc = "idle"
        /\ blocked \subseteq recent.names
        /\ Published \subseteq recent.names
        /\ task["refresh"].data \subseteq recent.names

IInv == Shape /\ Fresh /\ StatsAgree

\* A source of a task that fetches is one of the sources.
LEMMA SourceInRange ==
    ASSUME NEW i \in Nat, i >= 1, i <= Len(Sources)
    PROVE  Sources[i] \in Source
BY BlocklistAssumption DEF Source

\* What a source may publish is listed.
LEMMA EditionListed ==
    ASSUME NEW s \in Source, NEW e \in Edition[s]
    PROVE  Names(e) \subseteq Listed
BY DEF Listed

\* What a source publishes is published.
LEMMA SourcePublished ==
    ASSUME NEW s \in Source
    PROVE  Names(edition[s]) \subseteq Published
BY DEF Published

\* Nothing has been fetched, and the load is still to come.
LEMMA InitIInv == Init => IInv
<1> SUFFICES ASSUME Init PROVE IInv
    OBVIOUS
<1>1. edition \in [Source -> UNION {Edition[s] : s \in Source}]
      /\ \A s \in Source : edition[s] \in Edition[s]
    BY DEF Init
<1>2. task \in [Task -> [pc : {"start", "idle", "fetch", "insert"}, i : Nat,
                         data : SUBSET Listed]]
      /\ \A t \in Task : task[t].pc \in {"start", "idle"}
    BY DEF Init, Idle, Task
<1>3. task["load"].pc = "start"
    BY DEF Init, Idle, Task
<1>4. recent \in [names : SUBSET Listed, load : BOOLEAN] /\ recent.load
    BY DEF Init
<1>5. Shape
    BY <1>1, <1>2, <1>4 DEF Shape
<1>6. Fresh /\ StatsAgree
    BY <1>3, <1>4 DEF Fresh, StatsAgree, Task
<1> QED
    BY <1>5, <1>6 DEF IInv

\* Where a task is after a step of its own: data is what the edition of its
\* source names, or nothing.
LEMMA TaskStep ==
    ASSUME Shape, NEW t \in Task, Step(t)
    PROVE  /\ \A u \in Task \ {t} : task'[u] = task[u]
           /\ task'[t] \in [pc : {"idle", "fetch", "insert"}, i : Nat, data : SUBSET Listed]
           /\ task'[t].pc \in {"fetch", "insert"} => task'[t].i >= 1
           /\ task' \in [Task -> [pc : {"start", "idle", "fetch", "insert"}, i : Nat,
                                  data : SUBSET Listed]]
           /\ task'[t].data \subseteq Published \cup task[t].data
           /\ task[t].pc \in {"fetch", "insert"}
           /\ config' = config /\ config.enabled /\ edition' = edition /\ recent' = recent
           /\ blocked' \subseteq blocked \cup task[t].data
           /\ task'[t].pc = "idle" => stats' = Cardinality(blocked')
<1> DEFINE T == [pc : {"start", "idle", "fetch", "insert"}, i : Nat, data : SUBSET Listed]
<1>0. task \in [Task -> T] /\ (task[t].pc \in {"fetch", "insert"} => config.enabled /\ task[t].i >= 1)
    BY DEF Shape
<1>1. CASE fetch_url(t)
  <2>1. Sources[task[t].i] \in Source
      BY <1>0, <1>1, SourceInRange DEF fetch_url, Fetching
  <2> DEFINE d == Names(edition[Sources[task[t].i]])
  <2>2. d \subseteq Listed /\ d \subseteq Published
      BY <2>1, EditionListed, SourcePublished DEF Shape
  <2>3. task' = [task EXCEPT ![t].pc = "insert", ![t].data = d]
      BY <1>1 DEF fetch_url
  <2> HIDE DEF d
  <2>4. task'[t] = [pc |-> "insert", i |-> task[t].i, data |-> d]
        /\ \A u \in Task \ {t} : task'[u] = task[u]
      BY <1>0, <2>3
  <2>5. task' \in [Task -> T]
      BY <1>0, <2>2, <2>3
  <2>6. /\ task[t].pc = "fetch" /\ task[t].i >= 1 /\ config.enabled
        /\ config' = config /\ edition' = edition /\ recent' = recent /\ blocked' = blocked
      BY <1>0, <1>1 DEF fetch_url, Fetching
  <2> QED
      BY <1>0, <2>2, <2>4, <2>5, <2>6
<1>2. CASE SourceFails(t)
    BY <1>0, <1>2 DEF SourceFails, Fetching
<1>3. CASE parse_and_insert(t)
    BY <1>0, <1>3 DEF parse_and_insert
<1>4. CASE UpdateStats(t)
    BY <1>0, <1>4 DEF UpdateStats, Idle
<1> QED
    BY <1>1, <1>2, <1>3, <1>4 DEF Step

\* load, refresh, each step of either and a new edition keep the invariant.
LEMMA NextIInv == IInv /\ [Next]_vars => IInv'
<1> SUFFICES ASSUME IInv, [Next]_vars PROVE IInv'
    OBVIOUS
<1>0. Shape /\ Fresh /\ StatsAgree
    BY DEF IInv
<1>1. CASE load
  <2>1. Shape'
    <3>1. task' \in [Task -> [pc : {"start", "idle", "fetch", "insert"}, i : Nat,
                              data : SUBSET Listed]]
        BY <1>0, <1>1 DEF load, Shape, Idle, Task
    <3>2. /\ config.enabled => task'["load"].i = 1
          /\ ~ config.enabled => task'["load"].pc = "idle"
          /\ task'["refresh"] = task["refresh"]
        BY <1>0, <1>1 DEF load, Shape, Idle, Task
    <3> QED
        BY <1>0, <1>1, <3>1, <3>2 DEF load, Shape, Task
  <2>2. recent.load
      BY <1>0, <1>1 DEF load, Fresh
  <2>3. Fresh'
      BY <2>2, <1>1 DEF load, Fresh
  <2>4. config' = config /\ (config.enabled => task'["load"].pc = "fetch")
      BY <1>0, <1>1 DEF load, Shape, Idle, Task
  <2> QED
      BY <2>1, <2>3, <2>4 DEF IInv, StatsAgree, Task
<1>2. CASE refresh
  <2>1. Published \subseteq Listed
      BY <1>0, EditionListed DEF Published, Shape
  <2>2. /\ task'["refresh"] = [pc |-> "fetch", i |-> 1, data |-> {}]
        /\ task'["load"] = task["load"]
      BY <1>0, <1>2 DEF refresh, Shape, Idle, Task
  <2>3. recent'.names = Published /\ recent'.load = (task["load"].pc # "idle")
      BY <1>2 DEF refresh
  <2>4. /\ edition' = edition /\ blocked' = {} /\ Published' = Published
        /\ config' = config /\ config.enabled
      BY <1>2 DEF refresh, Published
  <2>5. Shape'
    <3>1. task' \in [Task -> [pc : {"start", "idle", "fetch", "insert"}, i : Nat,
                              data : SUBSET Listed]]
        BY <1>0, <1>2 DEF refresh, Shape, Idle, Task
    <3>2. recent' \in [names : SUBSET Listed, load : BOOLEAN]
        BY <1>2, <2>1 DEF refresh
    <3> QED
        BY <1>0, <2>2, <2>4, <3>1, <3>2 DEF Shape, Task
  <2>6. Fresh'
    <3>1. ~ recent'.load => task["load"].pc = "idle"
        BY <2>3
    <3>2. blocked' \subseteq recent'.names /\ Published' \subseteq recent'.names
          /\ task'["refresh"].data \subseteq recent'.names
        BY <2>2, <2>3, <2>4
    <3> QED
        BY <2>2, <3>1, <3>2 DEF Fresh
  <2> QED
      BY <2>2, <2>5, <2>6 DEF IInv, StatsAgree, Task
<1>3. ASSUME NEW t \in Task, Step(t) PROVE IInv'
  <2>1. Shape'
      BY <1>0, <1>3, TaskStep DEF Shape
  <2>2. Published' = Published
      BY <1>0, <1>3, TaskStep DEF Published
  <2>3. Fresh'
    <3> SUFFICES ASSUME ~ recent.load
                 PROVE  /\ task'["load"].pc = "idle"
                        /\ blocked' \subseteq recent.names
                        /\ Published \subseteq recent.names
                        /\ task'["refresh"].data \subseteq recent.names
        BY <1>0, <1>3, <2>2, TaskStep DEF Fresh
    <3>1. t = "refresh"
        BY <1>0, <1>3, TaskStep DEF Fresh, Task
    <3> QED
        BY <1>0, <1>3, <3>1, TaskStep DEF Fresh, Task
  <2>4. StatsAgree'
    <3> SUFFICES ASSUME config'.enabled, \A u \in Task : task'[u].pc = "idle"
                 PROVE  stats' = Cardinality(blocked')
        BY DEF StatsAgree
    <3> QED
        BY <1>0, <1>3, TaskStep
  <2> QED
      BY <2>1, <2>3, <2>4 DEF IInv
<1>4. ASSUME NEW s \in Source, NEW e \in Edition[s], Publish(s, e) PROVE IInv'
  <2>1. edition' \in [Source -> UNION {Edition[u] : u \in Source}]
        /\ \A u \in Source : edition'[u] = IF u = s THEN e ELSE edition[u]
      BY <1>0, <1>4 DEF Publish, Shape
  <2>2. recent' = [names |-> recent.names \cup Names(e), load |-> recent.load]
      BY <1>0, <1>4 DEF Publish, Shape
  <2>3. Names(e) \subseteq Listed
      BY EditionListed
  <2>4. Shape'
      BY <1>0, <1>4, <2>1, <2>2, <2>3 DEF Publish, Shape
  <2>5. Published' \subseteq Published \cup Names(e)
      BY <2>1 DEF Published
  <2>6. Fresh'
      BY <1>0, <1>4, <2>2, <2>5 DEF Publish, Fresh
  <2>7. StatsAgree'
      BY <1>0, <1>4 DEF Publish, StatsAgree
  <2> QED
      BY <2>4, <2>6, <2>7 DEF IInv
<1>5. CASE UNCHANGED vars
    BY <1>0, <1>5 DEF vars, IInv, Shape, Fresh, StatsAgree, Published
<1> QED
    BY <1>1, <1>2, <1>3, <1>4, <1>5 DEF Next

\* The invariant holds however load, refresh and the sources interleave.
LEMMA Invariance == Spec => []IInv
BY InitIInv, NextIInv, PTL DEF Spec

(***************************************************************************)
(* refresh clears the set and fetches every list anew: whatever sources    *)
(* fail or change meanwhile, nothing is blocked after it that neither the  *)
(* configuration nor, since it began, a list has named, unless the initial *)
(* load ran beside it.                                                     *)
(***************************************************************************)
THEOREM Withdrawn == Spec => []WithdrawnUnblocked
<1>1. IInv => WithdrawnUnblocked
    BY DEF IInv, Fresh, WithdrawnUnblocked
<1> QED
    BY <1>1, Invariance, PTL

(***************************************************************************)
(* load and refresh count the set after their last source: while the list  *)
(* is on, total_blocked is the size of the set once neither runs.          *)
(***************************************************************************)
THEOREM Counted == Spec => []StatsAgree
<1>1. IInv => StatsAgree
    BY DEF IInv
<1> QED
    BY <1>1, Invariance, PTL

(***************************************************************************)
(* The decision.                                                           *)
(***************************************************************************)
\* The labels of the lists and the one that Universe puts below them.
Label == STRING \cup {"sub"}

\* A label alone is a name.
LEMMA Singleton == ASSUME NEW S, NEW x \in S PROVE <<x>> \in Seq(S)
OBVIOUS

\* The names of Universe are sequences.
LEMMA UniverseNames == Universe \subseteq Seq(Label)
<1> DEFINE listed == UNION {Names(e) : e \in UNION {Edition[s] : s \in Source}}
<1>1. listed \subseteq Seq(Label)
  <2>1. listed \subseteq Seq(STRING)
      BY BlocklistAssumption DEF Names, parse_line, Source
  <2>2. Seq(STRING) \subseteq Seq(Label)
      BY DEF Label
  <2> QED
      BY <2>1, <2>2
<1>2. \A n \in Seq(Label) : \A i \in 1 .. Len(n) : SubSeq(n, i, Len(n)) \in Seq(Label)
    OBVIOUS
<1>3. \A n \in Seq(Label) : <<"sub">> \o n \in Seq(Label)
  <2>1. <<"sub">> \in Seq(Label)
      BY Singleton DEF Label
  <2> QED
      BY <2>1
<1> HIDE DEF listed
<1>4. (UNION {{SubSeq(n, i, Len(n)) : i \in 1 .. Len(n)} : n \in listed}) \subseteq Seq(Label)
  <2>1. ASSUME NEW n \in listed
        PROVE  {SubSeq(n, i, Len(n)) : i \in 1 .. Len(n)} \subseteq Seq(Label)
      BY <1>1, <1>2, Zenon
  <2> QED
      BY <2>1
<1>5. {<<"sub">> \o n : n \in listed} \subseteq Seq(Label)
    BY <1>1, <1>3, Zenon
<1> QED
    BY <1>4, <1>5, Zenon DEF Universe, listed

\* domain_parents gives the proper suffixes: with the name itself, all of them.
LEMMA BelowIsSelfOrParent ==
    ASSUME NEW d \in Seq(Label), NEW S, d # << >>
    PROVE  Below(d, S) <=> d \in S \/ HasParentIn(d, S)
<1>1. SubSeq(d, 1, Len(d)) = d /\ Len(d) >= 1
    OBVIOUS
<1>2. HasParentIn(d, S) <=> \E i \in 1 .. Len(d) - 1 : SubSeq(d, i + 1, Len(d)) \in S
    BY DEF HasParentIn, domain_parents
<1>3. ASSUME NEW i \in 1 .. Len(d), SubSeq(d, i, Len(d)) \in S, i # 1
      PROVE  HasParentIn(d, S)
  <2>1. i - 1 \in 1 .. Len(d) - 1 /\ (i - 1) + 1 = i
      BY <1>3
  <2> QED
      BY <1>2, <1>3, <2>1
<1>4. ASSUME NEW i \in 1 .. Len(d) - 1, SubSeq(d, i + 1, Len(d)) \in S
      PROVE  Below(d, S)
  <2>1. i + 1 \in 1 .. Len(d)
      OBVIOUS
  <2> QED
      BY <1>4, <2>1 DEF Below
<1>5. d \in S => Below(d, S)
  <2>1. 1 \in 1 .. Len(d)
      BY <1>1
  <2> QED
      BY <1>1, <2>1, Zenon DEF Below
<1>6. Below(d, S) => d \in S \/ HasParentIn(d, S)
    BY <1>1, <1>3 DEF Below
<1> QED
    BY <1>2, <1>4, <1>5, <1>6

\* The three decisions differ by their act.
LEMMA Decisions ==
    /\ Allowed # block_action
    /\ \A v : Custom(v) # block_action
    /\ \A d, c : check_custom_parent(d, c) # block_action
<1>1. Allowed.act = "allow" /\ block_action.act = "block" /\ \A v : Custom(v).act = "custom"
    BY DEF Allowed, block_action, Custom
<1>2. Allowed # block_action /\ \A v : Custom(v) # block_action
    BY <1>1
<1> QED
    BY <1>2 DEF check_custom_parent

(***************************************************************************)
(* is_blocked: neither a whitelisted name nor one below it is blocked, in  *)
(* any state of the lists.                                                 *)
(***************************************************************************)
THEOREM Whitelisted == Spec => []WhitelistHolds
<1>1. WhitelistHolds
  <2> SUFFICES ASSUME NEW d \in Universe, Below(d, config.white), is_blocked(d) = block_action
               PROVE  FALSE
      BY DEF WhitelistHolds
  <2>1. d \in Seq(Label)
      BY UniverseNames
  <2>2. d # << >>
      BY <2>1 DEF Below
  <2>3. d \in config.white \/ HasParentIn(d, config.white)
      BY <2>1, <2>2, BelowIsSelfOrParent
  <2> QED
      BY <2>3, Decisions DEF is_blocked
<1> QED
    BY <1>1, PTL

(***************************************************************************)
(* A nonempty set of numbers has a least one: the closest parent.          *)
(***************************************************************************)
LEMMA MinExists ==
    ASSUME NEW T \in SUBSET Nat, T # {}
    PROVE  Min(T) \in T /\ \A y \in T : Min(T) <= y
<1> DEFINE R == OpToRel(<, Nat)
<1>1. IsWellFoundedOn(R, Nat)
    BY NatLessThanWellFounded
<1>2. \A x, y \in Nat : y < x => <<y, x>> \in R
    BY DEF OpToRel
<1> HIDE DEF R
<1>3. PICK x \in T : \A y \in T : ~ (<<y, x>> \in R)
    BY <1>1, WFMin, Zenon
<1>4. ASSUME NEW y \in T PROVE x <= y
  <2>1. ~ (y < x)
      BY <1>2, <1>3, Zenon
  <2> QED
      BY <2>1
<1> QED
    BY <1>3, <1>4 DEF Min

\* A suffix of a suffix.
LEMMA Suffix ==
    ASSUME NEW S, NEW d \in Seq(S), NEW i \in 1 .. Len(d), NEW k \in 1 .. Len(d) - i + 1
    PROVE  LET p == SubSeq(d, i, Len(d))
           IN  /\ p \in Seq(S)
               /\ Len(p) = Len(d) - i + 1
               /\ SubSeq(p, k, Len(p)) = SubSeq(d, i + k - 1, Len(d))
<1> DEFINE p == SubSeq(d, i, Len(d))
<1>1. p \in Seq(S) /\ Len(p) = Len(d) - i + 1
    OBVIOUS
<1>2. SubSeq(SubSeq(d, i, Len(d)), k, Len(d) - i + 1) = SubSeq(d, i + k - 1, Len(d))
    BY SubSeqOfSubSeq
<1> QED
    BY <1>1, <1>2

\* The closest parent with a record decides.
LEMMA ClosestDecides ==
    ASSUME NEW d \in Seq(Label), d # << >>, NEW c
    PROVE  check_custom_parent(d, c) = Allowed <=>
             \A k \in 1 .. Len(d) - 1 :
                 /\ SubSeq(d, k + 1, Len(d)) \in DOMAIN c
                 /\ \A j \in 1 .. k - 1 : SubSeq(d, j + 1, Len(d)) \notin DOMAIN c
                 => c[SubSeq(d, k + 1, Len(d))] = <<"none">>
<1> DEFINE hits == {i \in 1 .. Len(d) - 1 : SubSeq(d, i + 1, Len(d)) \in DOMAIN c}
           value(k) == c[SubSeq(d, k + 1, Len(d))]
<1>0. DOMAIN domain_parents(d) = 1 .. Len(d) - 1
      /\ \A i \in 1 .. Len(d) - 1 : domain_parents(d)[i] = SubSeq(d, i + 1, Len(d))
    BY DEF domain_parents
<1>1. hits = {i \in DOMAIN domain_parents(d) : domain_parents(d)[i] \in DOMAIN c}
    BY <1>0
<1>2. hits # {} => Min(hits) \in hits /\ \A y \in hits : Min(hits) <= y
  <2>1. hits \in SUBSET Nat
      OBVIOUS
  <2> QED
      BY <2>1, MinExists, Zenon
<1>3. \A v : Custom(v) # Allowed
  <2>1. Allowed.act = "allow" /\ \A v : Custom(v).act = "custom"
      BY DEF Allowed, Custom
  <2> QED
      BY <2>1
<1>4. ASSUME hits # {}
      PROVE  domain_parents(d)[Min(hits)] = SubSeq(d, Min(hits) + 1, Len(d))
    BY <1>0, <1>2, <1>4
<1>5. check_custom_parent(d, c) = Allowed <=> hits = {} \/ value(Min(hits)) = <<"none">>
  <2>1. CASE hits = {}
      BY <1>1, <2>1, Zenon DEF check_custom_parent
  <2>2. CASE hits # {}
    <3>1. check_custom_parent(d, c) = IF value(Min(hits)) = <<"none">> THEN Allowed
                                      ELSE Custom(value(Min(hits)))
        BY <1>1, <1>4, <2>2, Zenon DEF check_custom_parent
    <3> QED
        BY <1>3, <2>2, <3>1, Zenon
  <2> QED
      BY <2>1, <2>2
<1>6. ASSUME NEW k \in hits, \A j \in 1 .. k - 1 : j \notin hits
      PROVE  k = Min(hits)
  <2>1. Min(hits) \in 1 .. Len(d) - 1 /\ Min(hits) <= k /\ Min(hits) \in hits
      BY <1>2
  <2>2. k \in 1 .. Len(d) - 1
      OBVIOUS
  <2> QED
      BY <1>6, <2>1, <2>2
<1>7. hits # {} => \A j \in 1 .. Min(hits) - 1 : j \notin hits
    BY <1>2
<1>8. (hits = {} \/ value(Min(hits)) = <<"none">>) <=>
        \A k \in hits : (\A j \in 1 .. k - 1 : j \notin hits) => value(k) = <<"none">>
    BY <1>2, <1>6, <1>7
<1>9. \A k \in hits : \A j \in 1 .. k - 1 :
          j \notin hits <=> SubSeq(d, j + 1, Len(d)) \notin DOMAIN c
    OBVIOUS
<1> QED
    BY <1>5, <1>8, <1>9

\* When is_blocked blocks.
LEMMA BlockedWhen ==
    ASSUME NEW d \in Seq(Label), d # << >>
    PROVE  is_blocked(d) = block_action <=>
             /\ ~ ~ config.enabled
             /\ d \notin DOMAIN config.custom
             /\ check_custom_parent(d, config.custom) = Allowed
             /\ ~ Below(d, config.white)
             /\ Below(d, blocked)
<1>1. /\ Below(d, config.white) <=> d \in config.white \/ HasParentIn(d, config.white)
      /\ Below(d, blocked) <=> d \in blocked \/ HasParentIn(d, blocked)
    BY BelowIsSelfOrParent
<1> QED
    BY <1>1, Decisions, Zenon DEF is_blocked

(***************************************************************************)
(* is_blocked, "Wildcard / parent-domain matching": what is blocked is     *)
(* blocked with every name below it, at any depth, up to a closer name     *)
(* that is whitelisted or has a record.                                    *)
(***************************************************************************)
THEOREM Inherited == Spec => []BlockingInherited
<1>1. BlockingInherited
  <2> SUFFICES ASSUME NEW d \in Universe, NEW i \in 2 .. Len(d),
                      is_blocked(SubSeq(d, i, Len(d))) = block_action,
                      \A j \in 1 .. i - 1 :
                          SubSeq(d, j, Len(d)) \notin config.white \cup DOMAIN config.custom
               PROVE  is_blocked(d) = block_action
      BY Zenon DEF BlockingInherited
  <2> DEFINE p == SubSeq(d, i, Len(d))
             c == config.custom
  <2>1. d \in Seq(Label) /\ Len(d) \in Nat /\ i \in 1 .. Len(d) /\ i >= 2
      BY UniverseNames
  <2>2. d # << >> /\ SubSeq(d, 1, Len(d)) = d
      BY <2>1
  <2>3. p \in Seq(Label) /\ Len(p) = Len(d) - i + 1
        /\ \A k \in 1 .. Len(d) - i + 1 :
               SubSeq(p, k, Len(p)) = SubSeq(d, i + k - 1, Len(d))
      BY <2>1, Suffix
  <2>4. p # << >>
    <3>1. Len(p) >= 1
        BY <2>1, <2>3
    <3> HIDE DEF p
    <3> QED
        BY <3>1
  <2>5. /\ ~ ~ config.enabled
        /\ p \notin DOMAIN c
        /\ check_custom_parent(p, c) = Allowed
        /\ ~ Below(p, config.white)
        /\ Below(p, blocked)
      BY <2>3, <2>4, BlockedWhen
  <2> HIDE DEF p, c
  <2>6. d \notin DOMAIN c
    <3>1. 1 \in 1 .. i - 1
        BY <2>1
    <3> QED
        BY <2>2, <3>1, Zenon DEF c
  <2>7. check_custom_parent(d, c) = Allowed
    <3> SUFFICES ASSUME NEW k \in 1 .. Len(d) - 1,
                        SubSeq(d, k + 1, Len(d)) \in DOMAIN c,
                        \A j \in 1 .. k - 1 : SubSeq(d, j + 1, Len(d)) \notin DOMAIN c
                 PROVE  c[SubSeq(d, k + 1, Len(d))] = <<"none">>
        BY <2>1, <2>2, ClosestDecides
    <3>1. k + 1 >= i
        BY <2>1 DEF c
    <3>2. k + 1 # i
        BY <2>1, <2>5 DEF p
    <3> DEFINE m == k + 1 - i
    <3>3. m \in 1 .. Len(p) - 1 /\ SubSeq(p, m + 1, Len(p)) = SubSeq(d, k + 1, Len(d))
      <4>1. m \in 1 .. Len(p) - 1 /\ m + 1 \in 1 .. Len(d) - i + 1 /\ i + (m + 1) - 1 = k + 1
          BY <2>1, <2>3, <3>1, <3>2
      <4> QED
          BY <2>3, <4>1
    <3>4. ASSUME NEW j \in 1 .. m - 1 PROVE SubSeq(p, j + 1, Len(p)) \notin DOMAIN c
      <4>1. j + 1 \in 1 .. Len(d) - i + 1 /\ i + (j + 1) - 1 = (i + j - 1) + 1
            /\ i + j - 1 \in 1 .. k - 1
          BY <2>1, <2>3, <3>3
      <4>2. SubSeq(p, j + 1, Len(p)) = SubSeq(d, (i + j - 1) + 1, Len(d))
          BY <2>3, <4>1
      <4> QED
          BY <4>1, <4>2
    <3>5. c[SubSeq(p, m + 1, Len(p))] = <<"none">>
      <4> HIDE DEF m
      <4>1. SubSeq(p, m + 1, Len(p)) \in DOMAIN c
          BY <3>3
      <4> QED
          BY <2>3, <2>4, <2>5, <3>3, <3>4, <4>1, ClosestDecides
    <3> QED
        BY <3>3, <3>5
  <2>8. ~ Below(d, config.white)
    <3> SUFFICES ASSUME NEW k \in 1 .. Len(d), SubSeq(d, k, Len(d)) \in config.white
                 PROVE  Below(p, config.white)
        BY <2>5, Zenon DEF Below
    <3>1. k >= i
        BY <2>1
    <3>2. k - i + 1 \in 1 .. Len(d) - i + 1 /\ i + (k - i + 1) - 1 = k
        BY <2>1, <3>1
    <3>3. SubSeq(p, k - i + 1, Len(p)) = SubSeq(d, k, Len(d))
        BY <2>3, <3>2
    <3> QED
        BY <2>3, <3>2, <3>3, Zenon DEF Below
  <2>9. Below(d, blocked)
    <3>1. PICK k \in 1 .. Len(p) : SubSeq(p, k, Len(p)) \in blocked
        BY <2>5, Zenon DEF Below
    <3>2. k \in 1 .. Len(d) - i + 1 /\ i + k - 1 \in 1 .. Len(d)
        BY <2>1, <2>3
    <3>3. SubSeq(d, i + k - 1, Len(d)) \in blocked
        BY <2>3, <3>1, <3>2, Zenon
    <3> QED
        BY <3>2, <3>3, Zenon DEF Below
  <2> QED
      BY <2>1, <2>2, <2>5, <2>6, <2>7, <2>8, <2>9, BlockedWhen DEF c
<1> QED
    BY <1>1, PTL

\* Nothing assigns what Blocklist::new made of the configuration.
LEMMA ConfigKept == Spec => [](config \in {new(c) : c \in Config})
<1>1. Init => config \in {new(c) : c \in Config}
    BY DEF Init
<1>2. config \in {new(c) : c \in Config} /\ [Next]_vars => (config \in {new(c) : c \in Config})'
  <2> SUFFICES ASSUME [Next]_vars PROVE config' = config
      OBVIOUS
  <2> QED
      BY DEF Next, vars, load, refresh, Step, Publish, fetch_url, SourceFails,
             parse_and_insert, UpdateStats
<1> QED
    BY <1>1, <1>2, PTL DEF Spec

(***************************************************************************)
(* is_blocked and get_custom: the closest record at or above a name        *)
(* answers it in both, whatever the lists and the whitelist hold; where    *)
(* its value is "none", the name's own allows it and a parent's leaves it  *)
(* to the whitelist and the lists.                                         *)
(***************************************************************************)
THEOREM CustomFirst == Spec => []CustomDecides
<1>1. CustomDecides
  <2> SUFFICES ASSUME NEW d \in Universe
               PROVE  /\ is_blocked(d).act = "custom" => get_custom(d) = {is_blocked(d).value}
                      /\ get_custom(d) \notin {{}, {<<"none">>}} => is_blocked(d).act = "custom"
                      /\ get_custom(d) = {<<"none">>} =>
                           IF d \in DOMAIN config.custom THEN is_blocked(d) = Allowed
                           ELSE is_blocked(d) = block_action <=>
                                  Below(d, blocked) /\ ~ Below(d, config.white)
      BY Zenon DEF CustomDecides
  <2> DEFINE c == config.custom
             off == ~ config.enabled \/ d = << >>
             parents == domain_parents(d)
             hits == {i \in DOMAIN parents : parents[i] \in DOMAIN c}
             v == c[parents[Min(hits)]]
  <2>1. /\ Allowed.act = "allow" /\ block_action.act = "block"
        /\ \A x : Custom(x).act = "custom" /\ Custom(x).value = x
      BY DEF Allowed, block_action, Custom
  <2>2. "allow" # "custom" /\ "block" # "custom"
      OBVIOUS
  <2>3. \A x : {x} # {}
      OBVIOUS
  <2>4. CASE off
      BY <2>1, <2>2, <2>3, <2>4, Zenon DEF is_blocked, get_custom
  <2>5. CASE ~ off /\ d \in DOMAIN c
    <3>1. is_blocked(d) = IF c[d] = <<"none">> THEN Allowed ELSE Custom(c[d])
        BY <2>5, Zenon DEF is_blocked
    <3>2. get_custom(d) = {c[d]}
        BY <2>5, Zenon DEF get_custom
    <3> QED
        BY <2>1, <2>2, <2>5, <3>1, <3>2, Zenon
  <2>6. CASE ~ off /\ d \notin DOMAIN c
    <3>1. get_custom(d) = IF hits = {} THEN {} ELSE {v}
        BY <2>6, Zenon DEF get_custom, find_parent_custom
    <3>2. check_custom_parent(d, c) = IF hits = {} \/ v = <<"none">> THEN Allowed ELSE Custom(v)
        BY Zenon DEF check_custom_parent
    <3>3. d \in Seq(Label) /\ d # << >>
        BY <2>6, UniverseNames
    <3> HIDE DEF hits, v
    <3>4. CASE hits = {} \/ v = <<"none">>
      <4>1. check_custom_parent(d, c) = Allowed
          BY <3>2, <3>4, Zenon
      <4>2. is_blocked(d).act # "custom"
          BY <2>1, <2>2, <2>6, <4>1, Zenon DEF is_blocked
      <4>3. is_blocked(d) = block_action <=> Below(d, blocked) /\ ~ Below(d, config.white)
          BY <2>6, <3>3, <4>1, BlockedWhen, Zenon
      <4> QED
          BY <2>6, <3>1, <3>4, <4>2, <4>3, Zenon
    <3>5. CASE ~ (hits = {} \/ v = <<"none">>)
      <4>1. check_custom_parent(d, c) = Custom(v) /\ Custom(v) # Allowed
        <5>1. Custom(v) # Allowed
            BY <2>1, <2>2, Zenon
        <5> QED
            BY <3>2, <3>5, <5>1, Zenon
      <4>2. is_blocked(d) = Custom(v)
          BY <2>6, <4>1, Zenon DEF is_blocked
      <4>3. get_custom(d) = {v} /\ {v} # {<<"none">>}
          BY <3>1, <3>5, Zenon
      <4> QED
          BY <2>1, <4>2, <4>3, Zenon
    <3> QED
        BY <3>4, <3>5
  <2> QED
      BY <2>4, <2>5, <2>6
<1> QED
    BY <1>1, PTL

(***************************************************************************)
(* Sizes.  Lists are finite, so that the set can be counted, and a task    *)
(* that fetches is at one of its sources or past the last.                 *)
(***************************************************************************)
Sizes ==
    /\ blocked \subseteq Listed \cup config.manual /\ IsFiniteSet(blocked)
    /\ \A t \in Task : /\ task[t].i <= Len(Sources) + 1
                       /\ task[t].pc = "insert" => task[t].i <= Len(Sources)
                       /\ task[t].pc # "insert" => task[t].data = {}
                       /\ IsFiniteSet(task[t].data)
    /\ stats \in Nat

\* A finite list names finitely many domains.
LEMMA NamesFinite ==
    ASSUME NEW lines, IsFiniteSet(lines)
    PROVE  IsFiniteSet(Names(lines))
<1> DEFINE parsed == {parse_line(l) : l \in lines}
           f == [l \in lines |-> parse_line(l)]
<1>1. IsFiniteSet(parsed)
  <2>1. f \in [lines -> parsed] /\ \A P \in parsed : \E l \in lines : f[l] = P
      OBVIOUS
  <2> HIDE DEF f, parsed
  <2>2. f \in Surjection(lines, parsed)
      BY <2>1 DEF Surjection
  <2> QED
      BY <2>2, FS_Surjection
<1>2. \A P \in parsed : IsFiniteSet(P)
  <2>1. \A l : IsFiniteSet({l.name}) /\ IsFiniteSet({})
      BY FS_Singleton, FS_EmptySet
  <2> QED
      BY <2>1 DEF parse_line
<1>3. Names(lines) = UNION parsed
    BY DEF Names
<1> HIDE DEF parsed
<1> QED
    BY <1>1, <1>2, <1>3, FS_UNION

\* So do the lists that are published.
LEMMA EditionFinite ==
    ASSUME NEW s \in Source, NEW e \in Edition[s]
    PROVE  IsFiniteSet(Names(e))
BY NamesFinite, BlocklistAssumption DEF Source

\* A listed name is one of the universe.
LEMMA ListedInUniverse == Listed \subseteq Universe
<1> SUFFICES ASSUME NEW n \in Listed PROVE n \in Universe
    OBVIOUS
<1>1. n \in Seq(STRING) /\ n # << >>
    BY BlocklistAssumption DEF Listed, Names, parse_line, Source
<1>2. 1 \in 1 .. Len(n) /\ SubSeq(n, 1, Len(n)) = n
    BY <1>1
<1>3. n \in {SubSeq(n, i, Len(n)) : i \in 1 .. Len(n)}
    BY <1>2
<1>4. n \in UNION {{SubSeq(m, i, Len(m)) : i \in 1 .. Len(m)} : m \in Listed}
    BY <1>3
<1> QED
    BY <1>4 DEF Universe, Listed

\* A step of a task keeps the sizes.
LEMMA StepSizes ==
    ASSUME Shape, Sizes, NEW t \in Task, Step(t)
    PROVE  Sizes'
<1> DEFINE f == task[t]
           n == Len(Sources)
<1>1. /\ f \in [pc : {"start", "idle", "fetch", "insert"}, i : Nat, data : SUBSET Listed]
      /\ n \in Nat
    BY BlocklistAssumption DEF Shape
<1>2. /\ f.i <= n + 1 /\ (f.pc = "insert" => f.i <= n) /\ (f.pc # "insert" => f.data = {})
      /\ IsFiniteSet(f.data)
    BY DEF Sizes
<1>3. LET g == task'[t]
      IN  /\ g.i <= n + 1 /\ (g.pc = "insert" => g.i <= n) /\ (g.pc # "insert" => g.data = {})
          /\ IsFiniteSet(g.data)
  <2>0. IsFiniteSet({})
      BY FS_EmptySet
  <2>1. CASE fetch_url(t)
    <3> DEFINE d == Names(edition[Sources[f.i]])
    <3>1. task'[t].pc = "insert" /\ task'[t].i = f.i /\ task'[t].data = d
        BY <1>1, <2>1 DEF fetch_url, Shape
    <3>2. f.i <= n /\ f.i >= 1
        BY <2>1 DEF fetch_url, Fetching, Shape
    <3>3. Sources[f.i] \in Source
        BY <1>1, <3>2, SourceInRange
    <3>4. IsFiniteSet(d)
        BY <3>3, EditionFinite DEF Shape
    <3> HIDE DEF d
    <3> QED
        BY <1>1, <3>1, <3>2, <3>4
  <2>2. CASE SourceFails(t)
    <3>1. f.pc = "fetch" /\ f.i <= n /\ task' = [task EXCEPT ![t].i = @ + 1]
        BY <2>2 DEF SourceFails, Fetching
    <3>2. task'[t].pc = "fetch" /\ task'[t].i = f.i + 1 /\ task'[t].data = f.data
        BY <1>1, <3>1 DEF Shape
    <3>3. f.i + 1 <= n + 1
        BY <1>1, <3>1
    <3> QED
        BY <1>2, <3>1, <3>2, <3>3
  <2>3. CASE parse_and_insert(t)
    <3>1. f.pc = "insert" /\ task'[t] = [pc |-> "fetch", i |-> f.i + 1, data |-> {}]
        BY <2>3 DEF parse_and_insert, Shape
    <3>2. f.i + 1 <= n + 1
        BY <1>1, <1>2, <3>1
    <3> QED
        BY <2>0, <3>1, <3>2
  <2>4. CASE UpdateStats(t)
    <3>1. task'[t] = [pc |-> "idle", i |-> 0, data |-> {}]
        BY <2>4 DEF UpdateStats, Idle, Shape
    <3> QED
        BY <1>1, <2>0, <3>1
  <2> QED
      BY <2>1, <2>2, <2>3, <2>4 DEF Step
<1>4. \A u \in Task : /\ task'[u].i <= n + 1
                      /\ task'[u].pc = "insert" => task'[u].i <= n
                      /\ task'[u].pc # "insert" => task'[u].data = {}
                      /\ IsFiniteSet(task'[u].data)
    BY <1>3, TaskStep DEF Sizes
<1>5. /\ blocked' \subseteq Listed \cup config.manual /\ IsFiniteSet(blocked')
      /\ config' = config /\ stats' \in Nat
  <2>1. CASE parse_and_insert(t)
    <3>1. blocked' = blocked \cup f.data /\ UNCHANGED <<config, stats>>
        BY <2>1 DEF parse_and_insert
    <3>2. IsFiniteSet(blocked \cup f.data)
        BY <1>2, FS_Union DEF Sizes
    <3> QED
        BY <1>1, <3>1, <3>2 DEF Sizes
  <2>2. CASE UpdateStats(t)
    <3>1. stats' = Cardinality(blocked) /\ UNCHANGED <<config, blocked>>
        BY <2>2 DEF UpdateStats
    <3>2. Cardinality(blocked) \in Nat
        BY FS_CardinalityType DEF Sizes
    <3> QED
        BY <3>1, <3>2 DEF Sizes
  <2>3. CASE fetch_url(t) \/ SourceFails(t)
      BY <2>3 DEF fetch_url, SourceFails, Sizes
  <2> QED
      BY <2>1, <2>2, <2>3 DEF Step
<1> QED
    BY <1>4, <1>5 DEF Sizes

(***************************************************************************)
(* load, refresh: the set holds names of the lists and of the              *)
(* configuration and can be counted; a task never runs past the position   *)
(* after its last source, and holds data only between fetch and insertion. *)
(***************************************************************************)
THEOREM TypeCorrect == Spec => []TypeOK
<1>1. Init => Sizes
  <2> SUFFICES ASSUME Init PROVE Sizes
      OBVIOUS
  <2>1. \A t \in Task : /\ task[t].i = 0 /\ task[t].data = {} /\ task[t].pc # "insert"
      BY DEF Init, Idle, Task
  <2>2. PICK c \in Config : config = new(c)
      BY DEF Init
  <2>3. IsFiniteSet(config.manual)
      BY <2>2, NamesFinite, BlocklistAssumption DEF new
  <2>4. IsFiniteSet({}) /\ Len(Sources) \in Nat
      BY FS_EmptySet, BlocklistAssumption
  <2>5. \A t \in Task : /\ task[t].i <= Len(Sources) + 1
                        /\ task[t].pc = "insert" => task[t].i <= Len(Sources)
                        /\ task[t].pc # "insert" => task[t].data = {}
                        /\ IsFiniteSet(task[t].data)
    <3> SUFFICES ASSUME NEW t \in Task
                 PROVE  task[t].i <= Len(Sources) + 1 /\ IsFiniteSet(task[t].data)
        BY <2>1
    <3>1. task[t].i <= Len(Sources) + 1
        BY <2>1, <2>4
    <3>2. IsFiniteSet(task[t].data)
        BY <2>1, <2>4, Zenon
    <3> QED
        BY <3>1, <3>2
  <2> QED
      BY <2>3, <2>5 DEF Init, Sizes
<1>2. IInv /\ Sizes /\ [Next]_vars => Sizes'
  <2> SUFFICES ASSUME IInv, Sizes, [Next]_vars PROVE Sizes'
      OBVIOUS
  <2>0. Shape /\ IsFiniteSet({}) /\ Len(Sources) \in Nat
      BY FS_EmptySet, BlocklistAssumption DEF IInv
  <2> DEFINE g == [pc |-> "fetch", i |-> 1, data |-> {}]
  <2>0a. /\ g.i <= Len(Sources) + 1 /\ g.pc = "fetch" /\ g.data = {}
        /\ IsFiniteSet(g.data)
    <3>1. g.i = 1 /\ g.pc = "fetch" /\ g.data = {}
        OBVIOUS
    <3> HIDE DEF g
    <3>2. g.i <= Len(Sources) + 1
        BY <2>0, <3>1
    <3>3. IsFiniteSet(g.data)
        BY <2>0, <3>1, Zenon
    <3> QED
        BY <3>1, <3>2, <3>3
  <2> HIDE DEF g
  <2> DEFINE o == [pc |-> "idle", i |-> 0, data |-> {}]
  <2>0b. o.i <= Len(Sources) + 1 /\ o.pc = "idle" /\ o.data = {} /\ IsFiniteSet(o.data)
    <3>1. o.i = 0 /\ o.pc = "idle" /\ o.data = {}
        OBVIOUS
    <3> HIDE DEF o
    <3>2. o.i <= Len(Sources) + 1
        BY <2>0, <3>1
    <3>3. IsFiniteSet(o.data)
        BY <2>0, <3>1, Zenon
    <3> QED
        BY <3>1, <3>2, <3>3
  <2> HIDE DEF o
  <2>1. CASE load
    <3>1. /\ task'["load"] \in {g, o} /\ task'["refresh"] = task["refresh"]
          /\ UNCHANGED <<config, blocked, stats>>
        BY <2>0, <2>1 DEF load, Idle, Shape, Task, g, o
    <3> QED
        BY <2>0a, <2>0b, <3>1 DEF Sizes, Task
  <2>2. CASE refresh
    <3>1. /\ task'["refresh"] = g /\ task'["load"] = task["load"] /\ blocked' = {}
          /\ UNCHANGED <<config, stats>>
        BY <2>0, <2>2 DEF refresh, Idle, Shape, Task, g
    <3> QED
        BY <2>0, <2>0a, <3>1 DEF Sizes, Task
  <2>3. CASE \E t \in Task : Step(t)
      BY <2>0, <2>3, StepSizes
  <2>4. CASE \E s \in Source : \E e \in Edition[s] : Publish(s, e)
      BY <2>4 DEF Publish, Sizes
  <2>5. CASE UNCHANGED vars
      BY <2>5 DEF vars, Sizes
  <2> QED
      BY <2>1, <2>2, <2>3, <2>4, <2>5 DEF Next
<1>3. config \in {new(c) : c \in Config} /\ IInv /\ Sizes => TypeOK
  <2> SUFFICES ASSUME config \in {new(c) : c \in Config}, IInv, Sizes PROVE TypeOK
      OBVIOUS
  <2>1. Shape /\ Len(Sources) \in Nat
      BY BlocklistAssumption DEF IInv
  <2>2. blocked \subseteq Universe \cup config.manual
      BY ListedInUniverse DEF Sizes
  <2>3. recent.names \subseteq Universe /\ recent.load \in BOOLEAN
      BY <2>1, ListedInUniverse DEF Shape
  <2>4. \A t \in Task : /\ task[t].pc \in {"start", "idle", "fetch", "insert"}
                        /\ task[t].i \in 0 .. Len(Sources) + 1
                        /\ task[t].pc # "insert" => task[t].data = {}
                        /\ ~ config.enabled => task[t].pc \in {"start", "idle"}
      BY <2>1 DEF Shape, Sizes
  <2> QED
      BY <2>1, <2>2, <2>3, <2>4 DEF TypeOK, Shape, Sizes
<1> QED
    BY <1>1, <1>2, <1>3, Invariance, ConfigKept, PTL DEF Spec
=============================================================================
