----------------------------- MODULE Blocklist -----------------------------
(***************************************************************************)
(* The blocklist (blocklist.rs): the initial load and the refresh of the   *)
(* blocked set from lists that change and may fail to arrive, and the      *)
(* decision is_blocked takes for a name at any moment in between.  main.rs *)
(* spawns load once; refresh is a public method that nothing in the        *)
(* program calls, so that here its cycles happen or do not.                *)
(*                                                                         *)
(* A name is the sequence of its labels.  A line of a list is its form     *)
(* and the name in it; the whitelist and the custom records never change   *)
(* after Blocklist::new.                                                   *)
(***************************************************************************)
EXTENDS Integers, Sequences, FiniteSets, FiniteSetsExt

CONSTANTS
    Sources,     \* config.blocklist_sources, in order
    Dependable,  \* the sources that never fail
    Edition,     \* source -> the contents it may publish, each a set of lines
    Config       \* configurations: enabled, manual, white, custom_dns

ASSUME BlocklistAssumption ==
    /\ Sources \in Seq({Sources[i] : i \in DOMAIN Sources})
    /\ Dependable \subseteq {Sources[i] : i \in DOMAIN Sources}
    /\ \A i \in DOMAIN Sources :
           /\ Edition[Sources[i]] # {}
           /\ \A e \in Edition[Sources[i]] :
                  IsFiniteSet(e) /\ \A l \in e : l.name \in Seq(STRING)
    /\ \A c \in Config : IsFiniteSet(c.manual)

VARIABLES
    config,   \* what Blocklist::new made of the configuration
    blocked,  \* RwLock<HashSet<String>>
    edition,  \* what every source publishes now
    task,     \* the load and the refresh
    stats,    \* total_blocked of BlocklistStats
    recent    \* history: names published since the last clear, and whether a
              \* load has been active since

vars == <<config, blocked, edition, task, stats, recent>>

Source == {Sources[i] : i \in DOMAIN Sources}
Task == {"load", "refresh"}

(***************************************************************************)
(* Parsing.  "hosts" is an address and a name, "domain" a name, "adblock"  *)
(* a name between || and ^, "wild" one after *. ; a comment, a bare        *)
(* address and a URL name nothing.                                         *)
(***************************************************************************)
parse_line(l) ==
    IF l.form \in {"hosts", "domain", "adblock", "wild"} /\ l.name # << >>
    THEN {l.name} ELSE {}

Names(lines) == UNION {parse_line(l) : l \in lines}

\* An entry of custom_dns is a name, a separator and a value without "=", as the
\* sequence of its parts between colons.  The entry is split at its first "=",
\* without one at its first ":", and only then at a space: after a space, the
\* first part of a value with colons stays with the name.
parse_custom_dns_entry(e) ==
    IF e.sep # " " \/ Len(e.value) = 1 THEN [name |-> e.name, value |-> e.value]
    ELSE [name |-> IF e.value[1] = "" THEN e.name ELSE Append(e.name, e.value[1]),
          value |-> Tail(e.value)]

\* Entries without name or value are dropped; a name has one entry.
Records(entries) ==
    LET parsed == {parse_custom_dns_entry(e) : e \in entries}
        kept == {p \in parsed : p.name # << >> /\ p.value # <<"">>}
    IN  [d \in {p.name : p \in kept} |-> (CHOOSE p \in kept : p.name = d).value]

(***************************************************************************)
(* The decision.                                                           *)
(***************************************************************************)
Allowed == [act |-> "allow", value |-> << >>]
block_action == [act |-> "block", value |-> << >>]
Custom(v) == [act |-> "custom", value |-> v]

\* Mutant: the last label is not taken for a parent.
domain_parents_short(d) == [i \in 1 .. Len(d) - 2 |-> SubSeq(d, i + 1, Len(d))]

\* The proper suffixes, the closest first.
domain_parents(d) == [i \in 1 .. Len(d) - 1 |-> SubSeq(d, i + 1, Len(d))]

HasParentIn(d, S) == \E i \in DOMAIN domain_parents(d) : domain_parents(d)[i] \in S

check_custom_parent(d, custom) ==
    LET parents == domain_parents(d)
        hits == {i \in DOMAIN parents : parents[i] \in DOMAIN custom}
        value == custom[parents[Min(hits)]]
    IN  IF hits = {} \/ (hits # {} /\ value = <<"none">>) THEN Allowed ELSE Custom(value)

\* Mutant: the farthest parent decides.
find_parent_custom_far(d, custom) ==
    LET parents == domain_parents(d)
        hits == {i \in DOMAIN parents : parents[i] \in DOMAIN custom}
    IN  IF hits = {} THEN {} ELSE {custom[parents[Max(hits)]]}

find_parent_custom(d, custom) ==
    LET parents == domain_parents(d)
        hits == {i \in DOMAIN parents : parents[i] \in DOMAIN custom}
    IN  IF hits = {} THEN {} ELSE {custom[parents[Min(hits)]]}

\* The value of the name's record as a set, empty for None.
get_custom(d) ==
    IF ~ config.enabled \/ d = << >> THEN {}
    ELSE IF d \in DOMAIN config.custom THEN {config.custom[d]}
    ELSE find_parent_custom(d, config.custom)

\* Mutant: only the whitelisted name itself is allowed.
is_blocked_exact(d) ==
    IF ~ config.enabled \/ d = << >> THEN Allowed
    ELSE IF get_custom(d) # {}
    THEN IF get_custom(d) = {<<"none">>} THEN Allowed ELSE Custom(CHOOSE v \in get_custom(d) : TRUE)
    ELSE IF d \in config.white THEN Allowed
    ELSE IF d \in blocked \/ HasParentIn(d, blocked) THEN block_action
    ELSE Allowed

is_blocked(d) ==
    IF ~ config.enabled \/ d = << >> THEN Allowed
    ELSE IF d \in DOMAIN config.custom
    THEN IF config.custom[d] = <<"none">> THEN Allowed ELSE Custom(config.custom[d])
    ELSE IF check_custom_parent(d, config.custom) # Allowed
    THEN check_custom_parent(d, config.custom)
    ELSE IF d \in config.white \/ HasParentIn(d, config.white) THEN Allowed
    ELSE IF d \in blocked \/ HasParentIn(d, blocked) THEN block_action
    ELSE Allowed

(***************************************************************************)
(* Loading.  A task fetches one source after the other; between the fetch  *)
(* and the insertion, and between two sources, others run.                 *)
(***************************************************************************)
Idle == [pc |-> "idle", i |-> 0, data |-> {}]

new(c) ==
    [enabled |-> c.enabled, manual |-> Names(c.manual), white |-> c.white,
     custom |-> Records(c.custom_dns)]

Init ==
    /\ config \in {new(c) : c \in Config}
    /\ blocked = config.manual
    /\ edition \in {e \in [Source -> UNION {Edition[s] : s \in Source}] :
                      \A s \in Source : e[s] \in Edition[s]}
    /\ task = [t \in Task |-> IF t = "load" THEN [Idle EXCEPT !.pc = "start"] ELSE Idle]
    /\ stats = 0
    /\ recent = [names |-> {}, load |-> TRUE]

Published == UNION {Names(edition[s]) : s \in Source}

\* A source publishes another edition.
Publish(s, e) ==
    /\ e \in Edition[s]
    /\ edition' = [edition EXCEPT ![s] = e]
    /\ recent' = [recent EXCEPT !.names = @ \cup Names(e)]
    /\ UNCHANGED <<config, blocked, task, stats>>

\* Mutant: a list that is switched off is loaded as well.
load_always ==
    /\ task["load"].pc = "start"
    /\ task' = [task EXCEPT !["load"] = [Idle EXCEPT !.pc = "fetch", !.i = 1]]
    /\ UNCHANGED <<config, blocked, edition, stats, recent>>

\* A list that is switched off is not loaded, and nothing is counted.
load ==
    /\ task["load"].pc = "start"
    /\ task' = [task EXCEPT !["load"] = IF config.enabled
                                        THEN [Idle EXCEPT !.pc = "fetch", !.i = 1]
                                        ELSE Idle]
    /\ UNCHANGED <<config, blocked, edition, stats, recent>>

\* Mutant: a refresh adds to what is there.
refresh_kept ==
    /\ config.enabled
    /\ task["refresh"].pc = "idle"
    /\ task' = [task EXCEPT !["refresh"] = [Idle EXCEPT !.pc = "fetch", !.i = 1]]
    /\ recent' = [names |-> Published, load |-> task["load"].pc # "idle"]
    /\ UNCHANGED <<config, blocked, edition, stats>>

\* After 24 hours: the blocked set is cleared, then loaded again.
refresh ==
    /\ config.enabled
    /\ task["refresh"].pc = "idle"
    /\ blocked' = {}
    /\ task' = [task EXCEPT !["refresh"] = [Idle EXCEPT !.pc = "fetch", !.i = 1]]
    /\ recent' = [names |-> Published, load |-> task["load"].pc # "idle"]
    /\ UNCHANGED <<config, edition, stats>>

Fetching(t) == task[t].pc = "fetch" /\ task[t].i <= Len(Sources)

fetch_url(t) ==
    /\ Fetching(t)
    /\ task' = [task EXCEPT ![t].pc = "insert",
                            ![t].data = Names(edition[Sources[task[t].i]])]
    /\ UNCHANGED <<config, blocked, edition, stats, recent>>

\* Mutant: the first source that fails ends the loop.
SourceFails_abort(t) ==
    /\ Fetching(t)
    /\ Sources[task[t].i] \notin Dependable
    /\ task' = [task EXCEPT ![t].i = Len(Sources) + 1]
    /\ UNCHANGED <<config, blocked, edition, stats, recent>>

SourceFails(t) ==
    /\ Fetching(t)
    /\ Sources[task[t].i] \notin Dependable
    /\ task' = [task EXCEPT ![t].i = @ + 1]
    /\ UNCHANGED <<config, blocked, edition, stats, recent>>

parse_and_insert(t) ==
    /\ task[t].pc = "insert"
    /\ blocked' = blocked \cup task[t].data
    /\ task' = [task EXCEPT ![t] = [pc |-> "fetch", i |-> @.i + 1, data |-> {}]]
    /\ UNCHANGED <<config, edition, stats, recent>>

\* Mutant: only the load counts what is blocked.
UpdateStats_load(t) ==
    /\ task[t].pc = "fetch" /\ task[t].i > Len(Sources)
    /\ stats' = IF t = "load" THEN Cardinality(blocked) ELSE stats
    /\ task' = [task EXCEPT ![t] = Idle]
    /\ UNCHANGED <<config, blocked, edition, recent>>

UpdateStats(t) ==
    /\ task[t].pc = "fetch" /\ task[t].i > Len(Sources)
    /\ stats' = Cardinality(blocked)
    /\ task' = [task EXCEPT ![t] = Idle]
    /\ UNCHANGED <<config, blocked, edition, recent>>

Step(t) == fetch_url(t) \/ SourceFails(t) \/ parse_and_insert(t) \/ UpdateStats(t)

Next ==
    \/ load \/ refresh
    \/ \E t \in Task : Step(t)
    \/ \E s \in Source : \E e \in Edition[s] : Publish(s, e)

Spec == Init /\ [][Next]_vars

(***************************************************************************)
(* main.rs spawns the load.  A load and a refresh that have begun go on: a *)
(* fetch ends, if only by its timeout of 30 seconds.  Nothing makes a      *)
(* refresh begin.                                                          *)
(***************************************************************************)
FairSpec == Spec /\ WF_vars(load) /\ \A t \in Task : WF_vars(Step(t))

-----------------------------------------------------------------------------
\* The names a list can hold and all names above and below them.
Universe ==
    LET listed == UNION {Names(e) : e \in UNION {Edition[s] : s \in Source}}
    IN  (UNION {{SubSeq(n, i, Len(n)) : i \in 1 .. Len(n)} : n \in listed})
        \cup {<<"sub">> \o n : n \in listed}

\* Every variable has its type; data is held between fetch and insertion only,
\* and neither task runs when the list is switched off.
TypeOK ==
    /\ config \in {new(c) : c \in Config}
    /\ blocked \subseteq Universe \cup config.manual
    /\ edition \in [Source -> UNION {Edition[s] : s \in Source}]
    /\ \A t \in Task : /\ task[t].pc \in {"start", "idle", "fetch", "insert"}
                       /\ task[t].i \in 0 .. Len(Sources) + 1
                       /\ task[t].pc # "insert" => task[t].data = {}
                       /\ ~ config.enabled => task[t].pc \in {"start", "idle"}
    /\ stats \in Nat
    /\ recent.names \subseteq Universe /\ recent.load \in BOOLEAN

(***************************************************************************)
(* is_blocked, "Whitelist (domain is allowed)": whatever lists are loaded, *)
(* in whatever order and state, a whitelisted name and the names below it  *)
(* are never blocked.                                                      *)
(***************************************************************************)
Below(d, S) == \E i \in 1 .. Len(d) : SubSeq(d, i, Len(d)) \in S

WhitelistHolds ==
    \A d \in Universe : Below(d, config.white) => is_blocked(d) # block_action

(***************************************************************************)
(* is_blocked, "Wildcard / parent-domain matching": blocking reaches every *)
(* name below a blocked one, however deep, except where a closer name is   *)
(* whitelisted or has a record of its own.                                 *)
(***************************************************************************)
BlockingInherited ==
    \A d \in Universe :
        \A i \in 2 .. Len(d) :
            is_blocked(SubSeq(d, i, Len(d))) = block_action =>
                \/ is_blocked(d) = block_action
                \/ \E j \in 1 .. i - 1 :
                      SubSeq(d, j, Len(d)) \in config.white \cup DOMAIN config.custom

(***************************************************************************)
(* is_blocked and get_custom walk up the records each on its own.  They    *)
(* agree on the record that answers a name, the closest one at or above    *)
(* it, whatever the lists and the whitelist say.  They part at the value   *)
(* "none": the name's own allows it, but a parent's, which get_custom      *)
(* returns as well, leaves the name to the whitelist and the lists.        *)
(***************************************************************************)
CustomDecides ==
    \A d \in Universe :
        LET decision == is_blocked(d)
            record == get_custom(d)
        IN  /\ decision.act = "custom" => record = {decision.value}
            /\ record \notin {{}, {<<"none">>}} => decision.act = "custom"
            /\ record = {<<"none">>} =>
                  IF d \in DOMAIN config.custom THEN decision = Allowed
                  ELSE decision = block_action <=> Below(d, blocked) /\ ~ Below(d, config.white)

(***************************************************************************)
(* refresh: a name that every list has dropped before a refresh began is   *)
(* not blocked any more when it is over, unless the configuration itself   *)
(* blocks it or a load ran beside it.                                      *)
(***************************************************************************)
WithdrawnUnblocked ==
    task["refresh"].pc = "idle" /\ ~ recent.load =>
        blocked \subseteq recent.names \cup config.manual

(***************************************************************************)
(* load, refresh: while the list is on and neither runs, total_blocked is  *)
(* the size of the set, whichever sources failed or changed.  (Switched    *)
(* off, it stays 0 beside the names of the configuration.)                 *)
(***************************************************************************)
StatsAgree ==
    config.enabled /\ (\A t \in Task : task[t].pc = "idle") => stats = Cardinality(blocked)

(***************************************************************************)
(* load, refresh: the load starts without the lists, and a refresh clears  *)
(* the set before it fetches.  A name that a source which does not fail    *)
(* keeps listing is blocked after either, even when the sources before it  *)
(* in the list fail.                                                       *)
(***************************************************************************)
AlwaysListed == {d \in Universe : \E s \in Dependable : \A e \in Edition[s] : d \in Names(e)}

BlockedAgain ==
    \A d \in AlwaysListed : config.enabled => []<> (d \in blocked)
=============================================================================
