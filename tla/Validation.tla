----------------------------- MODULE Validation -----------------------------
(***************************************************************************)
(* DNSSEC in RecursiveResolver (resolver/recursive.rs) with the functions  *)
(* of dnssec/mod.rs it calls: a resolution collects signatures and keys,   *)
(* asks again with RD=1 for what is missing, resolves the signer's DNSKEY  *)
(* set, and accepts, marks (AD) or rejects the answer.  The zone rolls its *)
(* key over and signs again while a call waits, and time passes.           *)
(*                                                                         *)
(* The cache is shared with other calls, which fill it at any time, and    *)
(* its entries expire or are dropped at any time: what a lookup finds is   *)
(* any of what may be there, and what a call stores shows in that.  Its    *)
(* records come back unparsed.  DnsCache and Resolver model the cache.     *)
(*                                                                         *)
(* Names lie in one zone, at the end of a path of zones from the root with *)
(* one label each, and only the zone's own servers answer for them.  A     *)
(* signature is the version of the key that made it and its inception;     *)
(* bytes and key tags are left out.  The descent to the zone's servers is  *)
(* one await: see Iteration.                                               *)
(***************************************************************************)
EXTENDS Integers, FiniteSets

CONSTANTS
    Client,
    Name,
    Below,     \* [Name -> Nat]: labels of the name below the zone's apex
    Form,      \* [Name -> {"plain", "wildcard", "unencoded"}]: the answer's records,
               \* made from a wildcard, or of a type that the code cannot encode
    Zones,     \* labels of the zone's name, 0 for the root
    TRUST_ANCHORS,  \* versions of the root's key
    MAX_CNAME_DEPTH,
    MaxChain,  \* the depth above which validate_dnssec_chain gives up
    MaxKey,    \* bound: versions of the zone's key
    Supported, \* those whose algorithm verify_signature knows
    MaxTime,   \* bound: ticks
    Word,      \* 2^32: seconds are counted modulo Word
    Clocks,    \* [start, skew]: our clock at time 0, and how far ahead of it
               \* the zone's clock is
    Validity,  \* expiration of a signature - its inception
    Fudge      \* FUDGE

ASSUME ValidationAssumption ==
    /\ Name # {}
    /\ Below \in [Name -> Nat]
    /\ Form \in [Name -> {"plain", "wildcard", "unencoded"}]
    /\ Zones \subseteq Nat
    /\ {MAX_CNAME_DEPTH, MaxChain, MaxKey, MaxTime, Word, Validity, Fudge} \subseteq Nat
    /\ MaxKey > 0
    /\ \A k \in Clocks : k.start \in 0 .. Word - 1 /\ k.skew \in 0 .. Fudge
    /\ MaxTime + Validity + Fudge < Word \div 2

VARIABLES
    zone,     \* labels of the zone's name
    clock,    \* a member of Clocks
    now,      \* time, in ticks
    key,      \* version of the zone's key, 0 when the zone is not signed
    inc,      \* inception of the signatures the zone serves
    call      \* of every client: its resolve_with_ad

world == <<zone, clock, now, key, inc>>
vars == <<world, call>>

(***************************************************************************)
(* pc      "idle", "ask" for the answer, "rd1", "keys" before the cache is *)
(*         asked for the DNSKEY set, "fetch" of it, "validate", "walk" up  *)
(*         the DS records, "chain", "done"                                 *)
(* name    the name asked for, then the target of its CNAME; depth counts  *)
(*         the CNAMEs                                                      *)
(* stale   lookup_stale has records for the name                           *)
(* neg     "" for an answer, "nodata" or "nxdomain"                        *)
(* rrsigs  the signatures collected: over the answer ("sig"), a record of  *)
(*         the authority section ("auth"), the DNSKEY set ("keysig"), and  *)
(*         the latter as it comes out of the cache ("cached")              *)
(* sig     version of the key, and inception, of the parsed ones           *)
(* keys    version of the key set collected, 0 without one, -1 when it     *)
(*         comes out of the cache, unparsed                                *)
(* old     lookup_stale has a DNSKEY set                                   *)
(* denied  "", or how the servers denied the DNSKEY set, with signatures,  *)
(*         so that validating the denial resolves the set again            *)
(* resolved  the key set is the result of resolve                          *)
(* label   check_labels                                                    *)
(* at      when validate_dnssec ran                                        *)
(* ret     "none", "cached", "ok", "empty", "stale", "nxdomain", "error"   *)
(***************************************************************************)
Parsed == {"sig", "auth", "keysig"}
Unparsed == -1

NewCall(n, stale) ==
    [pc |-> "ask", name |-> n, depth |-> 0, stale |-> stale, neg |-> "", rrsigs |-> {},
     sig |-> [key |-> 0, inc |-> 0], keys |-> 0, old |-> FALSE, denied |-> "",
     resolved |-> FALSE, label |-> 0, at |-> 0, ad |-> FALSE, rejected |-> FALSE, ret |-> "none"]

NoCall == [NewCall(CHOOSE n \in Name : TRUE, FALSE) EXCEPT !.pc = "idle"]

total_labels(n) == zone + Below[n]

Init ==
    /\ zone \in Zones
    /\ clock \in Clocks
    /\ now = 0
    /\ key \in {0, 1}
    /\ inc = clock.skew
    /\ call = [c \in Client |-> NoCall]

-----------------------------------------------------------------------------
(***************************************************************************)
(* The zone and time (external).                                           *)
(***************************************************************************)
Tick ==
    /\ now < MaxTime
    /\ now' = now + 1
    /\ UNCHANGED <<zone, clock, key, inc, call>>

\* The zone is signed again, with a new key.
Rollover ==
    /\ key \in 1 .. MaxKey - 1
    /\ key' = key + 1
    /\ inc' = now + clock.skew
    /\ UNCHANGED <<zone, clock, now, call>>

\* The signatures and keys that a message of the zone's servers may carry.
Reply == IF key = 0 THEN {{}} ELSE SUBSET {"sig", "auth", "keysig", "key"}

\* The zones on the path that have a DS record.
Delegated == {z \in 1 .. zone : z < zone \/ key # 0}

\* What the cache may hold of a name, or of the DNSKEY set.
Cached == {"none", "fresh", "expired"}

-----------------------------------------------------------------------------
(***************************************************************************)
(* dnssec/mod.rs.                                                          *)
(***************************************************************************)
Seconds(t) == (clock.start + t) % Word

\* Mutant: plain comparisons instead of serial number arithmetic.
is_rrsig_time_valid_plain(s) ==
    Seconds(now) + Fudge >= Seconds(s.inc) /\ Seconds(s.inc + Validity) >= Seconds(now)

is_rrsig_time_valid(s) ==
    LET n == Seconds(now)
        inception == Seconds(s.inc)
        expiration == Seconds(s.inc + Validity)
    IN  /\ \/ (n - inception) % Word < Word \div 2
           \/ (n + Fudge) % Word >= inception
        /\ (expiration - n) % Word < Word \div 2

\* Whether the data is what the signature was made over: not for a record of
\* another section, nor for an answer made from a wildcard (the labels field is not
\* looked at) or of a type whose RDATA is left empty.
build_signed_data(r, n) == r = "keysig" \/ (r = "sig" /\ Form[n] = "plain")

\* A signature verifies with the key that made it, over the data it was made over,
\* by one of four algorithms.  Keys of another version differ in their tag.
verify_signature(keys, s, data) == data /\ keys = s.key /\ s.key \in Supported

\* Mutant: the validity window is not looked at.
validate_rrset_timeless(r, s, keys, n) ==
    IF r = "cached" THEN "Indeterminate"
    ELSE IF verify_signature(keys, s, build_signed_data(r, n)) THEN "Secure" ELSE "Bogus"

\* One signature, over the records of name n or (keysig) the DNSKEY set.
validate_rrset(r, s, keys, n) ==
    IF r = "cached" THEN "Indeterminate"
    ELSE IF is_rrsig_time_valid(s) /\ verify_signature(keys, s, build_signed_data(r, n))
    THEN "Secure" ELSE "Bogus"

same_dnskey(a, b) == a = b

validate_dnskeys_against_root_anchor(keys) ==
    \E ta \in TRUST_ANCHORS : same_dnskey(keys, ta)

\* A DS record is the digest of its owner's name and a key.
DsOf(z) == [owner |-> z, key |-> IF z = zone THEN key ELSE 1]

verify_ds(d, keys, owner) == d.owner = owner /\ d.key = keys

\* verify_ds is called with "", the name of the root.
validate_dnskeys_against_ds(keys, records) ==
    records # {} /\ \A d \in records : verify_ds(d, keys, 0)

\* Zones are their numbers of labels.
is_root_zone(z) == z = 0
parent_zone(z) == z - 1

-----------------------------------------------------------------------------
(***************************************************************************)
(* RecursiveResolver.                                                      *)
(***************************************************************************)
\* Secure also when no signature is over the answer: those over the DNSKEY set
\* count alike.
validate_dnssec(rrsigs, s, keys, n) ==
    IF rrsigs = {} \/ keys = 0 THEN "Indeterminate"
    ELSE IF \E r \in rrsigs : validate_rrset(r, s, keys, n) = "Bogus" THEN "Bogus"
    ELSE "Secure"

\* Whether addresses of the zone's servers are cached or found by asking the root;
\* unknown holds the zones for which neither is so.
get_nameservers_for_zone(z, unknown) == is_root_zone(z) \/ z \notin unknown

\* What is heard about a zone: nothing ("lost"), or its DS records "bare", "signed",
\* or signed with the parent's keys beside them ("keyed").
Heard == {"lost", "bare", "signed", "keyed"}

query_ds_records(z, unknown, heard) ==
    IF get_nameservers_for_zone(parent_zone(z), unknown) /\ z \in Delegated /\ heard[z] # "lost"
    THEN {DsOf(z)} ELSE {}

query_dnskey_records(z, unknown, heard) ==
    IF get_nameservers_for_zone(z, unknown) /\ heard[z] # "lost" THEN 1 ELSE 0

\* One call of validate_dnssec_chain: the keys held for zone z and the signer of
\* their signature, its DS records, the keys beside them and whether they are signed,
\* the keys found for its parent, and what the call for the parent returns.
ChainLink(z, held, signer, records, signed, beside, parent_keys, parent) ==
    CASE zone - z > MaxChain -> "Bogus"
      [] zone - z <= MaxChain /\ (is_root_zone(z) \/ is_root_zone(signer)) ->
           IF validate_dnskeys_against_root_anchor(held) THEN "Secure" ELSE "Bogus"
      [] zone - z <= MaxChain /\ ~ (is_root_zone(z) \/ is_root_zone(signer)) ->
           IF records = {} THEN "Insecure"
           ELSE IF \/ ~ validate_dnskeys_against_ds(held, records)
                   \/ signed /\ ~ (is_rrsig_time_valid([inc |-> inc]) /\ beside = 1)
           THEN "Bogus"
           ELSE IF parent_keys # 0 THEN parent
           ELSE IF is_root_zone(parent_zone(z)) /\ validate_dnskeys_against_root_anchor(beside)
           THEN "Secure" ELSE "Indeterminate"

\* Every zone signs its own keys.
validate_dnssec_chain(keys, unknown, heard) ==
    LET verdict[z \in 0 .. zone] ==
            ChainLink(z, IF z = zone THEN keys ELSE query_dnskey_records(z, unknown, heard), z,
                      query_ds_records(z, unknown, heard), heard[z] # "bare",
                      IF heard[z] = "keyed" THEN 1 ELSE 0,
                      query_dnskey_records(parent_zone(z), unknown, heard),
                      verdict[parent_zone(z)])
    IN  verdict[zone]

Set(c, f) == call' = [call EXCEPT ![c] = f]

\* What a call leaves: its result and, for the properties, what the AD bit of an
\* answer or a rejection came from.  A refresh of stale records returns no AD bit.
Returned(f, ret) ==
    LET ad == f.ad /\ ~ f.stale
    IN  IF f.rejected \/ (ad /\ f.neg = "")
        THEN [f EXCEPT !.pc = "done", !.depth = 0, !.stale = FALSE, !.old = FALSE, !.denied = "",
                       !.resolved = FALSE, !.label = 0, !.ad = ad, !.ret = ret]
        ELSE [NoCall EXCEPT !.pc = "done", !.neg = f.neg, !.ad = ad, !.ret = ret]

\* The end of resolve_recursive, and of resolve_with_ad: the failure of a refresh
\* returns the stale records.
ReturnOk(c, f) == Set(c, Returned(f, IF f.neg = "" THEN "ok" ELSE "empty"))

ReturnErr(c, f, ret) == Set(c, Returned(f, IF f.stale THEN "stale" ELSE ret))

Reject(c, f) == ReturnErr(c, [f EXCEPT !.rejected = TRUE], "error")

Lookup(c, n) ==
    /\ call[c].pc \in {"idle", "done"}
    /\ \E found \in Cached :
        Set(c, IF found = "fresh" THEN [NoCall EXCEPT !.pc = "done", !.ret = "cached"]
               ELSE NewCall(n, found = "expired"))
    /\ UNCHANGED world

At(c, pc) == call[c].pc = pc

\* A message fills in what is missing.
Fill(f, r) ==
    LET missing == f.rrsigs = {} /\ r \cap Parsed # {}
    IN  [f EXCEPT !.rrsigs = IF missing THEN r \cap Parsed ELSE @,
                  !.sig = IF missing THEN [key |-> key, inc |-> inc] ELSE @,
                  !.keys = IF @ = 0 /\ "key" \in r THEN key ELSE @]

\* The answer.  What the message lacks is asked for with RD=1.
Answer(c) ==
    /\ At(c, "ask")
    /\ \E r \in Reply :
        LET f == Fill(call[c], r)
        IN  Set(c, [f EXCEPT !.pc = IF f.rrsigs = {} \/ f.keys = 0 THEN "rd1" ELSE "validate"])
    /\ UNCHANGED world

\* A CNAME: its target is resolved, and the AD bit is that of the target.
FollowCname(c) ==
    /\ At(c, "ask")
    /\ \/ /\ call[c].depth < MAX_CNAME_DEPTH
          /\ \E n \in Name : Set(c, [call[c] EXCEPT !.name = n, !.depth = @ + 1])
       \/ /\ call[c].depth = MAX_CNAME_DEPTH
          /\ ReturnErr(c, call[c], "error")
    /\ UNCHANGED world

\* NXDOMAIN or NODATA.  Without signatures it is returned at once.
Negative(c) ==
    /\ At(c, "ask")
    /\ \E neg \in {"nodata", "nxdomain"}, r \in {x \in Reply : x \subseteq {"sig", "auth"}} :
        LET f == [call[c] EXCEPT !.neg = neg, !.rrsigs = r]
        IN  IF r # {} THEN Set(c, [f EXCEPT !.pc = "keys"])
            ELSE IF neg = "nodata" THEN ReturnOk(c, f) ELSE ReturnErr(c, f, "nxdomain")
    /\ UNCHANGED world

\* Every server stays silent.
Fail(c) ==
    /\ At(c, "ask")
    /\ ReturnErr(c, call[c], "error")
    /\ UNCHANGED world

\* The refresh of stale records times out, wherever it waits.
Timeout(c) ==
    /\ call[c].stale /\ call[c].pc \in {"ask", "rd1", "keys", "fetch", "walk", "chain"}
    /\ ReturnErr(c, call[c], "error")
    /\ UNCHANGED world

\* Signatures without keys: the signer's DNSKEY set is resolved.
AfterRd1(f) == [f EXCEPT !.pc = IF f.rrsigs # {} /\ f.keys = 0 THEN "keys" ELSE "validate"]

\* Mutant: without an answer the call asks again.
query_rd1_again(c) ==
    /\ At(c, "rd1")
    /\ \/ \E r \in Reply : Set(c, AfterRd1(Fill(call[c], r)))
       \/ Set(c, [call[c] EXCEPT !.pc = "ask"])
    /\ UNCHANGED world

\* The RD=1 query, answered or not.
query_rd1(c) ==
    /\ At(c, "rd1")
    /\ \/ \E r \in Reply : Set(c, AfterRd1(Fill(call[c], r)))
       \/ Set(c, AfterRd1(call[c]))
    /\ UNCHANGED world

validate_negative_dnssec(f, keys) == keys # 0 /\ "auth" \in f.rrsigs

\* resolve(zone, 48) returned: a negative answer is complete, the signatures of
\* another one are looked at next.
Resolved(c, keys) ==
    LET f == [call[c] EXCEPT !.keys = keys, !.resolved = keys # 0, !.pc = "validate"]
        g == [f EXCEPT !.ad = validate_negative_dnssec(f, keys)]
    IN  CASE f.neg = "" -> Set(c, f)
          [] f.neg = "nodata" -> Set(c, Returned(g, "empty"))
          [] f.neg = "nxdomain" -> Set(c, Returned(g, IF f.stale THEN "stale" ELSE "nxdomain"))

\* What resolve(zone, 48) returns when the innermost resolution of the set gave k: a
\* denied set is empty, or the stale one when the denial is an error.
Unwind(f, k) ==
    IF f.denied = "" THEN k
    ELSE IF f.denied = "nxdomain" /\ f.old THEN Unparsed ELSE 0

\* resolve(zone, 48) asks the cache.
LookupKeys(c) ==
    /\ At(c, "keys")
    /\ \E found \in Cached :
        IF found = "fresh" THEN Resolved(c, Unwind(call[c], Unparsed))
        ELSE Set(c, [call[c] EXCEPT !.pc = "fetch",
                         !.old = IF call[c].denied = "" THEN found = "expired" ELSE @])
    /\ UNCHANGED world

\* The servers are asked for the DNSKEY set.  They may deny it without signatures;
\* without an answer the stale set, if any, is returned.
FetchKeys(c) ==
    /\ At(c, "fetch")
    /\ \E k \in {key, 0, IF call[c].old THEN Unparsed ELSE 0} : Resolved(c, Unwind(call[c], k))
    /\ UNCHANGED world

\* The servers deny the DNSKEY set with signatures: validate_negative_dnssec_response
\* resolves the set, at depth 0 and without a timeout.
Denied(c) ==
    /\ At(c, "fetch") /\ key # 0
    /\ \E d \in {"nodata", "nxdomain"} :
        Set(c, [call[c] EXCEPT !.pc = "keys", !.denied = IF @ = "" THEN d ELSE @])
    /\ UNCHANGED world

\* The refresh of a stale DNSKEY set times out, however deep in it the call waits.
KeysTimeout(c) ==
    /\ call[c].pc \in {"keys", "fetch"} /\ call[c].denied # "" /\ call[c].old
    /\ Resolved(c, Unparsed)
    /\ UNCHANGED world

\* The verdict, and what follows from it.  A cached RRSIG over the DNSKEY set joins
\* the signatures when the set was resolved.
Validate(c) ==
    /\ At(c, "validate")
    /\ \E cached \in SUBSET (IF call[c].resolved THEN {"cached"} ELSE {}) :
        LET f == [call[c] EXCEPT !.at = now, !.rrsigs = @ \cup cached]
            v == validate_dnssec(f.rrsigs, f.sig, f.keys, f.name)
            g == [f EXCEPT !.ad = (v = "Secure")]
            unsigned == f.rrsigs = {} /\ total_labels(f.name) >= 2
        IN  CASE v = "Bogus" \/ (f.keys # 0 /\ f.rrsigs = {}) -> Reject(c, f)
              [] v = "Secure" /\ f.rrsigs \cap {"keysig", "cached"} # {} ->
                   Set(c, [g EXCEPT !.pc = "chain"])
              [] v = "Secure" /\ f.rrsigs \cap {"keysig", "cached"} = {} -> ReturnOk(c, g)
              [] v = "Indeterminate" /\ f.keys = 0 /\ ~ unsigned -> ReturnOk(c, g)
              [] v = "Indeterminate" /\ f.keys = 0 /\ unsigned ->
                   Set(c, [g EXCEPT !.pc = "walk", !.label = total_labels(f.name) - 1])
    /\ UNCHANGED world

\* Mutant: the walk goes on to the root's name and past it.
WalkDs_past(c) ==
    /\ At(c, "walk")
    /\ LET f == call[c]
       IN  \/ f.label \in Delegated /\ Reject(c, f)
           \/ Set(c, [f EXCEPT !.label = @ - 1])
    /\ UNCHANGED world

\* An answer without signatures is refused when a zone above it, of two labels or
\* more, has a DS record in the cache.
WalkDs(c) ==
    /\ At(c, "walk")
    /\ LET f == call[c]
       IN  \/ f.label < 2 /\ ReturnOk(c, f)
           \/ f.label >= 2 /\ f.label \in Delegated /\ Reject(c, f)
           \/ f.label >= 2 /\ Set(c, [f EXCEPT !.label = @ - 1])
    /\ UNCHANGED world

\* The chain of trust: whatever validate_dnssec_chain finds is logged, and the answer
\* returned.
Chain(c) ==
    /\ At(c, "chain")
    /\ ReturnOk(c, call[c])
    /\ UNCHANGED world

Step(c) ==
    \/ Answer(c) \/ FollowCname(c) \/ Negative(c) \/ Fail(c) \/ query_rd1(c) \/ LookupKeys(c)
    \/ FetchKeys(c) \/ Denied(c) \/ Validate(c) \/ WalkDs(c) \/ Chain(c)

Next ==
    \/ Tick \/ Rollover
    \/ \E c \in Client : Step(c) \/ Timeout(c) \/ KeysTimeout(c) \/ \E n \in Name : Lookup(c, n)

Spec == Init /\ [][Next]_vars

\* A query ends, if only by QUERY_TIMEOUT, and a refresh by its own; no timeout is
\* on resolve(zone, 48) without a stale set, and nothing bounds how often it nests.
FairSpec ==
    Spec /\ \A c \in Client : WF_vars(Step(c)) /\ WF_vars(Timeout(c)) /\ WF_vars(KeysTimeout(c))

-----------------------------------------------------------------------------
(***************************************************************************)
(* The variables hold values of their types; in particular check_labels,   *)
(* which is unsigned, does not go below zero (the walk of                  *)
(* resolve_recursive).                                                     *)
(***************************************************************************)
TypeOK ==
    /\ zone \in Zones /\ clock \in Clocks
    /\ now \in 0 .. MaxTime /\ key \in 0 .. MaxKey /\ inc \in 0 .. MaxTime + Fudge
    /\ \A c \in Client :
        /\ call[c].pc \in {"idle", "ask", "rd1", "keys", "fetch", "validate", "walk",
                           "chain", "done"}
        /\ call[c].name \in Name /\ call[c].depth \in 0 .. MAX_CNAME_DEPTH
        /\ call[c].denied \in {"", "nodata", "nxdomain"}
        /\ call[c].rrsigs \subseteq Parsed \cup {"cached"}
        /\ call[c].keys \in -1 .. MaxKey
        /\ call[c].label \in Nat
        /\ call[c].ret \in {"none", "cached", "ok", "empty", "stale", "nxdomain", "error"}

\* The signature that call c holds was in its window when it was looked at, as
\* the passing of time has it.
InWindow(c) == call[c].at \in call[c].sig.inc - Fudge .. call[c].sig.inc + Validity

Done(c) == At(c, "done")

(***************************************************************************)
(* What the AD bit of an answer stands for (validate_dnssec after the      *)
(* awaits of resolve_recursive): every signature that came with the answer *)
(* verified, with the key set that made it and not an older or newer one,  *)
(* over the answer's records, in its window.  The answer itself may have   *)
(* none: the signature over the DNSKEY set suffices.                       *)
(***************************************************************************)
AdSound ==
    \A c \in Client : Done(c) /\ call[c].ad /\ call[c].neg = "" =>
        /\ call[c].ret = "ok"
        /\ "auth" \notin call[c].rrsigs
        /\ "sig" \in call[c].rrsigs => Form[call[c].name] = "plain"
        /\ call[c].rrsigs \cap Parsed # {}
        /\ call[c].keys = call[c].sig.key /\ call[c].sig.key \in Supported
        /\ InWindow(c)

\* The counter of seconds wraps between the inception, ahead of our clock, and our
\* clock plus FUDGE.
FudgeWraps(c) ==
    /\ call[c].at < call[c].sig.inc
    /\ clock.start + call[c].sig.inc < Word
    /\ clock.start + call[c].at + Fudge >= Word

(***************************************************************************)
(* validate_dnssec and what follows it reject no answer without a cause.   *)
(* The answer of an unsigned zone is only rejected under a signed zone of  *)
(* two labels or more.  That of a signed zone is rejected when the key set *)
(* came out of the cache, when it was rolled over between the signature    *)
(* and the set, when the signature is not in its window, when the message  *)
(* has signatures over other records or none, and when build_signed_data   *)
(* or verify_signature cannot do the answer's form or algorithm.  One      *)
(* cause more comes from is_rrsig_time_valid: FUDGE is compared without    *)
(* serial number arithmetic, so that a signature from a clock ahead of     *)
(* ours is refused while the counter is about to wrap.                     *)
(***************************************************************************)
RejectedForCause ==
    \A c \in Client : Done(c) /\ call[c].rejected =>
        IF key = 0 THEN \E z \in 2 .. zone - 1 : z < total_labels(call[c].name)
        ELSE \/ call[c].keys = Unparsed
             \/ call[c].keys # call[c].sig.key
             \/ ~ InWindow(c)
             \/ FudgeWraps(c)
             \/ "auth" \in call[c].rrsigs
             \/ call[c].rrsigs = {}
             \/ "sig" \in call[c].rrsigs /\ Form[call[c].name] # "plain"
             \/ call[c].sig.key \notin Supported

(***************************************************************************)
(* A call that has stale records to fall back on returns, whatever is lost *)
(* and whenever keys roll over.  Any other returns unless the zone's       *)
(* servers deny its DNSKEY set over and over: each denial is validated by  *)
(* resolving the set (validate_negative_dnssec_response).                  *)
(***************************************************************************)
CallsReturn ==
    \A c \in Client :
        /\ At(c, "ask") /\ call[c].stale ~> Done(c)
        /\ (At(c, "ask") ~> Done(c)) \/ []<><<Denied(c)>>_vars
=============================================================================
