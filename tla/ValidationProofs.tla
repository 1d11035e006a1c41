-------------------------- MODULE ValidationProofs --------------------------
(***************************************************************************)
(* Proofs about DNSSEC validation, for every set of clients, names, zones, *)
(* keys and clocks: what the AD bit of an answer stands for, what an       *)
(* answer is rejected for, and how far the chain of trust is followed.     *)
(***************************************************************************)
EXTENDS Validation, TLAPS

(***************************************************************************)
(* Seconds, as numbers modulo Word.                                        *)
(***************************************************************************)
\* Remainders of the sums that is_rrsig_time_valid takes ...
LEMMA WrapSum ==
    ASSUME NEW a \in Nat, NEW b \in Nat, a + b < 2 * Word
    PROVE  (a + b) % Word = IF a + b < Word THEN a + b ELSE a + b - Word
<1>1. Word \in Nat \ {0}
  BY ValidationAssumption
<1> DEFINE d == a + b
<1>2. CASE d < Word
  <2>1. d \in 0 .. Word - 1
    BY <1>1, <1>2
  <2>2. d % Word = d
    <3> HIDE DEF d
    <3> QED BY <1>1, <2>1
  <2> QED
    BY <1>2, <2>2
<1>3. CASE d >= Word
  <2>1. d \in Word .. 2 * Word - 1
    BY <1>1, <1>3
  <2>2. d % Word = d - Word
    <3> HIDE DEF d
    <3> QED BY <1>1, <2>1
  <2> QED
    BY <1>1, <1>3, <2>2
<1> QED
  BY <1>1, <1>2, <1>3

\* ... and of its differences.
LEMMA WrapDifference ==
    ASSUME NEW a \in 0 .. Word - 1, NEW b \in 0 .. Word - 1
    PROVE  (a - b) % Word = IF b <= a THEN a - b ELSE a - b + Word
<1>1. Word \in Nat \ {0}
  BY ValidationAssumption
<1> DEFINE d == a - b
<1>2. CASE b <= a
  <2>1. d \in 0 .. Word - 1
    BY <1>1, <1>2
  <2>2. d % Word = d
    <3> HIDE DEF d
    <3> QED BY <1>1, <2>1
  <2> QED
    BY <1>2, <2>2
<1>3. CASE b > a
  <2>1. d \in -Word .. -1
    BY <1>1, <1>3
  <2>2. d % Word = d + Word
    <3> HIDE DEF d
    <3> QED BY <1>1, <2>1
  <2> QED
    BY <1>1, <1>3, <2>2
<1> QED
  BY <1>1, <1>2, <1>3

\* Half the range of the counter.
LEMMA Half ==
    /\ Word \in Nat \ {0}
    /\ Word \div 2 \in Nat
    /\ 2 * (Word \div 2) <= Word
    /\ MaxTime + Validity + Fudge < Word \div 2
    /\ MaxTime \in Nat /\ Validity \in Nat /\ Fudge \in Nat
BY ValidationAssumption

\* A signature is refused for its time only when it is outside its window, or
\* when the counter wraps in the FUDGE after now; and never taken outside of it.
LEMMA TimeValid ==
    ASSUME clock \in Clocks, now \in 0 .. MaxTime,
           NEW s, s.inc \in 0 .. now + Fudge
    PROVE  is_rrsig_time_valid(s) <=>
               /\ now <= s.inc + Validity
               /\ \/ s.inc <= now
                  \/ ~ (clock.start + s.inc < Word /\ clock.start + now + Fudge >= Word)
<1> DEFINE b == clock.start
           n == (b + now) % Word
           i == (b + s.inc) % Word
           x == (b + (s.inc + Validity)) % Word
           h == Word \div 2
<1>1. b \in 0 .. Word - 1
  BY ValidationAssumption
<1>2. is_rrsig_time_valid(s) <=>
          /\ (n - i) % Word < h \/ (n + Fudge) % Word >= i
          /\ (x - n) % Word < h
  BY DEF is_rrsig_time_valid, Seconds
<1> HIDE DEF b
<1> DEFINE t == s.inc
<1>3. t \in 0 .. now + Fudge /\ now \in 0 .. MaxTime
  OBVIOUS
<1>4. n = IF b + now < Word THEN b + now ELSE b + now - Word
  <2>1. b \in Nat /\ now \in Nat /\ b + now < 2 * Word
    BY <1>1, <1>3, Half
  <2> QED
    BY <2>1, WrapSum
<1>5. i = IF b + t < Word THEN b + t ELSE b + t - Word
  <2>1. b \in Nat /\ t \in Nat /\ b + t < 2 * Word
    BY <1>1, <1>3, Half
  <2> QED
    BY <2>1, WrapSum
<1>6. x = IF b + (t + Validity) < Word THEN b + (t + Validity) ELSE b + (t + Validity) - Word
  <2>1. b \in Nat /\ t + Validity \in Nat /\ b + (t + Validity) < 2 * Word
    BY <1>1, <1>3, Half
  <2> QED
    BY <2>1, WrapSum
<1> HIDE DEF n, i, x, t
<1>7. (x - n) % Word < h <=> now <= t + Validity
  <2>1. n \in 0 .. Word - 1 /\ x \in 0 .. Word - 1
    BY <1>1, <1>3, <1>4, <1>6, Half
  <2>2. (x - n) % Word = IF n <= x THEN x - n ELSE x - n + Word
    BY <2>1, WrapDifference
  <2> QED
    BY <1>1, <1>3, <1>4, <1>6, <2>2, Half
<1>8. (n - i) % Word < h <=> t <= now
  <2>1. n \in 0 .. Word - 1 /\ i \in 0 .. Word - 1
    BY <1>1, <1>3, <1>4, <1>5, Half
  <2>2. (n - i) % Word = IF i <= n THEN n - i ELSE n - i + Word
    BY <2>1, WrapDifference
  <2> QED
    BY <1>1, <1>3, <1>4, <1>5, <2>2, Half
<1>9. ASSUME t > now
      PROVE  (n + Fudge) % Word >= i <=> ~ (b + t < Word /\ b + now + Fudge >= Word)
  <2>1. n \in Nat /\ Fudge \in Nat /\ n + Fudge < 2 * Word
    BY <1>1, <1>3, <1>4, Half
  <2>2. (n + Fudge) % Word = IF n + Fudge < Word THEN n + Fudge ELSE n + Fudge - Word
    BY <2>1, WrapSum
  <2> QED
    BY <1>1, <1>3, <1>4, <1>5, <1>9, <2>2, Half
<1> QED
  BY <1>2, <1>3, <1>7, <1>8, <1>9, Half DEF t, b

-----------------------------------------------------------------------------
(***************************************************************************)
(* The inductive invariant.                                                *)
(***************************************************************************)
Pc == {"idle", "ask", "rd1", "keys", "fetch", "validate", "walk", "chain", "done"}
Ret == {"none", "cached", "ok", "empty", "stale", "nxdomain", "error"}
Neg == {"", "nodata", "nxdomain"}

Call ==
    [pc : Pc, name : Name, depth : 0 .. MAX_CNAME_DEPTH, stale : BOOLEAN, neg : Neg,
     rrsigs : SUBSET (Parsed \cup {"cached"}), sig : [key : Nat, inc : Nat],
     keys : Int, old : BOOLEAN, denied : Neg, resolved : BOOLEAN, label : Nat, at : Nat,
     ad : BOOLEAN, rejected : BOOLEAN, ret : Ret]

\* What a call holds was published by the zone and signed by now.
Collected(f) ==
    /\ f \in Call
    /\ f.keys \in -1 .. key /\ f.sig.key \in 0 .. key /\ f.sig.inc <= now + Fudge
    /\ key = 0 => f.rrsigs = {} /\ f.keys = 0 /\ ~ f.resolved
    /\ f.resolved => f.rrsigs # {}

\* The AD bit: set for an answer only by validate_dnssec.
Verified(f) ==
    f.ad /\ f.neg = "" =>
        /\ "auth" \notin f.rrsigs
        /\ "sig" \in f.rrsigs => Form[f.name] = "plain"
        /\ f.rrsigs \cap Parsed # {}
        /\ f.keys = f.sig.key /\ f.sig.key \in Supported
        /\ f.at \in f.sig.inc - Fudge .. f.sig.inc + Validity
        /\ f.pc = "done" => f.ret = "ok"

Caused(f) ==
    f.rejected =>
        IF key = 0 THEN \E z \in 2 .. zone - 1 : z < total_labels(f.name)
        ELSE \/ f.keys # f.sig.key
             \/ ~ (f.at \in f.sig.inc - Fudge .. f.sig.inc + Validity)
             \/ /\ f.at < f.sig.inc
                /\ clock.start + f.sig.inc < Word
                /\ clock.start + f.at + Fudge >= Word
             \/ "auth" \in f.rrsigs
             \/ f.rrsigs = {}
             \/ "sig" \in f.rrsigs /\ Form[f.name] # "plain"
             \/ f.sig.key \notin Supported

\* What a call may hold at its pc: one that resolves keys has signatures, all of
\* them parsed until the cached one joins; one that walks up has none.
Placed(f) ==
    /\ f.pc # "done" => ~ f.rejected
    /\ f.ad => f.pc \in {"chain", "done"}
    /\ f.pc \in {"ask", "rd1", "validate", "walk", "chain"} => f.neg = ""
    /\ f.pc = "ask" => f.rrsigs = {}
    /\ f.pc \in {"keys", "fetch"} => f.rrsigs # {}
    /\ f.pc \in {"ask", "rd1", "keys", "fetch", "validate"} => f.rrsigs \subseteq Parsed
    /\ f.pc = "walk" =>
          f.rrsigs = {} /\ f.keys = 0 /\ f.label \in 1 .. total_labels(f.name) - 1

World ==
    /\ zone \in Zones /\ clock \in Clocks /\ now \in 0 .. MaxTime
    /\ key \in 0 .. MaxKey /\ inc \in 0 .. now + Fudge

Returnable(f) == Collected(f) /\ Verified(f) /\ Caused(f)

CallInv(f) == Returnable(f) /\ Placed(f)

IInv ==
    /\ World
    /\ call \in [Client -> Call]
    /\ \A c \in Client : CallInv(call[c])

\* What a call has collected stays good while time passes and keys roll over.
LEMMA WorldMoves ==
    ASSUME World, World', NEW f, CallInv(f),
           zone' = zone, clock' = clock, now <= now', key <= key', key = 0 <=> key' = 0
    PROVE  CallInv(f)'
<1> USE DEF World
<1>1. now \in Nat /\ now' \in Nat /\ key \in Nat /\ key' \in Nat /\ Fudge \in Nat
  BY ValidationAssumption
<1>2. f.keys \in Int /\ f.sig.key \in Nat /\ f.sig.inc \in Nat
  BY DEF CallInv, Returnable, Collected, Call
<1>3. Collected(f)'
  <2>1. f.keys \in -1 .. key' /\ f.sig.key \in 0 .. key' /\ f.sig.inc <= now' + Fudge
    <3>1. f.keys \in -1 .. key /\ f.sig.key \in 0 .. key /\ f.sig.inc <= now + Fudge
      BY DEF CallInv, Returnable, Collected
    <3> QED
      BY <1>1, <1>2, <3>1
  <2> QED
    BY <2>1 DEF CallInv, Returnable, Collected
<1>4. Verified(f)'
  BY DEF CallInv, Returnable, Verified
<1>5. Caused(f)'
  BY <1>1 DEF CallInv, Returnable, Caused, total_labels
<1>6. Placed(f)'
  BY DEF CallInv, Placed, total_labels
<1> QED
  BY <1>3, <1>4, <1>5, <1>6 DEF CallInv, Returnable

\* A step of call c that leaves it good leaves all calls good.
LEMMA SetInv ==
    ASSUME IInv, NEW c \in Client, NEW f, CallInv(f), Set(c, f), UNCHANGED world
    PROVE  IInv'
<1>1. zone' = zone /\ clock' = clock /\ now' = now /\ key' = key /\ inc' = inc
  BY DEF world
<1>2. call' = [call EXCEPT ![c] = f] /\ call \in [Client -> Call] /\ f \in Call
  BY DEF Set, IInv, CallInv, Returnable, Collected
<1>3. call' \in [Client -> Call]
  BY <1>2
<1>4. now \in Nat /\ key \in Nat
  BY DEF IInv, World
<1>5. World'
  BY <1>1 DEF IInv, World
<1>6. ASSUME NEW d \in Client
      PROVE  CallInv(call[d])'
  <2> DEFINE g == IF d = c THEN f ELSE call[d]
  <2>1. call'[d] = g
    BY <1>2
  <2>2. CallInv(g)
    BY DEF IInv
  <2>3. PICK h : h = g
    OBVIOUS
  <2>4. CallInv(h)
    BY <2>2, <2>3
  <2>5. CallInv(h)'
    BY <1>1, <1>4, <1>5, <2>4, WorldMoves DEF IInv
  <2> QED
    BY <2>1, <2>3, <2>5
<1> QED
  BY <1>3, <1>5, <1>6 DEF IInv

(***************************************************************************)
(* Copies of a call that differ in control only.                           *)
(***************************************************************************)
Kept(g, f) ==
    /\ g \in Call
    /\ g.name = f.name /\ g.neg = f.neg /\ g.rrsigs = f.rrsigs /\ g.sig = f.sig
    /\ g.keys = f.keys /\ g.at = f.at /\ g.ad = f.ad /\ g.rejected = f.rejected

\* Such a copy is as good, as long as it says "ok" where the AD bit needs it.
LEMMA KeptReturnable ==
    ASSUME NEW f, Returnable(f), NEW g, Kept(g, f), g.resolved => f.resolved,
           g.pc = "done" /\ g.ad /\ g.neg = "" => g.ret = "ok"
    PROVE  Returnable(g)
<1>1. Collected(g)
  BY DEF Returnable, Collected, Kept
<1>2. Verified(g)
  BY DEF Returnable, Verified, Kept
<1>3. Caused(g)
  BY DEF Returnable, Caused, Kept, total_labels
<1> QED
  BY <1>1, <1>2, <1>3 DEF Returnable

\* Nor can a call be bad that has neither the AD bit nor a rejection.
LEMMA Undecided ==
    ASSUME NEW f, Collected(f), ~ f.ad, ~ f.rejected
    PROVE  Returnable(f)
BY DEF Returnable, Verified, Caused

\* The depths of CNAMEs begin at 0.
LEMMA DepthNat == MAX_CNAME_DEPTH \in Nat /\ 0 \in 0 .. MAX_CNAME_DEPTH
BY ValidationAssumption

\* A new call.
LEMMA NewCallInv ==
    ASSUME World, NEW n \in Name, NEW stale \in BOOLEAN
    PROVE  /\ CallInv(NewCall(n, stale))
           /\ NewCall(n, stale) \in Call
           /\ NewCall(n, stale).rrsigs = {} /\ NewCall(n, stale).keys = 0
           /\ NewCall(n, stale).sig.key = 0 /\ NewCall(n, stale).sig.inc = 0
           /\ NewCall(n, stale).resolved = FALSE /\ NewCall(n, stale).rejected = FALSE
           /\ NewCall(n, stale).ad = FALSE
<1> DEFINE new == NewCall(n, stale)
           nosig == [key |-> 0, inc |-> 0]
           lit == [pc |-> "ask", name |-> n, depth |-> 0, stale |-> stale, neg |-> "",
                   rrsigs |-> {}, sig |-> nosig, keys |-> 0, old |-> FALSE, denied |-> "",
                   resolved |-> FALSE, label |-> 0, at |-> 0, ad |-> FALSE,
                   rejected |-> FALSE, ret |-> "none"]
<1>1. /\ nosig \in [key : Nat, inc : Nat] /\ "ask" \in Pc /\ "none" \in Ret /\ "" \in Neg
      /\ nosig.key = 0 /\ nosig.inc = 0
  BY DEF Pc, Ret, Neg
<1>2. new = lit
  BY DEF NewCall
<1> HIDE DEF nosig, new
<1>3. lit \in Call
  <2> DEFINE D == 0 .. MAX_CNAME_DEPTH
             R == SUBSET (Parsed \cup {"cached"})
             G == [key : Nat, inc : Nat]
  <2>1. 0 \in D
    BY DepthNat
  <2>2. {} \in R /\ 0 \in Int /\ 0 \in Nat
    OBVIOUS
  <2>3. nosig \in G
    BY <1>1
  <2> HIDE DEF D, R, G
  <2>4. lit \in [pc : Pc, name : Name, depth : D, stale : BOOLEAN, neg : Neg, rrsigs : R,
                 sig : G, keys : Int, old : BOOLEAN, denied : Neg, resolved : BOOLEAN,
                 label : Nat, at : Nat, ad : BOOLEAN, rejected : BOOLEAN, ret : Ret]
    BY <1>1, <2>1, <2>2, <2>3
  <2> QED
    BY <2>4, Zenon DEF Call, D, R, G
<1>4. /\ lit.neg = "" /\ lit.rrsigs = {} /\ lit.keys = 0 /\ lit.pc = "ask" /\ lit.sig = nosig
      /\ lit.resolved = FALSE /\ lit.ad = FALSE /\ lit.rejected = FALSE
  OBVIOUS
<1> HIDE DEF lit
<1>5. now \in Nat /\ key \in Nat /\ Fudge \in Nat
  BY ValidationAssumption DEF World
<1>6. 0 \in -1 .. key /\ 0 \in 0 .. key /\ 0 <= now + Fudge
  BY <1>5
<1>7. Collected(lit)
  BY <1>1, <1>3, <1>4, <1>6 DEF Collected
<1>8. Returnable(lit)
  BY <1>4, <1>7, Undecided
<1>9. Placed(lit)
  BY <1>4 DEF Placed
<1> QED
  BY <1>1, <1>2, <1>3, <1>4, <1>8, <1>9 DEF CallInv, new

\* A call that is over, and holds no evidence.
LEMMA EmptyInv ==
    ASSUME World, NEW pc \in {"idle", "done"}, NEW neg \in Neg, NEW ad \in BOOLEAN,
           ad => neg # "" /\ pc = "done", NEW ret \in Ret
    PROVE  CallInv([NoCall EXCEPT !.pc = pc, !.neg = neg, !.ad = ad, !.ret = ret])
<1> DEFINE n == CHOOSE n \in Name : TRUE
           new == NewCall(n, FALSE)
           r == [NoCall EXCEPT !.pc = pc, !.neg = neg, !.ad = ad, !.ret = ret]
<1>1. n \in Name
  BY ValidationAssumption
<1> HIDE DEF n
<1>2. /\ CallInv(new) /\ new \in Call /\ new.rrsigs = {} /\ new.keys = 0
      /\ new.resolved = FALSE /\ new.rejected = FALSE
  BY <1>1, NewCallInv
<1>3. r = [[new EXCEPT !.pc = "idle"] EXCEPT !.pc = pc, !.neg = neg, !.ad = ad, !.ret = ret]
  BY DEF NoCall, n
<1> HIDE DEF new, r
<1>4. /\ r \in Call
      /\ r.pc = pc /\ r.neg = neg /\ r.ad = ad /\ r.rrsigs = new.rrsigs
      /\ r.sig = new.sig /\ r.keys = new.keys /\ r.resolved = new.resolved
      /\ r.rejected = new.rejected
  BY <1>2, <1>3 DEF Call, Pc
<1>5. Collected(r)
  BY <1>2, <1>4 DEF CallInv, Returnable, Collected
<1>6. Verified(r) /\ Caused(r) /\ Placed(r)
  BY <1>2, <1>4 DEF Verified, Caused, Placed
<1> QED
  BY <1>5, <1>6 DEF CallInv, Returnable, r

\* The end of a call: the AD bit of an answer is returned with the answer only.
LEMMA ReturnedInv ==
    ASSUME World, NEW f, Returnable(f), NEW ret \in Ret,
           f.ad /\ ~ f.stale /\ f.neg = "" => ret = "ok"
    PROVE  CallInv(Returned(f, ret))
<1> DEFINE ad == f.ad /\ ~ f.stale
           full == [f EXCEPT !.pc = "done", !.depth = 0, !.stale = FALSE, !.old = FALSE,
                             !.denied = "", !.resolved = FALSE, !.label = 0, !.ad = ad,
                             !.ret = ret]
<1>1. f \in Call
  BY DEF Returnable, Collected
<1>2. CASE f.rejected \/ (ad /\ f.neg = "")
  <2>1. Returned(f, ret) = full
    BY <1>2 DEF Returned
  <2>2. "done" \in Pc /\ "" \in Neg /\ ad \in BOOLEAN
    BY <1>1 DEF Pc, Neg
  <2>3. 0 \in 0 .. MAX_CNAME_DEPTH
    BY DepthNat
  <2> HIDE DEF ad
  <2>4. /\ full \in Call
        /\ full.pc = "done" /\ full.ad = ad /\ full.ret = ret /\ full.resolved = FALSE
        /\ full.name = f.name /\ full.neg = f.neg /\ full.rrsigs = f.rrsigs
        /\ full.sig = f.sig /\ full.keys = f.keys /\ full.at = f.at
        /\ full.rejected = f.rejected
    BY <1>1, <2>2, <2>3 DEF Call
  <2> HIDE DEF full
  <2>5. Collected(full)
    BY <2>4 DEF Returnable, Collected
  <2>6. Verified(full)
    BY <2>4 DEF Returnable, Verified, ad
  <2>7. Caused(full)
    BY <2>4 DEF Returnable, Caused, total_labels
  <2>8. Placed(full)
    BY <2>4 DEF Placed
  <2> QED
    BY <2>1, <2>5, <2>6, <2>7, <2>8 DEF CallInv, Returnable
<1>3. CASE ~ (f.rejected \/ (ad /\ f.neg = ""))
  <2> DEFINE r == [NoCall EXCEPT !.pc = "done", !.neg = f.neg, !.ad = ad, !.ret = ret]
  <2>1. Returned(f, ret) = r
    BY <1>3 DEF Returned
  <2>2. f.neg \in Neg /\ ad \in BOOLEAN /\ (ad => f.neg # "")
    BY <1>1, <1>3 DEF Call
  <2> HIDE DEF ad
  <2>3. CallInv(r)
    BY <2>2, EmptyInv
  <2> QED
    BY <2>1, <2>3
<1> QED
  BY <1>2, <1>3

\* The two ways a call returns.
LEMMA ReturnOkInv ==
    ASSUME IInv, NEW c \in Client, NEW f, Returnable(f), ReturnOk(c, f), UNCHANGED world
    PROVE  IInv'
<1> DEFINE ret == IF f.neg = "" THEN "ok" ELSE "empty"
           r == Returned(f, ret)
<1>1. ret \in Ret /\ (f.neg = "" => ret = "ok")
  BY DEF Ret
<1>2. Set(c, r)
  BY DEF ReturnOk
<1> HIDE DEF ret
<1>3. CallInv(r)
  BY <1>1, ReturnedInv DEF IInv
<1> HIDE DEF r
<1> QED
  BY <1>2, <1>3, SetInv

\* An error, or the stale records in its place.
LEMMA ReturnErrInv ==
    ASSUME IInv, NEW c \in Client, NEW f, Returnable(f), NEW e \in Ret, ReturnErr(c, f, e),
           ~ (f.ad /\ ~ f.stale), UNCHANGED world
    PROVE  IInv'
<1> DEFINE ret == IF f.stale THEN "stale" ELSE e
           r == Returned(f, ret)
<1>1. ret \in Ret
  BY DEF Ret
<1>2. Set(c, r)
  BY DEF ReturnErr
<1> HIDE DEF ret
<1>3. CallInv(r)
  BY <1>1, ReturnedInv DEF IInv
<1> HIDE DEF r
<1> QED
  BY <1>2, <1>3, SetInv

\* A rejection, for a cause.
LEMMA RejectInv ==
    ASSUME IInv, NEW c \in Client, NEW f, Returnable(f), ~ f.ad, Reject(c, f),
           Caused([f EXCEPT !.rejected = TRUE]), UNCHANGED world
    PROVE  IInv'
<1> DEFINE r == [f EXCEPT !.rejected = TRUE]
<1>1. f \in Call
  BY DEF Returnable, Collected
<1>2. /\ r \in Call /\ r.ad = f.ad
      /\ r.pc = f.pc /\ r.name = f.name /\ r.neg = f.neg /\ r.rrsigs = f.rrsigs
      /\ r.sig = f.sig /\ r.keys = f.keys /\ r.resolved = f.resolved
  BY <1>1 DEF Call
<1>3. Caused(r)
  OBVIOUS
<1>4. ReturnErr(c, r, "error") /\ "error" \in Ret
  BY DEF Reject, Ret
<1> HIDE DEF r
<1>5. Collected(r) /\ Verified(r)
  BY <1>2 DEF Returnable, Collected, Verified
<1>6. Returnable(r) /\ ~ (r.ad /\ ~ r.stale)
  BY <1>2, <1>3, <1>5 DEF Returnable
<1> QED
  BY <1>4, <1>6, ReturnErrInv

-----------------------------------------------------------------------------
(***************************************************************************)
(* The steps of a call.                                                    *)
(***************************************************************************)
\* A call begins: a fresh entry is its answer, anything else is asked for.
LEMMA LookupInv ==
    ASSUME IInv, NEW c \in Client, NEW n \in Name, Lookup(c, n)
    PROVE  IInv'
<1> DEFINE hit == [NoCall EXCEPT !.pc = "done", !.ret = "cached"]
           full == [NoCall EXCEPT !.pc = "done", !.neg = "", !.ad = FALSE, !.ret = "cached"]
<1>1. World /\ UNCHANGED world
  BY DEF IInv, Lookup
<1>2. CallInv(full)
  <2>1. "done" \in {"idle", "done"} /\ "" \in Neg /\ FALSE \in BOOLEAN /\ "cached" \in Ret
    BY DEF Neg, Ret
  <2> QED
    BY <1>1, <2>1, EmptyInv
<1>3. full = hit
  <2> DEFINE n0 == CHOOSE m \in Name : TRUE
  <2>1. n0 \in Name
    BY ValidationAssumption
  <2>2. /\ NewCall(n0, FALSE) \in Call
        /\ NewCall(n0, FALSE).neg = "" /\ NewCall(n0, FALSE).ad = FALSE
    BY <1>1, <2>1, NewCallInv DEF CallInv, Placed, NewCall
  <2>3. NoCall \in Call /\ NoCall.neg = "" /\ NoCall.ad = FALSE
    BY <2>2 DEF NoCall, Call, Pc
  <2> QED
    BY <2>3 DEF Call
<1>4. PICK found \in Cached :
        Set(c, IF found = "fresh" THEN hit ELSE NewCall(n, found = "expired"))
  BY DEF Lookup
<1>5. CallInv(NewCall(n, found = "expired"))
  BY <1>1, NewCallInv
<1> DEFINE miss == NewCall(n, found = "expired")
<1>6. Set(c, hit) \/ Set(c, miss)
  BY <1>4
<1>7. CallInv(hit) /\ CallInv(miss)
  BY <1>2, <1>3, <1>5
<1> HIDE DEF hit, miss
<1> QED
  BY <1>1, <1>6, <1>7, SetInv

\* A message fills in signatures and the zone's keys.
LEMMA FillInv ==
    ASSUME World, NEW f, CallInv(f), f.pc \in {"ask", "rd1"}, NEW r \in Reply,
           NEW pc \in {"rd1", "validate", "keys"},
           pc = "keys" => Fill(f, r).rrsigs # {}
    PROVE  CallInv([Fill(f, r) EXCEPT !.pc = pc])
<1> DEFINE missing == f.rrsigs = {} /\ r \cap Parsed # {}
           e == Fill(f, r)
           g == [e EXCEPT !.pc = pc]
<1>1. f \in Call /\ key \in Nat /\ inc \in Nat /\ key \in Int
  <2>1. key \in 0 .. MaxKey /\ inc \in 0 .. now + Fudge
    BY DEF World
  <2>2. f \in Call
    BY DEF CallInv, Returnable, Collected
  <2> QED
    BY <2>1, <2>2
<1>2. r \cap Parsed \subseteq Parsed \cup {"cached"} /\ (key = 0 => r = {})
  BY DEF Reply
<1>3. /\ e \in Call
      /\ e.rrsigs = IF missing THEN r \cap Parsed ELSE f.rrsigs
      /\ e.sig = IF missing THEN [key |-> key, inc |-> inc] ELSE f.sig
      /\ e.keys = IF f.keys = 0 /\ "key" \in r THEN key ELSE f.keys
      /\ e.neg = f.neg /\ e.resolved = f.resolved /\ e.ad = f.ad /\ e.rejected = f.rejected
  BY <1>1, <1>2 DEF Fill, Call
<1>4. pc = "keys" => e.rrsigs # {}
  OBVIOUS
<1> HIDE DEF e
<1>5. /\ g \in Call
      /\ g.pc = pc
      /\ g.rrsigs = e.rrsigs
      /\ g.sig = e.sig /\ g.keys = e.keys
      /\ g.neg = f.neg /\ g.resolved = f.resolved /\ g.ad = f.ad /\ g.rejected = f.rejected
  BY <1>3 DEF Call, Pc
<1>6. f.neg = "" /\ ~ f.ad /\ ~ f.rejected /\ f.rrsigs \subseteq Parsed
  BY DEF CallInv, Placed
<1>7. inc <= now + Fudge /\ key \in 0 .. key /\ key \in -1 .. key
  BY ValidationAssumption DEF World
<1> HIDE DEF g
<1>8. Collected(g)
  <2>1. g.keys \in -1 .. key /\ g.sig.key \in 0 .. key /\ g.sig.inc <= now + Fudge
    <3>1. f.keys \in -1 .. key /\ f.sig.key \in 0 .. key /\ f.sig.inc <= now + Fudge
      BY DEF CallInv, Returnable, Collected
    <3>2. missing => g.sig.key = key /\ g.sig.inc = inc
      BY <1>3, <1>5
    <3>3. ~ missing => g.sig = f.sig
      BY <1>3, <1>5
    <3>4. g.keys = key \/ g.keys = f.keys
      BY <1>3, <1>5
    <3> QED
      BY <1>7, <3>1, <3>2, <3>3, <3>4
  <2>2. key = 0 => g.rrsigs = {} /\ g.keys = 0 /\ ~ g.resolved
    BY <1>2, <1>3, <1>5 DEF CallInv, Returnable, Collected
  <2>3. g.resolved => g.rrsigs # {}
    BY <1>3, <1>5 DEF CallInv, Returnable, Collected
  <2> QED
    BY <1>5, <2>1, <2>2, <2>3 DEF Collected
<1>9. Returnable(g)
  BY <1>5, <1>6, <1>8, Undecided
<1>10. Placed(g)
  BY <1>3, <1>4, <1>5, <1>6 DEF Placed
<1> QED
  BY <1>9, <1>10 DEF CallInv, g, e

\* The answer arrives.
LEMMA AnswerInv ==
    ASSUME IInv, NEW c \in Client, Answer(c)
    PROVE  IInv'
<1>1. PICK r \in Reply :
          LET f == Fill(call[c], r)
          IN  Set(c, [f EXCEPT !.pc = IF f.rrsigs = {} \/ f.keys = 0 THEN "rd1" ELSE "validate"])
  BY DEF Answer
<1> DEFINE f == Fill(call[c], r)
           pc == IF f.rrsigs = {} \/ f.keys = 0 THEN "rd1" ELSE "validate"
           g == [f EXCEPT !.pc = pc]
<1>2. Set(c, g)
  BY <1>1
<1>3. pc \in {"rd1", "validate", "keys"} /\ pc # "keys"
  OBVIOUS
<1>4. CallInv(call[c]) /\ World /\ call[c].pc = "ask"
  BY DEF IInv, Answer, At
<1> HIDE DEF pc
<1>5. CallInv(g)
  BY <1>3, <1>4, FillInv
<1> HIDE DEF g
<1> QED
  BY <1>2, <1>5, SetInv DEF Answer

\* A CNAME is followed, or one too many.
LEMMA FollowCnameInv ==
    ASSUME IInv, NEW c \in Client, FollowCname(c)
    PROVE  IInv'
<1> DEFINE o == call[c]
<1>1. CallInv(o) /\ World /\ o.pc = "ask" /\ o \in Call /\ UNCHANGED world
  BY DEF IInv, FollowCname, At, CallInv, Returnable, Collected
<1>2. ~ o.ad /\ ~ o.rejected
  BY <1>1 DEF CallInv, Placed
<1>3. ASSUME NEW n \in Name, o.depth < MAX_CNAME_DEPTH,
             Set(c, [o EXCEPT !.name = n, !.depth = o.depth + 1])
      PROVE  IInv'
  <2> DEFINE g == [o EXCEPT !.name = n, !.depth = o.depth + 1]
  <2>1. o.depth + 1 \in 0 .. MAX_CNAME_DEPTH
    <3>1. o.depth \in 0 .. MAX_CNAME_DEPTH
      BY <1>1 DEF Call
    <3> DEFINE d == o.depth
    <3> HIDE DEF o, d
    <3>2. d \in 0 .. MAX_CNAME_DEPTH /\ d < MAX_CNAME_DEPTH => d + 1 \in 0 .. MAX_CNAME_DEPTH
      BY DepthNat
    <3> QED
      BY <1>3, <3>1, <3>2 DEF d
  <2>2. Set(c, g)
    BY <1>3
  <2> HIDE DEF o
  <2>3. /\ g \in Call /\ g.pc = "ask" /\ g.ad = o.ad /\ g.rejected = o.rejected
        /\ g.neg = o.neg /\ g.rrsigs = o.rrsigs /\ g.sig = o.sig /\ g.keys = o.keys
        /\ g.resolved = o.resolved
    BY <1>1, <2>1 DEF Call
  <2> HIDE DEF g
  <2>4. Collected(g)
    BY <1>1, <2>3 DEF CallInv, Returnable, Collected
  <2>5. Returnable(g)
    BY <1>2, <2>3, <2>4, Undecided
  <2>6. Placed(g)
    BY <1>1, <2>3 DEF CallInv, Placed
  <2> QED
    BY <1>1, <2>2, <2>5, <2>6, SetInv DEF CallInv
<1>4. CASE ReturnErr(c, o, "error")
  <2>1. "error" \in Ret
    BY DEF Ret
  <2> QED
    BY <1>1, <1>2, <1>4, <2>1, ReturnErrInv DEF CallInv
<1> QED
  BY <1>3, <1>4 DEF FollowCname

\* The RD=1 query, answered or not.
LEMMA Rd1Inv ==
    ASSUME IInv, NEW c \in Client, query_rd1(c)
    PROVE  IInv'
<1> DEFINE f == call[c]
<1>1. CallInv(f) /\ World /\ f.pc = "rd1" /\ UNCHANGED world
  BY DEF IInv, query_rd1, At
<1>2. \/ \E r \in Reply : Set(c, AfterRd1(Fill(f, r)))
      \/ Set(c, AfterRd1(f))
  BY DEF query_rd1
<1>3. ASSUME NEW r \in Reply, Set(c, AfterRd1(Fill(f, r)))
      PROVE  IInv'
  <2> DEFINE g == Fill(f, r)
             pc == IF g.rrsigs # {} /\ g.keys = 0 THEN "keys" ELSE "validate"
  <2>1. Set(c, [g EXCEPT !.pc = pc])
    BY <1>3 DEF AfterRd1
  <2>2. pc \in {"rd1", "validate", "keys"} /\ (pc = "keys" => g.rrsigs # {})
    OBVIOUS
  <2> HIDE DEF pc
  <2>3. CallInv([g EXCEPT !.pc = pc])
    BY <1>1, <2>2, FillInv
  <2> DEFINE h == [g EXCEPT !.pc = pc]
  <2> HIDE DEF h
  <2>4. CallInv(h) /\ Set(c, h)
    BY <2>1, <2>3 DEF h
  <2> QED
    BY <1>1, <2>4, SetInv
<1>4. CASE Set(c, AfterRd1(f))
  <2> DEFINE pc == IF f.rrsigs # {} /\ f.keys = 0 THEN "keys" ELSE "validate"
             g == [f EXCEPT !.pc = pc]
  <2>1. Set(c, g)
    BY <1>4 DEF AfterRd1
  <2>2. f \in Call
    BY <1>1 DEF CallInv, Returnable, Collected
  <2>3. pc \in {"validate", "keys"} /\ (pc = "keys" => f.rrsigs # {}) /\ pc \in Pc
    BY DEF Pc
  <2> HIDE DEF pc, f
  <2>4. Kept(g, f) /\ g.pc = pc /\ g.resolved = f.resolved
    BY <2>2, <2>3 DEF Call, Kept
  <2> HIDE DEF g
  <2>5. Returnable(g)
    BY <1>1, <2>3, <2>4, KeptReturnable DEF CallInv
  <2>6. Placed(g)
    BY <1>1, <2>3, <2>4 DEF CallInv, Placed, Kept
  <2> QED
    BY <1>1, <2>1, <2>5, <2>6, SetInv DEF CallInv
<1> QED
  BY <1>2, <1>3, <1>4

\* A denial, with signatures or without.
LEMMA NegativeInv ==
    ASSUME IInv, NEW c \in Client, Negative(c)
    PROVE  IInv'
<1>1. PICK neg \in {"nodata", "nxdomain"}, r \in {x \in Reply : x \subseteq {"sig", "auth"}} :
        LET f == [call[c] EXCEPT !.neg = neg, !.rrsigs = r]
        IN  IF r # {} THEN Set(c, [f EXCEPT !.pc = "keys"])
            ELSE IF neg = "nodata" THEN ReturnOk(c, f) ELSE ReturnErr(c, f, "nxdomain")
  BY DEF Negative
<1> DEFINE o == call[c]
           f == [o EXCEPT !.neg = neg, !.rrsigs = r]
           g == [f EXCEPT !.pc = "keys"]
<1>2. /\ r # {} => Set(c, g)
      /\ r = {} /\ neg = "nodata" => ReturnOk(c, f)
      /\ r = {} /\ neg # "nodata" => ReturnErr(c, f, "nxdomain")
  BY <1>1
<1>3. CallInv(o) /\ World /\ o.pc = "ask" /\ o \in Call /\ UNCHANGED world
  BY DEF IInv, Negative, At, CallInv, Returnable, Collected
<1>4. r \in SUBSET (Parsed \cup {"cached"}) /\ r \subseteq Parsed /\ (key = 0 => r = {})
  BY DEF Reply, Parsed
<1>5. ~ o.ad /\ ~ o.rejected /\ ~ o.resolved
  BY <1>3 DEF CallInv, Placed, Returnable, Collected
<1> HIDE DEF o
<1>6. /\ f \in Call
      /\ f.neg = neg /\ f.rrsigs = r /\ f.sig = o.sig /\ f.keys = o.keys
      /\ f.resolved = o.resolved /\ f.rejected = o.rejected /\ f.ad = o.ad
  BY <1>3, <1>4 DEF Call, Neg
<1> HIDE DEF f
<1>7. Collected(f)
  BY <1>3, <1>4, <1>5, <1>6 DEF CallInv, Returnable, Collected
<1>8. Returnable(f)
  BY <1>5, <1>6, <1>7, Undecided
<1>9. CASE r # {}
  <2>1. Kept(g, f) /\ g.pc = "keys" /\ g.resolved = f.resolved
    BY <1>6 DEF Call, Pc, Kept
  <2> HIDE DEF g
  <2>2. Returnable(g)
    BY <1>8, <2>1, KeptReturnable
  <2>3. Placed(g)
    BY <1>4, <1>5, <1>6, <1>9, <2>1 DEF Placed, Kept
  <2> QED
    BY <1>2, <1>3, <1>9, <2>2, <2>3, SetInv DEF CallInv
<1>10. CASE r = {}
  <2>1. "nxdomain" \in Ret /\ ~ f.ad
    BY <1>5, <1>6 DEF Ret
  <2> QED
    BY <1>2, <1>3, <1>8, <1>10, <2>1, ReturnOkInv, ReturnErrInv
<1> QED
  BY <1>9, <1>10

\* No server answers, or the refresh of stale records times out.
LEMMA FailInv ==
    ASSUME IInv, NEW c \in Client, Fail(c) \/ Timeout(c)
    PROVE  IInv'
<1>1. CallInv(call[c])
  BY DEF IInv
<1>2. ~ (call[c].ad /\ ~ call[c].stale)
  BY <1>1 DEF Fail, Timeout, At, CallInv, Placed
<1>3. "error" \in Ret
  BY DEF Ret
<1>4. ReturnErr(c, call[c], "error") /\ UNCHANGED world
  BY DEF Fail, Timeout
<1> QED
  BY <1>1, <1>2, <1>3, <1>4, ReturnErrInv DEF CallInv

\* The DNSKEY set is there, or not: a denial is returned, an answer is validated.
LEMMA ResolvedInv ==
    ASSUME IInv, NEW c \in Client, call[c].pc \in {"keys", "fetch"},
           NEW k \in -1 .. key, Resolved(c, k), UNCHANGED world
    PROVE  IInv'
<1> DEFINE o == call[c]
           f == [o EXCEPT !.keys = k, !.resolved = k # 0, !.pc = "validate"]
           g == [f EXCEPT !.ad = validate_negative_dnssec(f, k)]
<1>1. CallInv(o) /\ World /\ o \in Call /\ o.rrsigs # {} /\ key # 0 /\ o.rrsigs \subseteq Parsed
  BY DEF IInv, CallInv, Placed, Returnable, Collected
<1>2. f.neg = o.neg /\ o.neg \in {"", "nodata", "nxdomain"}
  BY <1>1 DEF Call, Neg
<1>3. /\ o.neg = "" => Set(c, f)
      /\ o.neg = "nodata" => Set(c, Returned(g, "empty"))
      /\ o.neg = "nxdomain" => Set(c, Returned(g, IF f.stale THEN "stale" ELSE "nxdomain"))
  BY <1>2 DEF Resolved
<1>4. ~ o.ad /\ ~ o.rejected
  BY <1>1 DEF CallInv, Placed
<1>5. k \in Int /\ "validate" \in Pc
  BY DEF Pc
<1> HIDE DEF o
<1>6. /\ f \in Call /\ f.pc = "validate" /\ f.keys = k /\ f.resolved = (k # 0)
      /\ f.neg = o.neg /\ f.rrsigs = o.rrsigs /\ f.sig = o.sig
      /\ f.rejected = o.rejected /\ f.ad = o.ad
  BY <1>1, <1>5 DEF Call
<1> HIDE DEF f
<1>7. Collected(f)
  BY <1>1, <1>6 DEF CallInv, Returnable, Collected
<1>8. CASE o.neg = ""
  <2>1. Returnable(f)
    BY <1>4, <1>6, <1>7, Undecided
  <2>2. Placed(f)
    BY <1>1, <1>4, <1>6, <1>8 DEF Placed
  <2> QED
    BY <1>3, <1>8, <2>1, <2>2, SetInv DEF CallInv
<1>9. CASE o.neg # ""
  <2>1. validate_negative_dnssec(f, k) \in BOOLEAN
    BY DEF validate_negative_dnssec
  <2>2. /\ g \in Call /\ g.keys = k /\ g.resolved = f.resolved /\ g.neg = o.neg
        /\ g.rrsigs = f.rrsigs /\ g.sig = f.sig /\ g.rejected = o.rejected
    BY <1>6, <2>1 DEF Call
  <2> HIDE DEF g
  <2>3. Collected(g)
    BY <1>6, <1>7, <2>2 DEF Collected
  <2>4. Returnable(g)
    BY <1>4, <1>9, <2>2, <2>3 DEF Returnable, Verified, Caused
  <2>5. "empty" \in Ret /\ "stale" \in Ret /\ "nxdomain" \in Ret
    BY DEF Ret
  <2>6. \E ret \in Ret : Set(c, Returned(g, ret))
    BY <1>2, <1>3, <1>9, <2>5
  <2>7. PICK ret \in Ret : Set(c, Returned(g, ret))
    BY <2>6
  <2>8. CallInv(Returned(g, ret))
    BY <1>1, <1>9, <2>2, <2>4, ReturnedInv
  <2> DEFINE r == Returned(g, ret)
  <2>9. CallInv(r) /\ Set(c, r)
    BY <2>7, <2>8
  <2> HIDE DEF r
  <2> QED
    BY <2>9, SetInv
<1> QED
  BY <1>8, <1>9

\* A call that goes on resolving keys keeps what it has.
LEMMA KeysInv ==
    ASSUME IInv, NEW c \in Client, call[c].pc \in {"keys", "fetch"},
           NEW pc \in {"keys", "fetch"}, NEW old \in BOOLEAN, NEW denied \in Neg,
           Set(c, [call[c] EXCEPT !.pc = pc, !.old = old, !.denied = denied]),
           UNCHANGED world
    PROVE  IInv'
<1> DEFINE o == call[c]
           g == [o EXCEPT !.pc = pc, !.old = old, !.denied = denied]
<1>1. CallInv(o) /\ o \in Call /\ o.pc \in {"keys", "fetch"} /\ Set(c, g)
  BY DEF IInv, CallInv, Returnable, Collected
<1> HIDE DEF o
<1>2. Kept(g, o) /\ g.pc = pc /\ g.resolved = o.resolved
  BY <1>1 DEF Call, Pc, Kept
<1> HIDE DEF g
<1>3. Returnable(g)
  BY <1>1, <1>2, KeptReturnable DEF CallInv
<1>4. Placed(g)
  BY <1>1, <1>2 DEF CallInv, Placed, Kept
<1> QED
  BY <1>1, <1>3, <1>4, SetInv DEF CallInv

\* What the nested resolutions of the set come to is a version of it.
LEMMA UnwindIs ==
    ASSUME key \in Nat, NEW f, NEW k \in -1 .. key
    PROVE  Unwind(f, k) \in -1 .. key
<1>1. Unwind(f, k) \in {k, -1, 0}
  BY DEF Unwind, Unparsed
<1> HIDE DEF Unwind
<1> QED
  BY <1>1

\* resolve(zone, 48) asks the cache ...
LEMMA LookupKeysInv ==
    ASSUME IInv, NEW c \in Client, LookupKeys(c)
    PROVE  IInv'
<1> DEFINE o == call[c]
<1>1. World /\ o.pc = "keys" /\ o \in Call /\ UNCHANGED world /\ key \in Nat
  BY DEF IInv, LookupKeys, At, World
<1>2. PICK found \in Cached :
        IF found = "fresh" THEN Resolved(c, Unwind(o, Unparsed))
        ELSE Set(c, [o EXCEPT !.pc = "fetch",
                         !.old = IF o.denied = "" THEN found = "expired" ELSE o.old])
  BY DEF LookupKeys
<1>3. CASE found = "fresh"
  <2>1. Unparsed \in -1 .. key
    BY <1>1 DEF Unparsed
  <2>2. Unwind(o, Unparsed) \in -1 .. key
    BY <1>1, <2>1, UnwindIs
  <2> QED
    BY <1>1, <1>2, <1>3, <2>2, ResolvedInv
<1>4. CASE found # "fresh"
  <2> DEFINE old == IF o.denied = "" THEN found = "expired" ELSE o.old
  <2>1. old \in BOOLEAN /\ o.denied \in Neg
    BY <1>1 DEF Call
  <2>2. Set(c, [o EXCEPT !.pc = "fetch", !.old = old])
    BY <1>2, <1>4
  <2> HIDE DEF old
  <2>3. [o EXCEPT !.pc = "fetch", !.old = old] =
            [o EXCEPT !.pc = "fetch", !.old = old, !.denied = o.denied]
    <3> HIDE DEF o
    <3> QED
      BY <1>1 DEF Call
  <2>4. Set(c, [o EXCEPT !.pc = "fetch", !.old = old, !.denied = o.denied])
    BY <2>2, <2>3
  <2> QED
    BY <1>1, <2>1, <2>4, KeysInv
<1> QED
  BY <1>3, <1>4

\* ... and then the zone's servers, who may deny it ...
LEMMA FetchKeysInv ==
    ASSUME IInv, NEW c \in Client, FetchKeys(c)
    PROVE  IInv'
<1>1. World /\ call[c].pc = "fetch" /\ UNCHANGED world /\ key \in Nat
  BY DEF IInv, FetchKeys, At, World
<1>2. PICK k \in {key, 0, IF call[c].old THEN Unparsed ELSE 0} : Resolved(c, Unwind(call[c], k))
  BY DEF FetchKeys
<1>3. k \in -1 .. key
  BY <1>1 DEF Unparsed
<1>4. Unwind(call[c], k) \in -1 .. key
  BY <1>1, <1>3, UnwindIs
<1> QED
  BY <1>1, <1>2, <1>4, ResolvedInv

\* ... with signatures, so that it is resolved again ...
LEMMA DeniedInv ==
    ASSUME IInv, NEW c \in Client, Denied(c)
    PROVE  IInv'
<1> DEFINE o == call[c]
<1>1. o.pc = "fetch" /\ o \in Call /\ UNCHANGED world
  BY DEF IInv, Denied, At
<1>2. PICK d \in {"nodata", "nxdomain"} :
        Set(c, [o EXCEPT !.pc = "keys", !.denied = IF o.denied = "" THEN d ELSE o.denied])
  BY DEF Denied
<1> DEFINE denied == IF o.denied = "" THEN d ELSE o.denied
<1>3. denied \in Neg /\ o.old \in BOOLEAN
  BY <1>1 DEF Call, Neg
<1>4. Set(c, [o EXCEPT !.pc = "keys", !.denied = denied])
  BY <1>2
<1> HIDE DEF denied
<1>5. [o EXCEPT !.pc = "keys", !.denied = denied] =
          [o EXCEPT !.pc = "keys", !.old = o.old, !.denied = denied]
  <2> HIDE DEF o
  <2> QED
    BY <1>1 DEF Call
<1>6. Set(c, [o EXCEPT !.pc = "keys", !.old = o.old, !.denied = denied])
  BY <1>4, <1>5
<1> QED
  BY <1>1, <1>3, <1>6, KeysInv

\* ... until its refresh times out.
LEMMA KeysTimeoutInv ==
    ASSUME IInv, NEW c \in Client, KeysTimeout(c)
    PROVE  IInv'
<1>1. key \in Nat
  BY DEF IInv, World
<1>2. Unparsed \in -1 .. key
  BY <1>1 DEF Unparsed
<1> QED
  BY <1>2, ResolvedInv DEF KeysTimeout

\* The walk up the DS records: a rejection has a signed zone above the name, or
\* concerns a signed zone that sent no signature.
LEMMA WalkDsInv ==
    ASSUME IInv, NEW c \in Client, WalkDs(c)
    PROVE  IInv'
<1> DEFINE f == call[c]
<1>1. /\ CallInv(f) /\ World /\ f.pc = "walk" /\ f \in Call /\ f.rrsigs = {} /\ f.keys = 0
      /\ f.label \in 1 .. total_labels(f.name) - 1 /\ f.neg = "" /\ ~ f.ad /\ ~ f.rejected
  BY DEF IInv, WalkDs, At, CallInv, Placed, Returnable, Collected
<1>2. UNCHANGED world
  BY DEF WalkDs
<1>3. zone \in Nat /\ total_labels(f.name) \in Nat
  <2>1. zone \in Nat
    BY <1>1, ValidationAssumption DEF World
  <2>2. f.name \in Name
    BY <1>1 DEF Call
  <2>3. Below[f.name] \in Nat
    BY <2>2, ValidationAssumption
  <2> QED
    BY <2>1, <2>3 DEF total_labels
<1>4. f.label \in Nat
  BY <1>1 DEF Call
<1>5. CASE f.label < 2 /\ ReturnOk(c, f)
  BY <1>1, <1>2, <1>5, ReturnOkInv DEF CallInv
<1>6. CASE f.label >= 2 /\ f.label \in Delegated /\ Reject(c, f)
  <2> DEFINE r == [f EXCEPT !.rejected = TRUE]
  <2>1. r.rrsigs = {} /\ r.name = f.name
    BY <1>1 DEF Call
  <2>2. f.label \in 1 .. zone /\ (key = 0 => f.label < zone)
    BY <1>6 DEF Delegated
  <2>3. key = 0 => f.label \in 2 .. zone - 1 /\ f.label < total_labels(f.name)
    <3> DEFINE l == f.label
               m == total_labels(f.name)
    <3>1. l \in Nat /\ m \in Nat /\ l \in 1 .. m - 1 /\ l >= 2 /\ (key = 0 => l < zone)
      BY <1>1, <1>3, <1>4, <1>6, <2>2
    <3> HIDE DEF l, m
    <3>2. key = 0 => l \in 2 .. zone - 1 /\ l < m
      BY <1>3, <3>1
    <3> QED
      BY <3>2 DEF l, m
  <2>4. Caused(r)
    BY <2>1, <2>3 DEF Caused
  <2>5. Returnable(f)
    BY <1>1 DEF CallInv
  <2> HIDE DEF f
  <2> QED
    BY <1>1, <1>2, <1>6, <2>4, <2>5, RejectInv
<1>7. CASE f.label >= 2 /\ Set(c, [f EXCEPT !.label = f.label - 1])
  <2> DEFINE g == [f EXCEPT !.label = f.label - 1]
  <2>1. f.label - 1 \in 1 .. total_labels(f.name) - 1 /\ f.label - 1 \in Nat
    <3> DEFINE l == f.label
               m == total_labels(f.name)
    <3>1. l \in Nat /\ m \in Nat /\ l \in 1 .. m - 1 /\ l >= 2
      BY <1>1, <1>3, <1>4, <1>7
    <3> HIDE DEF l, m
    <3>2. l - 1 \in 1 .. m - 1 /\ l - 1 \in Nat
      BY <3>1
    <3> QED
      BY <3>2 DEF l, m
  <2> HIDE DEF f
  <2>2. Kept(g, f) /\ g.pc = "walk" /\ g.label = f.label - 1 /\ g.resolved = f.resolved
    BY <1>1, <2>1 DEF Call, Kept
  <2>3. Set(c, g)
    BY <1>7
  <2> HIDE DEF g
  <2>4. Returnable(g)
    BY <1>1, <2>2, KeptReturnable DEF CallInv
  <2>5. Placed(g)
    BY <1>1, <2>1, <2>2 DEF Placed, Kept
  <2> QED
    BY <1>2, <2>3, <2>4, <2>5, SetInv DEF CallInv
<1> QED
  BY <1>5, <1>6, <1>7 DEF WalkDs

\* What the verdicts of validate_dnssec say.
VerdictSays(v, rrsigs, s, keys, n) ==
    LET window == now \in s.inc - Fudge .. s.inc + Validity
        wraps == /\ now < s.inc
                 /\ clock.start + s.inc < Word
                 /\ clock.start + now + Fudge >= Word
        foreign == "auth" \in rrsigs \/ ("sig" \in rrsigs /\ Form[n] # "plain")
    IN  /\ v \in {"Secure", "Bogus", "Indeterminate"}
        /\ v = "Indeterminate" <=> rrsigs = {} \/ keys = 0
        /\ v = "Secure" /\ rrsigs \cap Parsed # {} =>
             ~ foreign /\ keys = s.key /\ s.key \in Supported /\ window
        /\ v = "Bogus" =>
             keys # s.key \/ s.key \notin Supported \/ ~ window \/ wraps \/ foreign

\* They say it.
LEMMA Verdict ==
    ASSUME World, NEW rrsigs \in SUBSET (Parsed \cup {"cached"}), NEW n \in Name,
           NEW s, s.inc \in 0 .. now + Fudge, NEW keys
    PROVE  VerdictSays(validate_dnssec(rrsigs, s, keys, n), rrsigs, s, keys, n)
<1> DEFINE v == validate_dnssec(rrsigs, s, keys, n)
           window == now \in s.inc - Fudge .. s.inc + Validity
           wraps == /\ now < s.inc
                    /\ clock.start + s.inc < Word
                    /\ clock.start + now + Fudge >= Word
           foreign == "auth" \in rrsigs \/ ("sig" \in rrsigs /\ Form[n] # "plain")
           timely == is_rrsig_time_valid(s)
<1>1. timely => window
  <2>1. timely => now <= s.inc + Validity
    BY TimeValid DEF World
  <2> QED
    BY <2>1, Half DEF World
<1>2. ~ timely => ~ window \/ wraps
  <2>1. ~ timely => \/ ~ (now <= s.inc + Validity)
                    \/ ~ (s.inc <= now) /\ clock.start + s.inc < Word /\ clock.start + now + Fudge >= Word
    BY TimeValid DEF World
  <2> QED
    BY <2>1, Half DEF World
<1> HIDE DEF timely, window, wraps
<1>3. ASSUME NEW r \in Parsed \cup {"cached"}
      PROVE  validate_rrset(r, s, keys, n) = "Bogus" =>
               \/ ~ timely \/ keys # s.key \/ s.key \notin Supported
               \/ r = "auth" \/ (r = "sig" /\ Form[n] # "plain")
  BY DEF validate_rrset, verify_signature, build_signed_data, timely, Parsed
<1>4. ASSUME NEW r \in Parsed, validate_rrset(r, s, keys, n) # "Bogus"
      PROVE  /\ timely /\ keys = s.key /\ s.key \in Supported
             /\ r # "auth" /\ (r = "sig" => Form[n] = "plain")
  BY <1>4 DEF validate_rrset, verify_signature, build_signed_data, timely, Parsed
<1>5. /\ v \in {"Secure", "Bogus", "Indeterminate"}
      /\ v = "Indeterminate" <=> rrsigs = {} \/ keys = 0
      /\ v = "Secure" => \A r \in rrsigs : validate_rrset(r, s, keys, n) # "Bogus"
      /\ v = "Bogus" => \E r \in rrsigs : validate_rrset(r, s, keys, n) = "Bogus"
  BY DEF validate_dnssec
<1> HIDE DEF v
<1>6. v = "Secure" /\ rrsigs \cap Parsed # {} =>
        ~ foreign /\ keys = s.key /\ s.key \in Supported /\ window
  <2> SUFFICES ASSUME v = "Secure", rrsigs \cap Parsed # {}
               PROVE  ~ foreign /\ keys = s.key /\ s.key \in Supported /\ window
    OBVIOUS
  <2>1. \A r \in rrsigs \cap Parsed :
          /\ timely /\ keys = s.key /\ s.key \in Supported
          /\ r # "auth" /\ (r = "sig" => Form[n] = "plain")
    BY <1>4, <1>5
  <2>2. "auth" \in Parsed /\ "sig" \in Parsed
    BY DEF Parsed
  <2> QED
    BY <1>1, <2>1, <2>2
<1>7. v = "Bogus" =>
        keys # s.key \/ s.key \notin Supported \/ ~ window \/ wraps \/ foreign
  BY <1>2, <1>3, <1>5
<1> QED
  BY <1>5, <1>6, <1>7 DEF v, window, wraps, foreign, VerdictSays

\* The verdict, and what follows from it.
LEMMA ValidateInv ==
    ASSUME IInv, NEW c \in Client, Validate(c)
    PROVE  IInv'
<1> DEFINE o == call[c]
           with(joined) == [o EXCEPT !.at = now, !.rrsigs = o.rrsigs \cup joined]
           verdict(f) == validate_dnssec(f.rrsigs, f.sig, f.keys, f.name)
           marked(f) == [f EXCEPT !.ad = (verdict(f) = "Secure")]
           unsigned(f) == f.rrsigs = {} /\ total_labels(f.name) >= 2
           linked(f) == f.rrsigs \cap {"keysig", "cached"} # {}
<1>1. /\ CallInv(o) /\ World /\ o.pc = "validate" /\ o \in Call /\ o.neg = "" /\ ~ o.ad
      /\ ~ o.rejected /\ o.rrsigs \subseteq Parsed
  BY DEF IInv, Validate, At, CallInv, Placed, Returnable, Collected
<1>2. UNCHANGED world
  BY DEF Validate
<1>3. PICK joined \in SUBSET (IF o.resolved THEN {"cached"} ELSE {}) :
        LET f == with(joined)
        IN  CASE verdict(f) = "Bogus" \/ (f.keys # 0 /\ f.rrsigs = {}) -> Reject(c, f)
              [] verdict(f) = "Secure" /\ f.rrsigs \cap {"keysig", "cached"} # {} ->
                   Set(c, [marked(f) EXCEPT !.pc = "chain"])
              [] verdict(f) = "Secure" /\ f.rrsigs \cap {"keysig", "cached"} = {} ->
                   ReturnOk(c, marked(f))
              [] verdict(f) = "Indeterminate" /\ f.keys = 0 /\ ~ unsigned(f) ->
                   ReturnOk(c, marked(f))
              [] verdict(f) = "Indeterminate" /\ f.keys = 0 /\ unsigned(f) ->
                   Set(c, [marked(f) EXCEPT !.pc = "walk", !.label = total_labels(f.name) - 1])
  BY Zenon DEF Validate
<1> DEFINE S == o.rrsigs \cup joined
           f == with(joined)
           v == verdict(f)
           g == marked(f)
           walk == [g EXCEPT !.pc = "walk", !.label = total_labels(f.name) - 1]
<1>4. v \in {"Secure", "Bogus", "Indeterminate"} /\ (f.rrsigs = {} => v = "Indeterminate")
  <2> HIDE DEF f
  <2> QED
    BY DEF validate_dnssec
<1>5. /\ v = "Bogus" \/ (f.keys # 0 /\ f.rrsigs = {}) => Reject(c, f)
      /\ v = "Secure" /\ linked(f) => Set(c, [g EXCEPT !.pc = "chain"])
      /\ v = "Secure" /\ ~ linked(f) => ReturnOk(c, g)
      /\ v = "Indeterminate" /\ f.keys = 0 /\ ~ unsigned(f) => ReturnOk(c, g)
      /\ v = "Indeterminate" /\ f.keys = 0 /\ unsigned(f) => Set(c, walk)
  <2>1. (CASE v = "Bogus" \/ (f.keys # 0 /\ f.rrsigs = {}) -> Reject(c, f)
          [] v = "Secure" /\ linked(f) -> Set(c, [g EXCEPT !.pc = "chain"])
          [] v = "Secure" /\ ~ linked(f) -> ReturnOk(c, g)
          [] v = "Indeterminate" /\ f.keys = 0 /\ ~ unsigned(f) -> ReturnOk(c, g)
          [] v = "Indeterminate" /\ f.keys = 0 /\ unsigned(f) -> Set(c, walk))
    BY <1>3, Zenon
  <2> HIDE DEF f, v, g, walk, unsigned, linked
  <2>2. CASE v = "Bogus"
    BY <1>4, <2>1, <2>2
  <2>3. CASE v = "Secure"
    BY <1>4, <2>1, <2>3
  <2>4. CASE v = "Indeterminate"
    BY <1>4, <2>1, <2>4
  <2> QED
    BY <1>4, <2>2, <2>3, <2>4
<1>6. /\ S \in SUBSET (Parsed \cup {"cached"})
      /\ S # {} => S \cap Parsed # {}
      /\ o.rrsigs \subseteq S
      /\ key = 0 => S = {}
  <2>1. o.resolved => o.rrsigs # {}
    BY <1>1 DEF CallInv, Returnable, Collected
  <2>2. key = 0 => o.rrsigs = {} /\ ~ o.resolved
    BY <1>1 DEF CallInv, Returnable, Collected
  <2> QED
    BY <1>1, <2>1, <2>2
<1>7. now \in Nat
  <2>1. now \in 0 .. MaxTime
    BY <1>1 DEF World
  <2> QED
    BY <2>1
<1> HIDE DEF o, S
<1>8. /\ f \in Call /\ f.pc = o.pc /\ f.at = now /\ f.rrsigs = S /\ f.ad = o.ad
      /\ f.name = o.name /\ f.neg = o.neg /\ f.sig = o.sig /\ f.keys = o.keys
      /\ f.resolved = o.resolved /\ f.rejected = o.rejected
  BY <1>1, <1>6, <1>7 DEF Call, S
<1> HIDE DEF f
<1>9. Collected(f)
  BY <1>1, <1>6, <1>8 DEF CallInv, Returnable, Collected
<1>10. Returnable(f)
  BY <1>1, <1>8, <1>9, Undecided
<1>11. f.sig.inc \in 0 .. now + Fudge /\ f.name \in Name /\ f.rrsigs \in SUBSET (Parsed \cup {"cached"})
  <2>1. f.sig \in [key : Nat, inc : Nat] /\ f.sig.inc <= now + Fudge
    BY <1>8, <1>9 DEF Collected, Call
  <2>2. f.sig.inc \in Nat
    BY <2>1
  <2>3. f.sig.inc \in 0 .. now + Fudge
    BY <1>7, <2>1, <2>2, Half
  <2> QED
    BY <1>8, <2>3 DEF Call
<1> DEFINE window == now \in f.sig.inc - Fudge .. f.sig.inc + Validity
           wraps == /\ now < f.sig.inc
                    /\ clock.start + f.sig.inc < Word
                    /\ clock.start + now + Fudge >= Word
           foreign == "auth" \in f.rrsigs \/ ("sig" \in f.rrsigs /\ Form[f.name] # "plain")
<1>12. /\ v = "Indeterminate" <=> f.rrsigs = {} \/ f.keys = 0
       /\ v = "Secure" /\ f.rrsigs \cap Parsed # {} =>
            ~ foreign /\ f.keys = f.sig.key /\ f.sig.key \in Supported /\ window
       /\ v = "Bogus" =>
            f.keys # f.sig.key \/ f.sig.key \notin Supported \/ ~ window \/ wraps \/ foreign
  <2>1. VerdictSays(v, f.rrsigs, f.sig, f.keys, f.name)
    BY <1>1, <1>11, Verdict
  <2> HIDE DEF v
  <2> QED
    BY <2>1 DEF VerdictSays
<1> HIDE DEF v
<1>13. /\ g \in Call /\ g.pc = "validate" /\ g.at = now /\ g.ad = (v = "Secure")
       /\ g.name = f.name /\ g.neg = "" /\ g.sig = f.sig /\ g.keys = f.keys
       /\ g.rrsigs = f.rrsigs /\ g.resolved = f.resolved /\ g.rejected = FALSE
  BY <1>1, <1>8 DEF Call, v
<1>14. CASE v = "Bogus" \/ (f.keys # 0 /\ f.rrsigs = {})
  <2>1. key # 0
    BY <1>9, <1>12, <1>14 DEF Collected
  <2> DEFINE r == [f EXCEPT !.rejected = TRUE]
  <2>2. r.keys = f.keys /\ r.sig = f.sig /\ r.at = now /\ r.rrsigs = f.rrsigs /\ r.name = f.name
    BY <1>8 DEF Call
  <2> HIDE DEF r
  <2>3. Caused(r)
    BY <1>12, <1>14, <2>1, <2>2 DEF Caused
  <2>4. Reject(c, f) /\ ~ f.ad
    BY <1>1, <1>5, <1>8, <1>14
  <2> QED
    BY <1>2, <1>10, <2>3, <2>4, RejectInv DEF r
<1>15. Returnable(g)
  <2> HIDE DEF g
  <2>1. Collected(g)
    BY <1>9, <1>13 DEF Collected
  <2>2. g.ad => /\ f.rrsigs \cap Parsed # {} /\ ~ foreign /\ f.keys = f.sig.key
                /\ f.sig.key \in Supported /\ window
    BY <1>6, <1>8, <1>12, <1>13
  <2>3. Verified(g)
    BY <1>13, <2>2 DEF Verified
  <2> QED
    BY <1>13, <2>1, <2>3 DEF Returnable, Caused
<1>16. CASE v = "Secure" /\ linked(f)
  <2> DEFINE h == [g EXCEPT !.pc = "chain"]
  <2>1. Set(c, h)
    BY <1>5, <1>16
  <2> HIDE DEF g
  <2>2. Kept(h, g) /\ h.pc = "chain" /\ h.resolved = g.resolved
    BY <1>13 DEF Call, Pc, Kept
  <2> HIDE DEF h
  <2>3. Returnable(h)
    BY <1>15, <2>2, KeptReturnable
  <2>4. Placed(h)
    BY <1>13, <2>2 DEF Placed, Kept
  <2> QED
    BY <1>2, <2>1, <2>3, <2>4, SetInv DEF CallInv
<1>17. CASE \/ v = "Secure" /\ ~ linked(f)
            \/ v = "Indeterminate" /\ f.keys = 0 /\ ~ unsigned(f)
  <2>1. ReturnOk(c, g)
    BY <1>5, <1>17
  <2> HIDE DEF g
  <2> QED
    BY <1>2, <1>15, <2>1, ReturnOkInv
<1>18. CASE v = "Indeterminate" /\ f.keys = 0 /\ unsigned(f)
  <2> DEFINE l == total_labels(f.name) - 1
  <2>1. Set(c, walk)
    BY <1>5, <1>18
  <2>2. zone \in Nat
    BY <1>1, ValidationAssumption DEF World
  <2>3. Below[f.name] \in Nat
    BY <1>11, ValidationAssumption
  <2>4. l \in Nat /\ l \in 1 .. l
    BY <1>18, <2>2, <2>3 DEF total_labels
  <2> HIDE DEF g, l
  <2>5. Kept(walk, g) /\ walk.pc = "walk" /\ walk.label = l /\ walk.resolved = g.resolved
    BY <1>13, <2>4 DEF Call, Pc, l, Kept
  <2>6. walk.label \in 1 .. total_labels(walk.name) - 1
    BY <1>13, <2>4, <2>5 DEF l, Kept
  <2> HIDE DEF walk
  <2>7. Returnable(walk)
    BY <1>15, <2>5, KeptReturnable
  <2>8. Placed(walk)
    BY <1>13, <1>18, <2>5, <2>6 DEF Placed, Kept
  <2> QED
    BY <1>2, <2>1, <2>7, <2>8, SetInv DEF CallInv
<1> QED
  BY <1>4, <1>12, <1>14, <1>16, <1>17, <1>18

\* Whatever the chain of trust comes to, the answer is returned.
LEMMA ChainInv ==
    ASSUME IInv, NEW c \in Client, Chain(c)
    PROVE  IInv'
<1>1. CallInv(call[c])
  BY DEF IInv
<1> QED
  BY <1>1, ReturnOkInv DEF Chain, CallInv

-----------------------------------------------------------------------------
(***************************************************************************)
(* The zone and time.                                                      *)
(***************************************************************************)
\* A step that leaves the calls alone.
LEMMA CallsKept ==
    ASSUME IInv, World', UNCHANGED <<zone, clock, call>>,
           now <= now', key <= key', key = 0 <=> key' = 0
    PROVE  IInv'
<1>1. call' = call
  OBVIOUS
<1>2. ASSUME NEW c \in Client
      PROVE  CallInv(call[c])'
  <2>1. PICK h : h = call[c]
    OBVIOUS
  <2>2. CallInv(h)
    BY <2>1 DEF IInv
  <2>3. CallInv(h)'
    BY <2>2, WorldMoves DEF IInv
  <2> QED
    BY <1>1, <2>1, <2>3
<1> QED
  BY <1>1, <1>2 DEF IInv

\* Time and rollovers.
LEMMA WorldInv ==
    ASSUME IInv, Tick \/ Rollover
    PROVE  IInv'
<1>1. World /\ now \in 0 .. MaxTime /\ key \in 0 .. MaxKey /\ inc \in 0 .. now + Fudge
  BY DEF IInv, World
<1>2. clock.skew \in 0 .. Fudge
  BY <1>1, ValidationAssumption DEF World
<1>3. MaxTime \in Nat /\ MaxKey \in Nat /\ Fudge \in Nat
  BY ValidationAssumption
<1>4. CASE Tick
  <2>1. now' \in 0 .. MaxTime /\ inc' \in 0 .. now' + Fudge /\ now <= now' /\ key' = key
    BY <1>1, <1>3, <1>4 DEF Tick
  <2>2. World'
    BY <1>1, <1>4, <2>1 DEF World, Tick
  <2> QED
    BY <1>1, <1>4, <2>1, <2>2, CallsKept DEF Tick
<1>5. CASE Rollover
  <2>1. /\ key' \in 0 .. MaxKey /\ key # 0 /\ key' # 0 /\ key <= key'
        /\ inc' \in 0 .. now' + Fudge /\ now' = now
    BY <1>1, <1>2, <1>3, <1>5 DEF Rollover
  <2>2. World'
    BY <1>1, <1>5, <2>1 DEF World, Rollover
  <2> QED
    BY <1>1, <1>5, <2>1, <2>2, CallsKept DEF Rollover
<1> QED
  BY <1>4, <1>5

\* The initial states.
LEMMA InitInv == Init => IInv
<1> SUFFICES ASSUME Init
             PROVE  IInv
  OBVIOUS
<1>1. World
  <2>1. clock.skew \in 0 .. Fudge /\ now = 0 /\ inc = clock.skew /\ key \in {0, 1}
    BY ValidationAssumption DEF Init
  <2>2. MaxTime \in Nat /\ MaxKey \in Nat /\ MaxKey > 0 /\ Fudge \in Nat
    BY ValidationAssumption
  <2>3. now \in 0 .. MaxTime /\ key \in 0 .. MaxKey /\ inc \in 0 .. now + Fudge
    BY <2>1, <2>2
  <2> QED
    BY <2>3 DEF Init, World
<1> DEFINE n == CHOOSE n \in Name : TRUE
           new == NewCall(n, FALSE)
           idle == [new EXCEPT !.pc = "idle"]
<1>2. n \in Name
  BY ValidationAssumption
<1>3. call = [c \in Client |-> idle]
  BY DEF Init, NoCall
<1> HIDE DEF n
<1>4. CallInv(new) /\ new \in Call /\ new.ad = FALSE /\ new.rejected = FALSE
  BY <1>1, <1>2, NewCallInv
<1> HIDE DEF new
<1>5. Kept(idle, new) /\ idle.pc = "idle" /\ idle.resolved = new.resolved /\ idle \in Call
  BY <1>4 DEF Call, Pc, Kept
<1> HIDE DEF idle
<1>6. Returnable(idle)
  BY <1>4, <1>5, KeptReturnable DEF CallInv
<1>7. Placed(idle)
  BY <1>4, <1>5 DEF Placed, Kept
<1> QED
  BY <1>1, <1>3, <1>5, <1>6, <1>7 DEF IInv, CallInv

-----------------------------------------------------------------------------
(***************************************************************************)
(* The theorems.                                                           *)
(***************************************************************************)
\* The strengthened invariant of validation holds in every reachable state.
THEOREM Inductive == Spec => []IInv
<1>1. IInv /\ [Next]_vars => IInv'
  <2> SUFFICES ASSUME IInv, [Next]_vars
               PROVE  IInv'
    OBVIOUS
  <2>1. CASE Tick \/ Rollover
    BY <2>1, WorldInv
  <2>2. ASSUME NEW c \in Client, Step(c) \/ Timeout(c) \/ KeysTimeout(c)
        PROVE  IInv'
    BY <2>2, AnswerInv, FollowCnameInv, NegativeInv, FailInv, Rd1Inv, LookupKeysInv,
       FetchKeysInv, DeniedInv, KeysTimeoutInv, ValidateInv, WalkDsInv, ChainInv DEF Step
  <2>3. ASSUME NEW c \in Client, NEW n \in Name, Lookup(c, n)
        PROVE  IInv'
    BY <2>3, LookupInv
  <2>4. CASE UNCHANGED vars
    <3>1. World' /\ UNCHANGED <<zone, clock, call>> /\ now' = now /\ key' = key
      BY <2>4 DEF IInv, World, vars, world
    <3>2. now <= now' /\ key <= key'
      BY <3>1 DEF IInv, World
    <3> QED
      BY <3>1, <3>2, CallsKept
  <2> QED
    BY <2>1, <2>2, <2>3, <2>4 DEF Next
<1> QED
  BY <1>1, InitInv, PTL DEF Spec

\* The variables hold values of their types; in particular check_labels never goes
\* below zero, however many labels the name has.
THEOREM TypeCorrect == Spec => []TypeOK
<1>1. IInv => TypeOK
  <2> SUFFICES ASSUME IInv
               PROVE  TypeOK
    OBVIOUS
  <2>1. World
    BY DEF IInv
  <2>2. now \in 0 .. MaxTime /\ key \in 0 .. MaxKey /\ inc \in 0 .. MaxTime + Fudge
    <3>1. now \in 0 .. MaxTime /\ key \in 0 .. MaxKey /\ inc \in 0 .. now + Fudge
      BY <2>1 DEF World
    <3> QED
      BY <3>1, Half
  <2>3. ASSUME NEW c \in Client
        PROVE  /\ call[c].pc \in Pc
               /\ call[c].name \in Name /\ call[c].depth \in 0 .. MAX_CNAME_DEPTH
               /\ call[c].denied \in Neg
               /\ call[c].rrsigs \subseteq Parsed \cup {"cached"}
               /\ call[c].keys \in -1 .. MaxKey
               /\ call[c].label \in Nat
               /\ call[c].ret \in Ret
    <3>1. call[c] \in Call /\ call[c].keys \in -1 .. key
      BY DEF IInv, CallInv, Returnable, Collected
    <3>2. call[c].keys \in -1 .. MaxKey
      <4> DEFINE k == call[c].keys
      <4>1. k \in -1 .. key /\ key \in 0 .. MaxKey /\ MaxKey \in Nat
        BY <2>2, <3>1, ValidationAssumption
      <4> HIDE DEF k
      <4>2. k \in -1 .. MaxKey
        BY <4>1
      <4> QED
        BY <4>2 DEF k
    <3> QED
      BY <3>1, <3>2 DEF Call
  <2> QED
    BY <2>1, <2>2, <2>3 DEF TypeOK, World, Pc, Ret, Neg
<1> QED
  BY <1>1, Inductive, PTL

\* The AD bit of an answer: every signature that came with it verified, with the
\* very key set that made it, over the answer's records, in its window.  For every
\* number of clients, CNAMEs and rollovers, and every clock.
THEOREM AdCorrect == Spec => []AdSound
<1>1. IInv => AdSound
  <2>1. ASSUME IInv, NEW c \in Client
        PROVE  Verified(call[c])
    BY <2>1 DEF IInv, CallInv, Returnable
  <2> QED
    BY <2>1 DEF AdSound, Verified, InWindow, Done, At
<1> QED
  BY <1>1, Inductive, PTL

\* No answer is rejected without one of the causes that RejectedForCause names.
THEOREM RejectionsCaused == Spec => []RejectedForCause
<1>1. IInv => RejectedForCause
  <2>1. ASSUME IInv, NEW c \in Client
        PROVE  Caused(call[c])
    BY <2>1 DEF IInv, CallInv, Returnable
  <2> QED
    BY <2>1 DEF RejectedForCause, Caused, InWindow, FudgeWraps
<1> QED
  BY <1>1, Inductive, PTL

-----------------------------------------------------------------------------
(***************************************************************************)
(* The chain of trust.  Below the root no DS record verifies, because      *)
(* verify_ds is given the root's name, so that the walk never recurses and *)
(* the body of verdict does not depend on verdict.                         *)
(***************************************************************************)
Link(z, keys, unknown, heard, parent) ==
    ChainLink(z, IF z = zone THEN keys ELSE query_dnskey_records(z, unknown, heard), z,
              query_ds_records(z, unknown, heard), heard[z] # "bare",
              IF heard[z] = "keyed" THEN 1 ELSE 0,
              query_dnskey_records(parent_zone(z), unknown, heard), parent)

IsVerdict(f, keys, unknown, heard) ==
    f = [z \in 0 .. zone |-> Link(z, keys, unknown, heard, f[parent_zone(z)])]

\* What one call comes to, whatever the call for the parent zone returns.
LEMMA ChainLinkIs ==
    ASSUME zone \in Nat, NEW z \in 0 .. zone, NEW keys, NEW unknown, NEW heard, NEW parent
    PROVE  Link(z, keys, unknown, heard, parent) =
             IF zone - z > MaxChain THEN "Bogus"
             ELSE IF z = 0
             THEN IF (IF z = zone THEN keys ELSE query_dnskey_records(z, unknown, heard))
                       \in TRUST_ANCHORS THEN "Secure" ELSE "Bogus"
             ELSE IF query_ds_records(z, unknown, heard) = {} THEN "Insecure" ELSE "Bogus"
<1> DEFINE records == query_ds_records(z, unknown, heard)
           held == IF z = zone THEN keys ELSE query_dnskey_records(z, unknown, heard)
           signed == heard[z] # "bare"
           beside == IF heard[z] = "keyed" THEN 1 ELSE 0
           pk == query_dnskey_records(parent_zone(z), unknown, heard)
<1>1. MaxChain \in Nat
  BY ValidationAssumption
<1>2. zone - z > MaxChain <=> ~ (zone - z <= MaxChain)
  BY <1>1
<1>3. is_root_zone(z) <=> z = 0
  BY DEF is_root_zone
<1>4. validate_dnskeys_against_root_anchor(held) <=> held \in TRUST_ANCHORS
  BY DEF validate_dnskeys_against_root_anchor, same_dnskey
<1>5. z # 0 /\ records # {} => ~ validate_dnskeys_against_ds(held, records)
  BY DEF query_ds_records, DsOf, validate_dnskeys_against_ds, verify_ds
<1>6. Link(z, keys, unknown, heard, parent) =
        ChainLink(z, held, z, records, signed, beside, pk, parent)
  BY DEF Link
<1> HIDE DEF records, held, signed, beside, pk
<1>7. CASE zone - z > MaxChain
  BY <1>2, <1>6, <1>7 DEF ChainLink
<1>8. CASE zone - z <= MaxChain /\ z = 0
  BY <1>2, <1>3, <1>4, <1>6, <1>8 DEF ChainLink, held
<1>9. CASE zone - z <= MaxChain /\ z # 0
  BY <1>2, <1>3, <1>5, <1>6, <1>9 DEF ChainLink, records
<1> QED
  BY <1>2, <1>7, <1>8, <1>9

\* What the whole chain comes to: it is complete for a trust anchor of the root, and
\* below the root it ends at the first DS record, whatever the servers say of the
\* zones above.
THEOREM ChainStops ==
    ASSUME zone \in Nat, NEW keys, NEW unknown, NEW heard
    PROVE  validate_dnssec_chain(keys, unknown, heard) =
             IF zone = 0 THEN IF keys \in TRUST_ANCHORS THEN "Secure" ELSE "Bogus"
             ELSE IF query_ds_records(zone, unknown, heard) = {} THEN "Insecure" ELSE "Bogus"
<1> DEFINE held(z) == IF z = zone THEN keys ELSE query_dnskey_records(z, unknown, heard)
           verdict == CHOOSE f : IsVerdict(f, keys, unknown, heard)
           g == [z \in 0 .. zone |->
                    IF zone - z > MaxChain THEN "Bogus"
                    ELSE IF z = 0
                    THEN IF held(z) \in TRUST_ANCHORS THEN "Secure" ELSE "Bogus"
                    ELSE IF query_ds_records(z, unknown, heard) = {} THEN "Insecure" ELSE "Bogus"]
           v == validate_dnssec_chain(keys, unknown, heard)
<1>1. v = verdict[zone]
  BY DEF validate_dnssec_chain, IsVerdict, Link
<1>2. \A f : \A z \in 0 .. zone :
        Link(z, keys, unknown, heard, f[parent_zone(z)]) = g[z]
  BY ChainLinkIs
<1>3. IsVerdict(g, keys, unknown, heard)
  BY <1>2 DEF IsVerdict
<1>4. IsVerdict(verdict, keys, unknown, heard)
  BY <1>3
<1> HIDE DEF verdict, v, g
<1>5. zone \in 0 .. zone
  OBVIOUS
<1>6. v = g[zone]
  BY <1>1, <1>2, <1>4, <1>5 DEF IsVerdict
<1>7. v = IF zone - zone > MaxChain THEN "Bogus"
          ELSE IF zone = 0
          THEN IF keys \in TRUST_ANCHORS THEN "Secure" ELSE "Bogus"
          ELSE IF query_ds_records(zone, unknown, heard) = {} THEN "Insecure" ELSE "Bogus"
  BY <1>5, <1>6 DEF g
<1>8. ~ (zone - zone > MaxChain)
  <2>1. MaxChain \in Nat
    BY ValidationAssumption
  <2> QED
    BY <2>1
<1> QED
  BY <1>7, <1>8 DEF v
=============================================================================
