--------------------------- MODULE IterationProofs ---------------------------
(***************************************************************************)
(* Proofs about resolve_recursive, for every name space, every number of   *)
(* concurrent resolutions and every content of the shared caches: an       *)
(* answer that carries addresses, and an NXDOMAIN, are what the name space *)
(* says, delegations are cached with servers of a zone above the name, and *)
(* calls are nested at most MAX_CNAME_DEPTH + 2 deep.                      *)
(***************************************************************************)
EXTENDS Iteration, WellFoundedInduction, TLAPS

\* A nonempty set of natural numbers has a least element.
LEMMA LeastNumber ==
    ASSUME NEW T, T \subseteq Nat, T # {}
    PROVE  \E x \in T : \A y \in T : x <= y
<1>1. \E x \in T : \A y \in T : ~ (<<y, x>> \in OpToRel(<, Nat))
  BY NatLessThanWellFounded, WFMin
<1>2. ASSUME NEW x \in T, NEW y \in T, ~ (<<y, x>> \in OpToRel(<, Nat))
      PROVE  x <= y
  <2>1. <<y, x>> \in Nat \X Nat
    OBVIOUS
  <2> QED
    BY <1>2, <2>1 DEF OpToRel
<1> QED
  BY <1>1, <1>2

-----------------------------------------------------------------------------
(***************************************************************************)
(* Names: Above(s, t) says that t is s or a name below s.                  *)
(***************************************************************************)
\* A prefix, label by label.
LEMMA PrefixIs ==
    ASSUME NEW s \in Name, NEW t \in Name
    PROVE  Above(s, t) <=> (Len(s) <= Len(t) /\ \A i \in 1 .. Len(s) : s[i] = t[i])
<1> USE DEF Name
<1>1. Len(s) \in Nat /\ Len(t) \in Nat
  OBVIOUS
<1>2. CASE Len(s) <= Len(t)
  <2> DEFINE b == SubSeq(t, 1, Len(s))
  <2>1. /\ s = [i \in 1 .. Len(s) |-> s[i]]
        /\ b = [i \in 1 .. Len(s) |-> t[i]]
    BY <1>1, <1>2
  <2>2. b = s <=> \A i \in 1 .. Len(s) : s[i] = t[i]
    BY <2>1
  <2> QED
    BY <1>2, <2>2 DEF Above
<1>3. CASE ~ (Len(s) <= Len(t))
  BY <1>3 DEF Above
<1> QED
  BY <1>2, <1>3

\* The order of names.
LEMMA PrefixTrans ==
    ASSUME NEW a \in Name, NEW b \in Name, NEW c \in Name, Above(a, b), Above(b, c)
    PROVE  Above(a, c)
<1>1. Len(a) \in Nat /\ Len(b) \in Nat /\ Len(c) \in Nat
  BY DEF Name
<1>2. Len(a) <= Len(b) /\ \A i \in 1 .. Len(a) : a[i] = b[i]
  BY PrefixIs
<1>3. Len(b) <= Len(c) /\ \A i \in 1 .. Len(b) : b[i] = c[i]
  BY PrefixIs
<1>4. Len(a) <= Len(c) /\ \A i \in 1 .. Len(a) : a[i] = c[i]
  BY <1>1, <1>2, <1>3
<1> QED
  BY <1>4, PrefixIs

\* Every name is below the root, and below itself.
LEMMA PrefixOfAll ==
    ASSUME NEW a \in Name
    PROVE  Above(<< >>, a) /\ Above(a, a) /\ << >> \in Name
<1>1. << >> \in Name /\ Len(<< >>) = 0 /\ Len(a) \in Nat
  BY DEF Name
<1> QED
  BY <1>1, PrefixIs

\* Of two names above a third, the shorter is above the other.
LEMMA PrefixOrder ==
    ASSUME NEW a \in Name, NEW b \in Name, NEW c \in Name, Above(a, c), Above(b, c),
           Len(a) <= Len(b)
    PROVE  Above(a, b)
<1>1. Len(a) \in Nat /\ Len(b) \in Nat /\ Len(c) \in Nat
  BY DEF Name
<1>2. \A i \in 1 .. Len(a) : a[i] = c[i]
  BY PrefixIs
<1>3. \A i \in 1 .. Len(b) : b[i] = c[i]
  BY PrefixIs
<1>4. \A i \in 1 .. Len(a) : a[i] = b[i]
  BY <1>1, <1>2, <1>3
<1> QED
  BY <1>4, PrefixIs

\* Names above one another are the same.
LEMMA PrefixAntisymmetric ==
    ASSUME NEW a \in Name, NEW b \in Name, Above(a, b), Above(b, a)
    PROVE  a = b
<1>1. Len(a) \in Nat /\ Len(b) \in Nat /\ Len(a) <= Len(b) /\ Len(b) <= Len(a)
  BY DEF Name, Above
<1>2. Len(a) = Len(b)
  BY <1>1
<1>3. \A i \in 1 .. Len(a) : a[i] = b[i]
  BY PrefixIs
<1> QED
  BY <1>2, <1>3 DEF Name

\* QNAME minimization asks for the name, or for a name above it.
LEMMA QnamePrefix ==
    ASSUME NEW f, f.name \in Name, f.revealed \in Nat
    PROVE  /\ Qname(f) \in Name
           /\ Above(Qname(f), f.name)
           /\ FullName(f) => Qname(f) = f.name
<1> DEFINE name == f.name
           n == f.revealed
<1>1. name \in Name /\ n \in Nat /\ Len(name) \in Nat
  BY DEF Name
<1>2. Qname(f) = IF n < Len(name) THEN SubSeq(name, 1, n) ELSE name
  BY <1>1 DEF Qname, name_prefix
<1>3. FullName(f) <=> n >= Len(name)
  BY DEF FullName
<1> HIDE DEF name, n
<1>4. CASE n < Len(name)
  <2> DEFINE q == SubSeq(name, 1, n)
  <2>1. q \in Name /\ Len(q) = n /\ \A i \in 1 .. n : q[i] = name[i]
    BY <1>1, <1>4 DEF Name
  <2> HIDE DEF q
  <2>2. Above(q, name)
    BY <1>1, <1>4, <2>1, PrefixIs
  <2> QED
    BY <1>1, <1>2, <1>3, <1>4, <2>1, <2>2 DEF q, name
<1>5. CASE ~ (n < Len(name))
  BY <1>1, <1>2, <1>3, <1>5, PrefixOfAll DEF name
<1> QED
  BY <1>4, <1>5

-----------------------------------------------------------------------------
(***************************************************************************)
(* Chains of aliases.                                                      *)
(***************************************************************************)
\* The chain from a name that is no alias ends there.
LEMMA EndOfHost ==
    ASSUME NEW q, q \notin DOMAIN Alias
    PROVE  Ends(q) # {} /\ (CHOOSE n \in Ends(q) : TRUE) = q
<1>1. q \in Ends(q)
  BY DEF Ends
<1>2. ASSUME NEW n \in Ends(q)
      PROVE  n = q
  <2>1. {q} \in SUBSET ({q} \cup {Alias[a] : a \in DOMAIN Alias})
    OBVIOUS
  <2>2. \A a \in {q} \cap DOMAIN Alias : Alias[a] \in {q}
    OBVIOUS
  <2> QED
    BY <1>2, <2>1, <2>2, Zenon DEF Ends
<1> QED
  BY <1>1, <1>2, Zenon

\* The answer for a name that is no alias.
LEMMA TruthOfHost ==
    ASSUME NEW q, q \notin DOMAIN Alias
    PROVE  Truth(q) = IF q \in DOMAIN Data THEN Ok(Data[q])
                      ELSE IF Exists(q) THEN Ok({})
                      ELSE Err("nxdomain")
<1> DEFINE n == CHOOSE n \in Ends(q) : TRUE
<1>1. Ends(q) # {} /\ n = q
  BY EndOfHost
<1> HIDE DEF n
<1> QED
  BY <1>1 DEF Truth, n

\* The chain from an alias ends where the chain from its target does.
LEMMA EndsOfAlias ==
    ASSUME NEW q \in DOMAIN Alias
    PROVE  Ends(q) = Ends(Alias[q])
<1> DEFINE T == {Alias[a] : a \in DOMAIN Alias}
           Closed(s) == \A a \in s \cap DOMAIN Alias : Alias[a] \in s
           p == Alias[q]
<1>1. \A a \in DOMAIN Alias : Alias[a] \in T
  OBVIOUS
<1>2. \A x, n : n \in Ends(x) <=>
          /\ n \in {x} \cup T /\ n \notin DOMAIN Alias
          /\ \A s \in SUBSET ({x} \cup T) : Closed(s) /\ x \in s => n \in s
  BY DEF Ends
<1> HIDE DEF T
<1>3. ASSUME NEW n \in Ends(q)
      PROVE  n \in Ends(p)
  <2>1. n \in T /\ n # q /\ n \notin DOMAIN Alias
    BY <1>2, <1>3
  <2>2. ASSUME NEW s \in SUBSET ({p} \cup T), Closed(s), p \in s
        PROVE  n \in s
    <3>1. s \cup {q} \in SUBSET ({q} \cup T)
      BY <1>1
    <3>2. Closed(s \cup {q}) /\ q \in s \cup {q}
      BY <2>2
    <3> QED
      BY <1>2, <1>3, <2>1, <3>1, <3>2
  <2> QED
    BY <1>2, <2>1, <2>2
<1>4. ASSUME NEW n \in Ends(p)
      PROVE  n \in Ends(q)
  <2>1. n \in T /\ n \notin DOMAIN Alias
    BY <1>1, <1>2, <1>4
  <2>2. ASSUME NEW s \in SUBSET ({q} \cup T), Closed(s), q \in s
        PROVE  n \in s
    <3>1. s \cap T \in SUBSET ({p} \cup T)
      OBVIOUS
    <3>2. Closed(s \cap T) /\ p \in s \cap T
      BY <1>1, <2>2
    <3>3. n \in s \cap T
      BY <1>2, <1>4, <3>1, <3>2, Zenon
    <3> QED
      BY <3>3
  <2> QED
    BY <1>2, <2>1, <2>2
<1> QED
  BY <1>3, <1>4

\* The answer for an alias is the answer for its target, also along a cycle.
LEMMA TruthOfAlias ==
    ASSUME NEW q \in DOMAIN Alias
    PROVE  Truth(q) = Truth(Alias[q])
<1> DEFINE E == Ends(q)
           n == CHOOSE n \in E : TRUE
<1>1. Ends(Alias[q]) = E
  BY EndsOfAlias
<1>2. (CHOOSE m \in Ends(Alias[q]) : TRUE) = n
  BY <1>1
<1> HIDE DEF n
<1> QED
  BY <1>1, <1>2 DEF Truth, n

-----------------------------------------------------------------------------
(***************************************************************************)
(* What the servers say.                                                   *)
(***************************************************************************)
\* An answer that carries addresses, and NXDOMAIN, agree with the name space.
Truthful(ret, q) == (ret.data # {} \/ ret.kind = "nxdomain") => ret = Truth(q)

\* s is a server of a zone that n is in.
Serves(s, n) == \E z \in Zone : s \in ServersOf[z] /\ Above(z, n)

\* The cut that a referral names is a zone on the way to the name.
LEMMA CutIsZone ==
    ASSUME NEW z \in Zone, NEW q \in Name, Cut(z, q) # {}
    PROVE  LET c == CHOOSE c \in Cut(z, q) : TRUE
           IN  c \in Zone /\ Above(c, q) /\ z # c /\ Above(z, c)
<1> DEFINE cs == {c \in Zone : z # c /\ Above(z, c) /\ Above(c, q)}
           T == {Len(c) : c \in cs}
<1>1. cs # {}
  BY DEF Cut
<1>2. \A c \in cs : Len(c) \in Nat
  BY IterationAssumption DEF Name
<1>3. PICK l \in T : \A k \in T : l <= k
  <2>1. T \subseteq Nat /\ T # {}
    BY <1>1, <1>2
  <2> HIDE DEF T
  <2> QED
    BY <2>1, LeastNumber, Zenon
<1>4. \E c \in cs : \A d \in cs : Len(c) <= Len(d)
  BY <1>3
<1> DEFINE first == CHOOSE c \in cs : \A d \in cs : Len(c) <= Len(d)
<1>5. first \in cs
  BY <1>4
<1>6. Cut(z, q) = {first}
  BY <1>1 DEF Cut
<1> HIDE DEF first, cs
<1>7. (CHOOSE c \in Cut(z, q) : TRUE) = first
  BY <1>6
<1> QED
  BY <1>5, <1>7, Zenon DEF cs

\* The zone that a server answers from is the deepest of its zones.
LEMMA ApexIsZone ==
    ASSUME NEW s, NEW q \in Name, Apex(s, q) # {}
    PROVE  LET z == CHOOSE z \in Apex(s, q) : TRUE
           IN  /\ z \in Zone /\ Above(z, q)
               /\ \A y \in Zone : s \in ServersOf[y] /\ Above(y, q) => Len(y) <= Len(z)
<1> DEFINE zs == {z \in Zone : s \in ServersOf[z] /\ Above(z, q)}
           T == {Len(q) - Len(z) : z \in zs}
<1>1. zs # {}
  BY DEF Apex
<1>2. \A z \in zs : Len(z) \in Nat /\ Len(q) \in Nat /\ Len(z) <= Len(q)
  BY IterationAssumption, PrefixIs DEF Name
<1>3. PICK l \in T : \A k \in T : l <= k
  <2>1. T \subseteq Nat /\ T # {}
    BY <1>1, <1>2
  <2> HIDE DEF T
  <2> QED
    BY <2>1, LeastNumber, Zenon
<1>4. \E z \in zs : \A y \in zs : Len(y) <= Len(z)
  <2>1. PICK z \in zs : l = Len(q) - Len(z)
    OBVIOUS
  <2>2. ASSUME NEW y \in zs
        PROVE  Len(y) <= Len(z)
    <3>1. l <= Len(q) - Len(y)
      BY <1>3
    <3> QED
      BY <1>2, <2>1, <3>1
  <2> QED
    BY <2>1, <2>2
<1> DEFINE last == CHOOSE z \in zs : \A y \in zs : Len(y) <= Len(z)
<1>5. last \in zs /\ \A y \in zs : Len(y) <= Len(last)
  BY <1>4
<1>6. Apex(s, q) = {last}
  BY <1>1 DEF Apex
<1> HIDE DEF last, zs
<1>7. (CHOOSE z \in Apex(s, q) : TRUE) = last
  BY <1>6
<1> QED
  BY <1>5, <1>7, Zenon DEF zs

\* What each kind of message means for the name asked for.
LEMMA RespondTrue ==
    ASSUME NEW s, NEW q \in Name, NEW m, m = Respond(s, q)
    PROVE  /\ m.kind = "referral" => m.zone \in Zone /\ Above(m.zone, q)
           /\ m.kind = "cname" => q \in DOMAIN Alias /\ m.target = Alias[q]
           /\ m.kind = "data" => q \notin DOMAIN Alias /\ q \in DOMAIN Data /\ m.data = Data[q]
           /\ m.kind = "nxdomain" => ~ Exists(q)
<1>1. CASE s \in Lame \/ Apex(s, q) = {}
  BY <1>1 DEF Respond
<1>2. CASE ~ (s \in Lame \/ Apex(s, q) = {})
  <2> DEFINE z == CHOOSE z \in Apex(s, q) : TRUE
             c == CHOOSE c \in Cut(z, q) : TRUE
  <2>1. m = IF Cut(z, q) # {} THEN [kind |-> "referral", zone |-> c]
            ELSE IF q \in DOMAIN Alias THEN [kind |-> "cname", target |-> Alias[q]]
            ELSE IF q \in DOMAIN Data THEN [kind |-> "data", data |-> Data[q]]
            ELSE IF Exists(q) THEN [kind |-> "nodata"]
            ELSE [kind |-> "nxdomain"]
    BY <1>2 DEF Respond
  <2>2. z \in Zone
    BY <1>2, ApexIsZone, Zenon
  <2>3. Cut(z, q) # {} => c \in Zone /\ Above(c, q)
    <3> HIDE DEF z
    <3> QED
      BY <2>2, CutIsZone
  <2> HIDE DEF z, c
  <2> QED
    BY <2>1, <2>3
<1> QED
  BY <1>1, <1>2

\* A referral leads below every zone of the server that the name is in.
LEMMA ReferralBelow ==
    ASSUME NEW s, NEW q \in Name, Respond(s, q).kind = "referral",
           NEW y \in Zone, s \in ServersOf[y], Above(y, q)
    PROVE  y # Respond(s, q).zone /\ Above(y, Respond(s, q).zone)
<1> DEFINE m == Respond(s, q)
           z == CHOOSE z \in Apex(s, q) : TRUE
           c == CHOOSE c \in Cut(z, q) : TRUE
<1>1. CASE s \in Lame \/ Apex(s, q) = {}
  BY <1>1 DEF Respond
<1>2. CASE ~ (s \in Lame \/ Apex(s, q) = {})
  <2>1. m = IF Cut(z, q) # {} THEN [kind |-> "referral", zone |-> c]
            ELSE IF q \in DOMAIN Alias THEN [kind |-> "cname", target |-> Alias[q]]
            ELSE IF q \in DOMAIN Data THEN [kind |-> "data", data |-> Data[q]]
            ELSE IF Exists(q) THEN [kind |-> "nodata"]
            ELSE [kind |-> "nxdomain"]
    BY <1>2, Zenon DEF Respond
  <2>2. z \in Zone /\ Above(z, q) /\ Len(y) <= Len(z)
    BY <1>2, ApexIsZone, Zenon
  <2>3. m.kind = "referral"
    OBVIOUS
  <2> HIDE DEF z, m
  <2>4. Cut(z, q) # {} /\ m.zone = c
    <3> HIDE DEF c
    <3> QED
      BY <2>1, <2>3
  <2>5. c \in Zone /\ z # c /\ Above(z, c)
    BY <2>2, <2>4, CutIsZone, Zenon
  <2> HIDE DEF c
  <2>6. y \in Name /\ z \in Name /\ c \in Name
    BY <2>2, <2>5, IterationAssumption, Zenon
  <2>7. Above(y, z)
    BY <2>2, <2>6, PrefixOrder, Zenon
  <2>8. Above(y, c)
    BY <2>5, <2>6, <2>7, PrefixTrans, Zenon
  <2>9. y # c
    BY <2>5, <2>6, <2>7, PrefixAntisymmetric, Zenon
  <2> QED
    BY <2>4, <2>8, <2>9, Zenon DEF m
<1> QED
  BY <1>1, <1>2

\* Of a host, a server does not say that there is nothing.
LEMMA HostFound ==
    ASSUME NEW s, NEW q, q \in DOMAIN Data \ DOMAIN Alias
    PROVE  Respond(s, q).kind \notin {"nodata", "nxdomain", "cname"}
<1> DEFINE m == Respond(s, q)
           z == CHOOSE z \in Apex(s, q) : TRUE
           c == CHOOSE c \in Cut(z, q) : TRUE
           d == Data[q]
<1>1. m \in {[kind |-> "refused"], [kind |-> "referral", zone |-> c],
             [kind |-> "data", data |-> d]}
  BY Zenon DEF Respond
<1> HIDE DEF m, c, d
<1> QED
  BY <1>1 DEF m

\* The records of a name that has some are the truth about it.
LEMMA DataTrue ==
    ASSUME NEW q, q \notin DOMAIN Alias, q \in DOMAIN Data
    PROVE  Truth(q) = Ok(Data[q])
BY TruthOfHost

\* A name below one that does not exist does not exist: NXDOMAIN for a shortened
\* name is the truth about the whole one.
LEMMA NxDomainTrue ==
    ASSUME NEW q \in Name, NEW n \in Name, Above(q, n), ~ Exists(q)
    PROVE  Truth(n) = Err("nxdomain")
<1>1. ASSUME NEW x \in DOMAIN Data \cup DOMAIN Alias \cup Zone, Above(n, x)
      PROVE  FALSE
  <2>1. x \in Name
    BY IterationAssumption
  <2>2. Above(q, x)
    BY <1>1, <2>1, PrefixTrans
  <2> QED
    BY <2>2 DEF Exists
<1>2. ~ Exists(n)
  BY <1>1 DEF Exists
<1>3. n \notin DOMAIN Alias /\ n \notin DOMAIN Data
  BY <1>1, PrefixOfAll
<1> QED
  BY <1>2, <1>3, TruthOfHost

-----------------------------------------------------------------------------
(***************************************************************************)
(* The inductive invariant.  A call only ever asks servers of zones that   *)
(* its name is in; what it returns is the truth about its name; a call     *)
(* that waits knows what the call above it is for, and has an iteration    *)
(* left for what comes of it.  The NS cache holds addresses of the names,  *)
(* so that following a referral without glue leads to the zone's servers.  *)
(***************************************************************************)
Pc == {"enter", "loop", "cname", "ns", "return"}
Active == {"enter", "loop", "return"}

Value == [kind : {"none", "ok", "error", "nxdomain"}, data : SUBSET Address]

Frame ==
    [pc : Pc, name : Name, depth : Nat, servers : SUBSET Address, revealed : Nat,
     n : 0 .. MaxIterations, zone : Name, ret : Value]

FrameInv(f) ==
    /\ f \in Frame
    /\ \A s \in f.servers : Serves(s, f.name)
    /\ f.name # << >> => f.revealed \in 1 .. Len(f.name)
    /\ f.depth <= MaxDepth + 1
    /\ f.pc \in {"loop", "cname", "ns"} => f.depth <= MaxDepth
    /\ f.pc \in {"cname", "ns"} => f.n < MaxIterations
    /\ f.pc = "cname" => f.name \in DOMAIN Alias
    /\ f.pc = "ns" => f.zone \in DOMAIN Glueless /\ Above(f.zone, f.name)
    /\ f.pc = "return" => Truthful(f.ret, f.name)

\* Call f waits for call g.
Waits(f, g) ==
    \/ f.pc = "cname" /\ g.name = Alias[f.name]
    \/ f.pc = "ns" /\ g.name = Glueless[f.zone]

\* The calls of a resolution of q.
StackInv(st, q) ==
    /\ st \in Seq(Frame)
    /\ \A i \in 1 .. Len(st) : FrameInv(st[i]) /\ st[i].depth = i - 1
    /\ \A i \in 1 .. Len(st) - 1 : Waits(st[i], st[i + 1])
    /\ st # << >> => st[1].name = q /\ st[Len(st)].pc \in Active

CachesInv ==
    /\ DOMAIN delegation \subseteq Name
    /\ \A n \in DOMAIN delegation : \A s \in delegation[n] : Serves(s, n)
    /\ \A n \in DOMAIN ns_cache : ns_cache[n] \subseteq Truth(n).data

IInv ==
    /\ CachesInv
    /\ stack \in [Caller -> Seq(Frame)]
    /\ result \in [Caller -> [name : Name, ret : Value]]
    /\ \A t \in Caller :
           /\ StackInv(stack[t], result[t].name)
           /\ Truthful(result[t].ret, result[t].name)

-----------------------------------------------------------------------------
(***************************************************************************)
(* The stack of calls.                                                     *)
(***************************************************************************)
\* One sequence after another.
LEMMA Concatenated ==
    ASSUME NEW S, NEW a \in Seq(S), NEW b \in Seq(S)
    PROVE  /\ a \o b \in Seq(S) /\ Len(a \o b) = Len(a) + Len(b)
           /\ \A i \in 1 .. Len(a) + Len(b) :
                  (a \o b)[i] = IF i <= Len(a) THEN a[i] ELSE b[i - Len(a)]
OBVIOUS

\* All calls but the innermost.
LEMMA OuterIs ==
    ASSUME NEW st \in Seq(Frame), st # << >>
    PROVE  /\ Outer(st) \in Seq(Frame) /\ Len(Outer(st)) = Len(st) - 1
           /\ \A i \in 1 .. Len(st) - 1 : Outer(st)[i] = st[i]
<1> DEFINE k == Len(st) - 1
<1>1. k \in Nat /\ k + 1 = Len(st)
  OBVIOUS
<1> HIDE DEF k
<1>2. /\ SubSeq(st, 1, k) \in Seq(Frame) /\ Len(SubSeq(st, 1, k)) = k
      /\ \A i \in 1 .. k : SubSeq(st, 1, k)[i] = st[i]
  BY <1>1
<1> QED
  BY <1>2, Zenon DEF Outer, k

\* The innermost call is replaced.
LEMMA AppendedIs ==
    ASSUME NEW st \in Seq(Frame), st # << >>, NEW g \in Frame
    PROVE  LET k == Len(st)
               nx == Append(Outer(st), g)
           IN  /\ k \in Nat /\ k >= 1 /\ Innermost(st) = st[k]
               /\ nx \in Seq(Frame) /\ Len(nx) = k /\ nx[k] = g
               /\ \A j \in 1 .. k - 1 : nx[j] = st[j]
<1> DEFINE fr == Outer(st)
           k == Len(st)
<1>1. k \in Nat /\ k >= 1 /\ Innermost(st) = st[k]
  BY DEF Innermost
<1>2. fr \in Seq(Frame) /\ Len(fr) = k - 1 /\ \A i \in 1 .. k - 1 : fr[i] = st[i]
  BY OuterIs
<1> HIDE DEF fr, k
<1>3. LET nx == Append(fr, g)
      IN  /\ nx \in Seq(Frame) /\ Len(nx) = k /\ nx[k] = g
          /\ \A j \in 1 .. k - 1 : nx[j] = st[j]
  BY <1>1, <1>2
<1> QED
  BY <1>1, <1>3, Zenon DEF fr, k

Nested(st, g, h) == Outer(st) \o <<g, h>>

IsNested(nx, st, g, h) ==
    LET k == Len(st)
    IN  /\ k \in Nat /\ k >= 1 /\ Innermost(st) = st[k]
        /\ nx \in Seq(Frame) /\ Len(nx) = k + 1 /\ nx[k] = g /\ nx[k + 1] = h
        /\ \A j \in 1 .. k - 1 : nx[j] = st[j]

\* The innermost call is replaced by two.
LEMMA NestedIs ==
    ASSUME NEW st \in Seq(Frame), st # << >>, NEW g \in Frame, NEW h \in Frame
    PROVE  IsNested(Nested(st, g, h), st, g, h)
<1> DEFINE fr == Outer(st)
           p == <<g, h>>
           k == Len(st)
           nx == Nested(st, g, h)
<1>1. k \in Nat /\ k >= 1 /\ Innermost(st) = st[k]
  BY DEF Innermost
<1>2. fr \in Seq(Frame) /\ Len(fr) = k - 1 /\ \A i \in 1 .. k - 1 : fr[i] = st[i]
  BY OuterIs
<1>3. p \in Seq(Frame) /\ Len(p) = 2 /\ p[1] = g /\ p[2] = h
  OBVIOUS
<1> HIDE DEF fr, p, k, nx
<1>4. nx = fr \o p
  BY DEF nx, fr, p, Nested
<1>5. /\ nx \in Seq(Frame) /\ Len(nx) = Len(fr) + Len(p)
      /\ \A i \in 1 .. Len(fr) + Len(p) :
             nx[i] = IF i <= Len(fr) THEN fr[i] ELSE p[i - Len(fr)]
  <2>1. /\ fr \o p \in Seq(Frame) /\ Len(fr \o p) = Len(fr) + Len(p)
        /\ \A i \in 1 .. Len(fr) + Len(p) :
               (fr \o p)[i] = IF i <= Len(fr) THEN fr[i] ELSE p[i - Len(fr)]
    BY <1>2, <1>3, Concatenated, Zenon
  <2> QED
    BY <1>4, <2>1
<1>6. nx \in Seq(Frame) /\ Len(nx) = k + 1
  BY <1>1, <1>2, <1>3, <1>5
<1>7. \A i \in 1 .. k + 1 : nx[i] = IF i <= k - 1 THEN fr[i] ELSE p[i - (k - 1)]
  BY <1>1, <1>2, <1>3, <1>5
<1>8. /\ k \in 1 .. k + 1 /\ ~ (k <= k - 1) /\ k - (k - 1) = 1
      /\ k + 1 \in 1 .. k + 1 /\ ~ (k + 1 <= k - 1) /\ (k + 1) - (k - 1) = 2
  BY <1>1
<1>9. nx[k] = g /\ nx[k + 1] = h
  BY <1>3, <1>7, <1>8
<1>10. ASSUME NEW j \in 1 .. k - 1
       PROVE  nx[j] = st[j]
  <2>1. j \in 1 .. k + 1 /\ j <= k - 1
    BY <1>1
  <2> QED
    BY <1>2, <1>7, <2>1
<1> QED
  BY <1>1, <1>6, <1>9, <1>10, Zenon DEF k, nx, IsNested

\* The innermost call is over, and the one that waited for it is replaced.
LEMMA ResumedIs ==
    ASSUME NEW st \in Seq(Frame), Len(st) > 1, NEW g \in Frame
    PROVE  LET k == Len(st) - 1
               nx == Append(Outer(Outer(st)), g)
           IN  /\ k \in Nat /\ k >= 1 /\ k + 1 = Len(st) /\ Innermost(Outer(st)) = st[k]
               /\ nx \in Seq(Frame) /\ Len(nx) = k /\ nx[k] = g
               /\ \A j \in 1 .. k - 1 : nx[j] = st[j]
<1> DEFINE fr == Outer(st)
           k == Len(st) - 1
           nx == Append(Outer(fr), g)
<1>1. k \in Nat /\ k >= 1 /\ k + 1 = Len(st) /\ st # << >>
  OBVIOUS
<1>2. fr \in Seq(Frame) /\ Len(fr) = k /\ \A i \in 1 .. k : fr[i] = st[i]
  BY <1>1, OuterIs, Zenon
<1> HIDE DEF fr, k
<1>3. fr # << >>
  BY <1>1, <1>2
<1>4. /\ Innermost(fr) = fr[k] /\ nx \in Seq(Frame) /\ Len(nx) = k /\ nx[k] = g
      /\ \A j \in 1 .. k - 1 : nx[j] = fr[j]
  BY <1>2, <1>3, AppendedIs, Zenon
<1>5. fr[k] = st[k] /\ \A j \in 1 .. k - 1 : fr[j] = st[j]
  BY <1>1, <1>2
<1> HIDE DEF nx
<1>6. Innermost(fr) = st[k] /\ \A j \in 1 .. k - 1 : nx[j] = st[j]
  BY <1>4, <1>5, Zenon
<1> QED
  BY <1>1, <1>4, <1>6, Zenon DEF nx, fr, k

\* The calls above the k-th are gone, and the k-th goes on as f.
LEMMA ReplaceInv ==
    ASSUME NEW st, NEW q, StackInv(st, q), NEW k \in 1 .. Len(st), NEW f, FrameInv(f),
           f.name = st[k].name, f.depth = st[k].depth, f.pc \in Active,
           NEW s, s \in Seq(Frame), Len(s) = k, s[k] = f, \A i \in 1 .. k - 1 : s[i] = st[i]
    PROVE  StackInv(s, q)
<1>1. st \in Seq(Frame) /\ Len(st) \in Nat /\ st # << >>
  BY DEF StackInv
<1>2. ASSUME NEW i \in 1 .. Len(s)
      PROVE  FrameInv(s[i]) /\ s[i].depth = i - 1
  <2>1. CASE i = k
    BY <2>1 DEF StackInv
  <2>2. CASE i # k
    <3>1. i \in 1 .. k - 1 /\ i \in 1 .. Len(st)
      BY <1>1, <2>2
    <3>2. s[i] = st[i]
      BY <3>1
    <3> QED
      BY <3>1, <3>2 DEF StackInv
  <2> QED
    BY <2>1, <2>2
<1>3. ASSUME NEW i \in 1 .. Len(s) - 1
      PROVE  Waits(s[i], s[i + 1])
  <2>1. Waits(st[i], st[i + 1]) /\ s[i] = st[i]
    BY <1>1 DEF StackInv
  <2>2. s[i + 1].name = st[i + 1].name
    <3>1. CASE i + 1 = k
      BY <3>1
    <3>2. CASE i + 1 # k
      BY <1>1, <3>2
    <3> QED
      BY <3>1, <3>2
  <2> QED
    BY <2>1, <2>2 DEF Waits
<1>4. s[1].name = q
  <2>1. st[1].name = q
    BY <1>1 DEF StackInv
  <2>2. CASE k = 1
    BY <2>1, <2>2
  <2>3. CASE k # 1
    BY <1>1, <2>1, <2>3
  <2> QED
    BY <2>2, <2>3
<1> QED
  BY <1>2, <1>3, <1>4 DEF StackInv

\* The innermost call goes on as f (Continue).
LEMMA ContinueInv ==
    ASSUME NEW st, NEW q, StackInv(st, q), st # << >>, NEW f, FrameInv(f),
           f.name = Innermost(st).name, f.depth = Innermost(st).depth, f.pc \in Active
    PROVE  StackInv(Append(Outer(st), f), q)
<1> DEFINE s == Append(Outer(st), f)
           k == Len(st)
<1>1. st \in Seq(Frame) /\ k \in 1 .. Len(st) /\ f \in Frame
  BY DEF StackInv, FrameInv
<1>2. /\ Innermost(st) = st[k]
      /\ s \in Seq(Frame) /\ Len(s) = k /\ s[k] = f /\ \A i \in 1 .. k - 1 : s[i] = st[i]
  BY <1>1, AppendedIs, Zenon
<1> HIDE DEF s, k
<1>3. StackInv(s, q)
  BY <1>1, <1>2, ReplaceInv, Zenon
<1> QED
  BY <1>3 DEF s

\* The innermost call has returned, and the one below it goes on as f (Resume).
LEMMA ResumeInv ==
    ASSUME NEW st, NEW q, StackInv(st, q), Len(st) > 1, NEW f, FrameInv(f),
           f.name = Innermost(Outer(st)).name, f.depth = Innermost(Outer(st)).depth, f.pc \in Active
    PROVE  StackInv(Append(Outer(Outer(st)), f), q)
<1> DEFINE s == Append(Outer(Outer(st)), f)
           k == Len(st) - 1
<1>1. st \in Seq(Frame) /\ k \in 1 .. Len(st) /\ f \in Frame
  BY DEF StackInv, FrameInv
<1>2. /\ Innermost(Outer(st)) = st[k]
      /\ s \in Seq(Frame) /\ Len(s) = k /\ s[k] = f /\ \A i \in 1 .. k - 1 : s[i] = st[i]
  BY <1>1, ResumedIs, Zenon
<1> HIDE DEF s, k
<1>3. StackInv(s, q)
  BY <1>1, <1>2, ReplaceInv, Zenon
<1> QED
  BY <1>3 DEF s

\* The innermost call waits as f for the new call g (Nest).
LEMMA NestInv ==
    ASSUME NEW st, NEW q, StackInv(st, q), st # << >>, NEW f, NEW g, FrameInv(f), FrameInv(g),
           f.name = Innermost(st).name, f.depth = Innermost(st).depth, g.depth = f.depth + 1,
           Waits(f, g), g.pc \in Active
    PROVE  StackInv(Outer(st) \o <<f, g>>, q)
<1> DEFINE s == Nested(st, f, g)
           k == Len(st)
<1>1. st \in Seq(Frame) /\ k \in Nat /\ k \in 1 .. Len(st) /\ f \in Frame /\ g \in Frame
  BY DEF StackInv, FrameInv
<1>2. Innermost(st) = st[k]
  BY DEF Innermost
<1>3. /\ s \in Seq(Frame) /\ Len(s) = k + 1
      /\ s[k] = f /\ s[k + 1] = g
      /\ \A i \in 1 .. k - 1 : s[i] = st[i]
  <2>1. st \in Seq(Frame) /\ st # << >> /\ f \in Frame /\ g \in Frame
    BY <1>1
  <2>2. IsNested(s, st, f, g)
    BY <2>1, NestedIs, Zenon
  <2> HIDE DEF s
  <2> QED
    BY <2>2 DEF IsNested
<1> HIDE DEF s, k
<1>4. st[k].depth = k - 1 /\ st[1].name = q
  BY <1>1 DEF StackInv
<1>5. ASSUME NEW i \in 1 .. Len(s)
      PROVE  FrameInv(s[i]) /\ s[i].depth = i - 1
  <2>1. CASE i < k
    <3>1. i \in 1 .. k - 1 /\ i \in 1 .. Len(st)
      BY <1>1, <2>1 DEF k
    <3>2. s[i] = st[i]
      BY <1>3, <3>1
    <3> QED
      BY <3>1, <3>2 DEF StackInv
  <2>2. CASE i = k
    BY <1>2, <1>3, <1>4, <2>2
  <2>3. CASE i = k + 1
    <3>1. f.depth = k - 1
      BY <1>2, <1>4
    <3> QED
      BY <1>1, <1>3, <2>3, <3>1
  <2> QED
    BY <1>1, <1>3, <2>1, <2>2, <2>3
<1>6. ASSUME NEW i \in 1 .. Len(s) - 1
      PROVE  Waits(s[i], s[i + 1])
  <2>1. CASE i = k
    BY <1>3, <2>1
  <2>2. CASE i < k
    <3>1. Waits(st[i], st[i + 1]) /\ s[i] = st[i]
      BY <1>1, <1>3, <2>2 DEF StackInv, k
    <3>2. s[i + 1].name = st[i + 1].name
      <4>1. CASE i + 1 = k
        BY <1>2, <1>3, <4>1
      <4>2. CASE i + 1 # k
        BY <1>1, <1>3, <2>2, <4>2
      <4> QED
        BY <4>1, <4>2
    <3> QED
      BY <3>1, <3>2 DEF Waits
  <2> QED
    BY <1>1, <1>3, <2>1, <2>2
<1>7. s[1].name = q
  <2>1. CASE k = 1
    BY <1>2, <1>3, <1>4, <2>1
  <2>2. CASE k # 1
    BY <1>1, <1>3, <1>4, <2>2
  <2> QED
    BY <2>1, <2>2
<1>8. StackInv(s, q)
  BY <1>1, <1>3, <1>5, <1>6, <1>7 DEF StackInv
<1> QED
  BY <1>8 DEF s, Nested

-----------------------------------------------------------------------------
(***************************************************************************)
(* The steps of a resolution.                                              *)
(***************************************************************************)
\* The calls of resolution t become st.
LEMMA StackStep ==
    ASSUME IInv, NEW t \in Caller, NEW st, StackInv(st, result[t].name),
           stack' = [stack EXCEPT ![t] = st], result' = result, CachesInv'
    PROVE  IInv'
<1>1. st \in Seq(Frame)
  BY DEF StackInv
<1>2. stack' \in [Caller -> Seq(Frame)] /\ stack'[t] = st
  BY <1>1 DEF IInv
<1>3. ASSUME NEW u \in Caller
      PROVE  StackInv(stack[u], result[u].name)' /\ Truthful(result[u].ret, result[u].name)'
  <2>1. Truthful(result[u].ret, result[u].name)'
    BY DEF IInv, Truthful
  <2>2. PICK x, q : x = stack'[u] /\ q = result[u].name
    OBVIOUS
  <2>3. StackInv(x, q)
    <3>1. CASE u = t
      BY <1>2, <2>2, <3>1
    <3>2. CASE u # t
      <4>1. x = stack[u]
        BY <2>2, <3>2, Zenon DEF IInv
      <4> QED
        BY <2>2, <4>1 DEF IInv
    <3> QED
      BY <3>1, <3>2
  <2> QED
    BY <2>1, <2>2, <2>3 DEF StackInv
<1> QED
  BY <1>2, <1>3 DEF IInv

\* The innermost call of a resolution, and its place.
LEMMA TopIs ==
    ASSUME IInv, NEW t \in Caller, stack[t] # << >>
    PROVE  /\ StackInv(stack[t], result[t].name)
           /\ FrameInv(Top(t)) /\ Top(t) \in Frame
           /\ Top(t).pc \in Active
<1>1. StackInv(stack[t], result[t].name) /\ stack[t] \in Seq(Frame)
  BY DEF IInv
<1>2. Top(t) = stack[t][Len(stack[t])] /\ Len(stack[t]) \in 1 .. Len(stack[t])
  BY <1>1 DEF Top, Innermost
<1> QED
  BY <1>1, <1>2 DEF StackInv, FrameInv

\* The caches do not change.
LEMMA SameCaches ==
    ASSUME CachesInv, UNCHANGED <<delegation, ns_cache>>
    PROVE  CachesInv'
BY DEF CachesInv

\* The innermost call goes on as f.
LEMMA ContinueStep ==
    ASSUME IInv, NEW t \in Caller, stack[t] # << >>, NEW f, FrameInv(f),
           f.name = Top(t).name, f.depth = Top(t).depth, f.pc \in Active,
           Continue(t, f), result' = result, CachesInv'
    PROVE  IInv'
<1> DEFINE st == Append(Outer(stack[t]), f)
<1>1. StackInv(st, result[t].name)
  <2>1. StackInv(stack[t], result[t].name)
    BY TopIs
  <2> QED
    BY <2>1, ContinueInv DEF Top
<1>2. stack' = [stack EXCEPT ![t] = st]
  BY DEF Continue, Below
<1> HIDE DEF st
<1> QED
  BY <1>1, <1>2, StackStep, Zenon

\* A call returns a value that is true of its name.
LEMMA ReturnFrame ==
    ASSUME NEW f, FrameInv(f), NEW ret \in Value, Truthful(ret, f.name)
    PROVE  LET g == ReturnValue(f, ret)
           IN  /\ FrameInv(g) /\ g.pc \in Active
               /\ g.name = f.name /\ g.depth = f.depth
<1> DEFINE g == ReturnValue(f, ret)
<1>1. f \in Frame
  BY DEF FrameInv
<1>2. /\ g \in Frame /\ g.pc = "return" /\ g.ret = ret /\ g.name = f.name
      /\ g.depth = f.depth /\ g.servers = f.servers /\ g.revealed = f.revealed
  BY <1>1, Zenon DEF ReturnValue, Frame, Pc
<1> HIDE DEF g
<1>3. FrameInv(g)
  BY <1>2 DEF FrameInv
<1> QED
  BY <1>2, <1>3 DEF g, Active

\* A call returns an empty or a failed result.
LEMMA ReturnStep ==
    ASSUME IInv, NEW t \in Caller, stack[t] # << >>, NEW ret \in Value,
           Truthful(ret, Top(t).name), Continue(t, ReturnValue(Top(t), ret)),
           result' = result, CachesInv'
    PROVE  IInv'
<1> DEFINE f == Top(t)
           g == ReturnValue(f, ret)
<1>1. FrameInv(f) /\ Truthful(ret, f.name) /\ Continue(t, g)
  BY TopIs
<1> HIDE DEF f
<1>2. FrameInv(g) /\ g.pc \in Active /\ g.name = f.name /\ g.depth = f.depth
  BY <1>1, ReturnFrame
<1> HIDE DEF g
<1> QED
  BY <1>1, <1>2, ContinueStep DEF f

\* A new call asks the root servers.
LEMMA NewCall ==
    ASSUME NEW q \in Name, NEW d \in Nat, d <= MaxDepth + 1, NEW minimize \in BOOLEAN
    PROVE  /\ FrameInv(Call(q, d, minimize))
           /\ Call(q, d, minimize).name = q
           /\ Call(q, d, minimize).depth = d
           /\ Call(q, d, minimize).pc = "enter"
<1> DEFINE r == IF minimize THEN 1 ELSE Len(q)
           root == ServersOf[<< >>]
           none == NoResult
           lit == [pc |-> "enter", name |-> q, depth |-> d, servers |-> root,
                   revealed |-> r, n |-> 0, zone |-> << >>, ret |-> none]
<1>1. Call(q, d, minimize) = lit
  BY DEF Call, initial_root_addrs
<1>2. r \in Nat /\ (q # << >> => r \in 1 .. Len(q))
  <2>1. Len(q) \in Nat /\ (q # << >> => Len(q) # 0)
    BY DEF Name
  <2> QED
    BY <2>1
<1>3. root \in SUBSET Address /\ \A s \in root : Serves(s, q)
  <2>1. << >> \in Zone /\ ServersOf \in [Zone -> SUBSET Address] /\ Above(<< >>, q)
    BY IterationAssumption, PrefixOfAll
  <2> QED
    BY <2>1 DEF Serves
<1>4. none \in Value
  BY DEF NoResult, Value
<1>5. << >> \in Name /\ 0 \in 0 .. MaxIterations
  BY IterationAssumption DEF Name
<1> HIDE DEF r, root, none
<1>6. /\ lit \in Frame
      /\ lit.name = q /\ lit.depth = d /\ lit.pc = "enter" /\ lit.servers = root
      /\ lit.revealed = r
  BY <1>2, <1>3, <1>4, <1>5, Zenon DEF Frame, Pc
<1> HIDE DEF lit
<1>7. FrameInv(lit)
  BY <1>2, <1>3, <1>6 DEF FrameInv
<1> QED
  BY <1>1, <1>6, <1>7

\* A call goes on with its loop.
LEMMA LoopFrame ==
    ASSUME NEW f, FrameInv(f), f.depth <= MaxDepth, NEW g \in Frame, g.pc = "loop",
           g.name = f.name, g.depth = f.depth, \A s \in g.servers : Serves(s, f.name),
           f.name # << >> => g.revealed \in 1 .. Len(f.name)
    PROVE  FrameInv(g) /\ g.pc \in Active
BY DEF FrameInv, Active

(***************************************************************************)
(* The caches.                                                             *)
(***************************************************************************)
\* A delegation is cached with servers of zones above its name.
LEMMA DelegationCached ==
    ASSUME CachesInv, NEW n \in Name, NEW v, \A s \in v : Serves(s, n),
           delegation' = cache_delegation(n, v)
    PROVE  /\ DOMAIN delegation' \subseteq Name
           /\ \A m \in DOMAIN delegation' : \A s \in delegation'[m] : Serves(s, m)
<1>1. DOMAIN delegation' = DOMAIN delegation \cup {n}
  BY DEF cache_delegation, With
<1>2. \A m \in DOMAIN delegation \cup {n} : delegation'[m] = IF m = n THEN v ELSE delegation[m]
  BY DEF cache_delegation, With
<1> QED
  BY <1>1, <1>2 DEF CachesInv

\* An address is cached for a name that has it.
LEMMA AddressCached ==
    ASSUME CachesInv, NEW n, NEW v, v \subseteq Truth(n).data,
           ns_cache' = With(ns_cache, n, v) \/ ns_cache' = Learn(n, v)
    PROVE  \A m \in DOMAIN ns_cache' : ns_cache'[m] \subseteq Truth(m).data
<1>1. PICK w : w \subseteq Truth(n).data /\ ns_cache' = With(ns_cache, n, w)
  <2>1. CASE ns_cache' = With(ns_cache, n, v)
    BY <2>1
  <2>2. CASE ns_cache' = Learn(n, v)
    BY <2>2 DEF Learn, CachesInv
  <2> QED
    BY <2>1, <2>2
<1>2. DOMAIN ns_cache' = DOMAIN ns_cache \cup {n}
  BY <1>1 DEF With
<1>3. \A m \in DOMAIN ns_cache \cup {n} : ns_cache'[m] = IF m = n THEN w ELSE ns_cache[m]
  BY <1>1 DEF With
<1> QED
  BY <1>1, <1>2, <1>3 DEF CachesInv

\* Expiry and eviction only remove.
LEMMA ForgetInv ==
    ASSUME IInv, Forget
    PROVE  IInv'
<1>1. CachesInv'
  <2>0. CachesInv
    BY DEF IInv
  <2>1. CASE \E n \in DOMAIN delegation :
                delegation' = Without(delegation, n) /\ UNCHANGED ns_cache
    BY <2>0, <2>1 DEF CachesInv, Without
  <2>2. CASE \E n \in DOMAIN ns_cache :
                ns_cache' = Without(ns_cache, n) /\ UNCHANGED delegation
    BY <2>0, <2>2 DEF CachesInv, Without
  <2> QED
    BY <2>1, <2>2 DEF Forget
<1>2. stack' = stack /\ result' = result
  BY DEF Forget
<1> QED
  BY <1>1, <1>2 DEF IInv, StackInv, Truthful

\* find_cached_delegation returns a cached delegation of a name above.
LEMMA CachedIs ==
    ASSUME CachesInv, NEW q \in Name, Cached(q) # {}
    PROVE  \E n \in Cached(q) : find_cached_delegation(q) = delegation[n]
<1> DEFINE T == {Len(q) - Len(n) : n \in Cached(q)}
<1>1. \A n \in Cached(q) : n \in DOMAIN delegation /\ n \in Name /\ Above(n, q)
  BY DEF Cached, CachesInv
<1>2. \A n \in Cached(q) : Len(n) \in Nat /\ Len(q) \in Nat /\ Len(n) <= Len(q)
  BY <1>1, PrefixIs DEF Name
<1>3. PICK l \in T : \A k \in T : l <= k
  <2>1. T \subseteq Nat /\ T # {}
    BY <1>2
  <2> HIDE DEF T
  <2> QED
    BY <2>1, LeastNumber, Zenon
<1>4. \E n \in Cached(q) : \A m \in Cached(q) : Len(m) <= Len(n)
  <2>1. PICK n \in Cached(q) : l = Len(q) - Len(n)
    OBVIOUS
  <2>2. ASSUME NEW m \in Cached(q)
        PROVE  Len(m) <= Len(n)
    <3>1. l <= Len(q) - Len(m)
      BY <1>3
    <3> QED
      BY <1>2, <2>1, <3>1
  <2> QED
    BY <2>1, <2>2
<1> DEFINE n == CHOOSE n \in Cached(q) : \A m \in Cached(q) : Len(m) <= Len(n)
<1>5. n \in Cached(q) /\ find_cached_delegation(q) = delegation[n]
  BY <1>4 DEF find_cached_delegation
<1> QED
  BY <1>5, Zenon

\* A cached delegation of a name above the one asked for leads to servers of zones
\* that the name is in.
LEMMA CachedServes ==
    ASSUME CachesInv, NEW q \in Name, Cached(q) # {}
    PROVE  \A s \in find_cached_delegation(q) : Serves(s, q)
<1>1. PICK n \in Cached(q) : find_cached_delegation(q) = delegation[n]
  BY CachedIs, Zenon
<1>2. n \in DOMAIN delegation /\ n \in Name /\ Above(n, q)
  BY DEF Cached, CachesInv
<1>3. ASSUME NEW s \in delegation[n]
      PROVE  Serves(s, q)
  <2>1. PICK z \in Zone : s \in ServersOf[z] /\ Above(z, n)
    BY <1>2 DEF CachesInv, Serves
  <2>2. Above(z, q)
    BY <1>2, <2>1, PrefixTrans, IterationAssumption
  <2> QED
    BY <2>1, <2>2 DEF Serves
<1> QED
  BY <1>1, <1>3

(***************************************************************************)
(* The actions.                                                            *)
(***************************************************************************)
\* A call in its loop has an iteration left.
LEMMA InLoopIs ==
    ASSUME IInv, NEW t \in Caller, InLoop(t)
    PROVE  /\ stack[t] # << >> /\ FrameInv(Top(t)) /\ Top(t) \in Frame
           /\ Top(t).pc = "loop" /\ Top(t).depth <= MaxDepth
           /\ Top(t).n \in Nat /\ Top(t).n + 1 \in 0 .. MaxIterations
           /\ Top(t).n < MaxIterations
<1>1. stack[t] # << >> /\ Top(t).pc = "loop" /\ Top(t).n < MaxIterations
  BY DEF InLoop, Running
<1>2. FrameInv(Top(t)) /\ Top(t) \in Frame
  BY <1>1, TopIs
<1>3. Top(t).n \in 0 .. MaxIterations /\ MaxIterations \in Nat
  BY <1>2, IterationAssumption DEF Frame
<1>4. Top(t).depth <= MaxDepth
  BY <1>1, <1>2 DEF FrameInv
<1> DEFINE n == Top(t).n
<1>5. n \in Nat /\ n + 1 \in 0 .. MaxIterations
  <2>1. n \in 0 .. MaxIterations /\ n < MaxIterations
    BY <1>1, <1>3, Zenon
  <2> HIDE DEF n
  <2> QED
    BY <1>3, <2>1
<1> QED
  BY <1>1, <1>2, <1>4, <1>5

\* What a message says to the call that receives it.
LEMMA MessageTrue ==
    ASSUME IInv, NEW t \in Caller, InLoop(t), NEW kind, NEW m \in Received(t, kind)
    PROVE  LET f == Top(t)
               q == Qname(f)
           IN  /\ m.kind = kind
               /\ q \in Name /\ Above(q, f.name) /\ (FullName(f) => q = f.name)
               /\ kind = "referral" => m.zone \in Zone /\ Above(m.zone, f.name)
               /\ kind = "cname" => q \in DOMAIN Alias /\ m.target = Alias[q]
               /\ kind = "data" => Truth(q) = Ok(Data[q]) /\ m.data = Data[q] /\ q \in DOMAIN Data
               /\ kind = "nxdomain" => Truth(f.name) = Err("nxdomain")
<1> DEFINE f == Top(t)
           q == Qname(f)
<1>1. f.name \in Name /\ f.revealed \in Nat
  BY InLoopIs DEF Frame
<1>2. PICK s : m = Respond(s, q)
  BY DEF Received, Message
<1>3. m.kind = kind
  BY DEF Received
<1> HIDE DEF f
<1>4. q \in Name /\ Above(q, f.name) /\ (FullName(f) => q = f.name)
  BY <1>1, QnamePrefix, Zenon
<1> HIDE DEF q
<1>5. /\ m.kind = "referral" => m.zone \in Zone /\ Above(m.zone, q)
      /\ m.kind = "cname" => q \in DOMAIN Alias /\ m.target = Alias[q]
      /\ m.kind = "data" => q \notin DOMAIN Alias /\ q \in DOMAIN Data /\ m.data = Data[q]
      /\ m.kind = "nxdomain" => ~ Exists(q)
  BY <1>2, <1>4, RespondTrue, Zenon
<1>6. kind = "referral" => m.zone \in Zone /\ Above(m.zone, f.name)
  BY <1>1, <1>3, <1>4, <1>5, PrefixTrans, IterationAssumption, Zenon
<1>7. kind = "data" => Truth(q) = Ok(Data[q])
  BY <1>3, <1>5, DataTrue, Zenon
<1>8. kind = "nxdomain" => Truth(f.name) = Err("nxdomain")
  BY <1>1, <1>3, <1>4, <1>5, NxDomainTrue, Zenon
<1> QED
  BY <1>3, <1>4, <1>5, <1>6, <1>7, <1>8 DEF f, q

\* A direct answer to the full question holds the addresses of the name.
LEMMA DataMessage ==
    ASSUME IInv, NEW t \in Caller, InLoop(t), FullName(Top(t)), NEW m \in Received(t, "data")
    PROVE  LET n == Top(t).name
           IN  n \in DOMAIN Data /\ m.data = Data[n] /\ Truth(n) = Ok(Data[n])
BY MessageTrue

\* A CNAME that answers the full question is the alias of the name.
LEMMA CnameMessage ==
    ASSUME IInv, NEW t \in Caller, InLoop(t), FullName(Top(t)), NEW m \in Received(t, "cname")
    PROVE  LET n == Top(t).name
           IN  n \in DOMAIN Alias /\ m.target = Alias[n]
BY MessageTrue

\* A call fails, or finds nothing.
LEMMA FailInv ==
    ASSUME IInv, NEW t \in Caller, TooDeep(t) \/ GiveUp(t) \/ NoData(t)
    PROVE  IInv'
<1>1. stack[t] # << >> /\ result' = result /\ CachesInv'
  BY SameCaches, Zenon DEF TooDeep, GiveUp, NoData, InLoop, Running, IInv
<1>2. \E ret \in {Err("error"), Ok({})} : Continue(t, ReturnValue(Top(t), ret))
  BY Zenon DEF TooDeep, GiveUp, NoData
<1>3. \A ret \in {Err("error"), Ok({})} : ret \in Value /\ Truthful(ret, Top(t).name)
  BY DEF Err, Ok, Value, Truthful
<1> QED
  BY <1>1, <1>2, <1>3, ReturnStep, Zenon

\* NXDOMAIN is returned for the whole name.
LEMMA NxDomainInv ==
    ASSUME IInv, NEW t \in Caller, NxDomain(t)
    PROVE  IInv'
<1>1. /\ InLoop(t) /\ Received(t, "nxdomain") # {} /\ result' = result /\ CachesInv'
      /\ Continue(t, ReturnValue(Top(t), Err("nxdomain")))
  BY SameCaches, Zenon DEF NxDomain, IInv
<1>2. stack[t] # << >>
  BY <1>1, InLoopIs, Zenon
<1>3. Truth(Top(t).name) = Err("nxdomain")
  BY <1>1, MessageTrue, Zenon
<1>4. Err("nxdomain") \in Value /\ Truthful(Err("nxdomain"), Top(t).name)
  BY <1>3 DEF Err, Value, Truthful
<1> QED
  BY <1>1, <1>2, <1>4, ReturnStep

\* A call enters its loop, with the servers of a cached delegation where there is one.
LEMMA EnterInv ==
    ASSUME IInv, NEW t \in Caller, Enter(t)
    PROVE  IInv'
<1> DEFINE f == Top(t)
           known == find_cached_delegation(f.name)
           g == [f EXCEPT !.pc = "loop"]
           h == [f EXCEPT !.pc = "loop", !.servers = known, !.revealed = Len(f.name)]
<1>1. /\ stack[t] # << >> /\ result' = result /\ CachesInv' /\ CachesInv
      /\ f.depth > MaxDepth => FALSE
  BY SameCaches DEF Enter, Running, DepthExceeded, IInv
<1>2. FrameInv(f) /\ f \in Frame
  BY <1>1, TopIs, Zenon
<1>3. f.depth \in Nat /\ MaxDepth \in Nat /\ f.name \in Name /\ Len(f.name) \in Nat
  BY <1>2, IterationAssumption DEF Frame, Name
<1>4. f.depth <= MaxDepth
  BY <1>1, <1>3
<1>5. CASE Cached(f.name) = {}
  <2>1. Continue(t, g)
    BY <1>5 DEF Enter
  <2>2. /\ g \in Frame /\ g.pc = "loop" /\ g.name = f.name /\ g.depth = f.depth
        /\ g.servers = f.servers /\ g.revealed = f.revealed
    BY <1>2, Zenon DEF Frame, Pc
  <2> HIDE DEF g
  <2>3. FrameInv(g) /\ g.pc \in Active
    BY <1>2, <1>4, <2>2, LoopFrame, Zenon DEF FrameInv
  <2> QED
    BY <1>1, <2>1, <2>2, <2>3, ContinueStep
<1>6. CASE Cached(f.name) # {}
  <2>1. Continue(t, h)
    BY <1>6, Zenon DEF Enter
  <2>2. \A s \in known : Serves(s, f.name)
    BY <1>1, <1>3, <1>6, CachedServes, Zenon
  <2>3. known \subseteq Address
    BY <2>2, IterationAssumption DEF Serves
  <2> HIDE DEF known
  <2>4. /\ h \in Frame /\ h.pc = "loop" /\ h.name = f.name /\ h.depth = f.depth
        /\ h.servers = known /\ h.revealed = Len(f.name)
    BY <1>2, <1>3, <2>3, Zenon DEF Frame, Pc
  <2> HIDE DEF h
  <2>5. f.name # << >> => Len(f.name) \in 1 .. Len(f.name)
    BY <1>3 DEF Name
  <2>6. FrameInv(h) /\ h.pc \in Active
    BY <1>2, <1>4, <2>2, <2>4, <2>5, LoopFrame
  <2> QED
    BY <1>1, <2>1, <2>4, <2>6, ContinueStep
<1> QED
  BY <1>5, <1>6

\* An iteration without result.
LEMMA RetryInv ==
    ASSUME IInv, NEW t \in Caller, NoResponse(t) \/ ErrorCode(t)
    PROVE  IInv'
<1> DEFINE f == Top(t)
           g == Retry(f)
<1>1. InLoop(t) /\ Continue(t, g) /\ result' = result /\ CachesInv'
  BY SameCaches DEF NoResponse, ErrorCode, IInv
<1>2. /\ stack[t] # << >> /\ FrameInv(f) /\ f \in Frame /\ f.depth <= MaxDepth
      /\ f.n + 1 \in 0 .. MaxIterations
  BY <1>1, InLoopIs
<1>3. /\ g \in Frame /\ g.pc = "loop" /\ g.name = f.name /\ g.depth = f.depth
      /\ g.servers = f.servers /\ g.revealed = f.revealed
  BY <1>2, Zenon DEF Frame, Pc, Retry
<1> HIDE DEF g
<1>4. FrameInv(g) /\ g.pc \in Active
  BY <1>2, <1>3, LoopFrame DEF FrameInv
<1> QED
  BY <1>1, <1>2, <1>3, <1>4, ContinueStep

\* The records of the name are returned, and remembered with the servers that know.
LEMMA DirectAnswerInv ==
    ASSUME IInv, NEW t \in Caller, DirectAnswer(t)
    PROVE  IInv'
<1> DEFINE f == Top(t)
<1>1. InLoop(t) /\ FullName(f) /\ result' = result /\ CachesInv
  BY DEF DirectAnswer, IInv
<1>2. PICK m \in Received(t, "data") :
         ns_cache' = Learn(f.name, m.data) /\ Continue(t, ReturnValue(f, Ok(m.data)))
  BY DEF DirectAnswer
<1>3. stack[t] # << >> /\ FrameInv(f) /\ f.name \in Name
  BY <1>1, InLoopIs, Zenon DEF Frame
<1>4. /\ Truth(f.name) = Ok(Data[f.name]) /\ m.data = Data[f.name]
      /\ f.name \in DOMAIN Data
  BY <1>1, DataMessage, Zenon
<1>5. Ok(m.data) \in Value /\ Truthful(Ok(m.data), f.name) /\ m.data \subseteq Truth(f.name).data
  BY <1>4, IterationAssumption DEF Ok, Value, Truthful
<1>6. CachesInv'
  <2>1. \A s \in f.servers : Serves(s, f.name)
    BY <1>3 DEF FrameInv
  <2>2. delegation' = cache_delegation(f.name, f.servers)
    BY Zenon DEF DirectAnswer
  <2> DEFINE n == f.name
             v == f.servers
             d == m.data
  <2>3. /\ n \in Name /\ delegation' = cache_delegation(n, v) /\ ns_cache' = Learn(n, d)
        /\ d \subseteq Truth(n).data /\ \A s \in v : Serves(s, n)
    BY <1>2, <1>3, <1>5, <2>1, <2>2, Zenon
  <2> HIDE DEF n, v, d
  <2>4. /\ DOMAIN delegation' \subseteq Name
        /\ \A x \in DOMAIN delegation' : \A s \in delegation'[x] : Serves(s, x)
    BY <1>1, <2>3, DelegationCached, Zenon
  <2>5. \A x \in DOMAIN ns_cache' : ns_cache'[x] \subseteq Truth(x).data
    BY <1>1, <2>3, AddressCached, Zenon
  <2> QED
    BY <2>4, <2>5 DEF CachesInv
<1> DEFINE ret == Ok(m.data)
<1>7. ret \in Value /\ Truthful(ret, f.name) /\ Continue(t, ReturnValue(f, ret))
  BY <1>2, <1>5, Zenon
<1> HIDE DEF ret
<1> QED
  BY <1>1, <1>3, <1>6, <1>7, ReturnStep, Zenon

\* The innermost call waits as f for a new call of q.
LEMMA NestStep ==
    ASSUME IInv, NEW t \in Caller, InLoop(t), NEW f, FrameInv(f),
           f.name = Top(t).name, f.depth = Top(t).depth, NEW q \in Name,
           NEW minimize \in BOOLEAN,
           \/ f.pc = "cname" /\ q = Alias[f.name]
           \/ f.pc = "ns" /\ q = Glueless[f.zone],
           Nest(t, f, Call(q, Top(t).depth + 1, minimize)), result' = result,
           UNCHANGED <<delegation, ns_cache>>
    PROVE  IInv'
<1> DEFINE d == Top(t).depth + 1
           g == Call(q, d, minimize)
           st == Outer(stack[t]) \o <<f, g>>
<1>1. stack[t] # << >> /\ d \in Nat /\ d <= MaxDepth + 1 /\ d = f.depth + 1
  <2>1. stack[t] # << >> /\ Top(t) \in Frame /\ Top(t).depth <= MaxDepth
    BY InLoopIs
  <2>2. Top(t).depth \in Nat /\ MaxDepth \in Nat
    BY <2>1, IterationAssumption DEF Frame
  <2> QED
    BY <2>1, <2>2
<1>2. stack' = [stack EXCEPT ![t] = st]
  BY Zenon DEF Nest, Below
<1> HIDE DEF d
<1>3. FrameInv(g) /\ g.name = q /\ g.depth = d /\ g.pc = "enter"
  BY <1>1, NewCall
<1> HIDE DEF g
<1>4. StackInv(stack[t], result[t].name)
  BY <1>1, TopIs, Zenon
<1>5. StackInv(st, result[t].name)
  BY <1>1, <1>3, <1>4, NestInv, Zenon DEF Waits, Active, Top
<1>6. CachesInv'
  BY SameCaches, Zenon DEF IInv
<1> HIDE DEF st
<1> QED
  BY <1>2, <1>5, <1>6, StackStep, Zenon

\* A CNAME is followed.
LEMMA ChaseCnameInv ==
    ASSUME IInv, NEW t \in Caller, ChaseCname(t)
    PROVE  IInv'
<1> DEFINE f == Top(t)
           g == [f EXCEPT !.pc = "cname"]
<1>1. InLoop(t) /\ FullName(f) /\ result' = result /\ UNCHANGED <<delegation, ns_cache>>
  BY DEF ChaseCname
<1>2. PICK m \in Received(t, "cname") : Nest(t, g, Call(m.target, f.depth + 1, TRUE))
  BY Zenon DEF ChaseCname
<1>3. FrameInv(f) /\ f \in Frame /\ f.depth <= MaxDepth /\ f.n < MaxIterations
  BY <1>1, InLoopIs
<1>4. f.name \in DOMAIN Alias /\ m.target = Alias[f.name]
  BY <1>1, CnameMessage, Zenon
<1>5. m.target \in Name
  BY <1>4, IterationAssumption
<1>6. /\ g \in Frame /\ g.pc = "cname" /\ g.name = f.name /\ g.depth = f.depth
      /\ g.servers = f.servers /\ g.revealed = f.revealed /\ g.n = f.n
  BY <1>3, Zenon DEF Frame, Pc
<1> HIDE DEF g
<1>7. FrameInv(g)
  BY <1>3, <1>4, <1>6, Zenon DEF FrameInv
<1> DEFINE q == m.target
<1>8. q \in Name /\ q = Alias[g.name] /\ Nest(t, g, Call(q, f.depth + 1, TRUE))
  BY <1>2, <1>4, <1>5, <1>6, Zenon
<1> HIDE DEF q
<1> QED
  BY <1>1, <1>6, <1>7, <1>8, NestStep, Zenon

\* The addresses known for the server's name of a zone are servers of the zone.
LEMMA GlueServes ==
    ASSUME NEW z \in DOMAIN Glueless, NEW v, v \subseteq Truth(Glueless[z]).data,
           NEW n, Above(z, n)
    PROVE  z \in Zone /\ \A s \in v : Serves(s, n)
<1>1. z \in Zone /\ v \subseteq ServersOf[z]
  BY IterationAssumption, ServerNamesAssumption
<1> QED
  BY <1>1 DEF Serves

\* A referral is followed to servers of zones that the name is in.
LEMMA FollowFrame ==
    ASSUME NEW f, FrameInv(f), f.depth <= MaxDepth, f.n \in Nat, f.n < MaxIterations,
           NEW v, \A s \in v : Serves(s, f.name)
    PROVE  LET g == Follow(f, v)
           IN  /\ FrameInv(g) /\ g \in Frame /\ g.pc = "loop"
               /\ g.name = f.name /\ g.depth = f.depth /\ g.n = f.n + 1
               /\ g.servers = v /\ f.revealed <= g.revealed
<1> DEFINE r == IF f.revealed < Len(f.name) THEN f.revealed + 1 ELSE f.revealed
           n1 == f.n + 1
           g == [f EXCEPT !.pc = "loop", !.n = n1, !.servers = v, !.revealed = r]
<1>1. f \in Frame
  BY DEF FrameInv
<1>2. g = Follow(f, v)
  BY DEF Follow
<1>3. n1 \in 0 .. MaxIterations
  BY IterationAssumption
<1>4. v \subseteq Address
  BY IterationAssumption DEF Serves
<1>5. r \in Nat /\ f.revealed <= r /\ (f.name # << >> => r \in 1 .. Len(f.name))
  <2>1. f.revealed \in Nat /\ f.name \in Name /\ Len(f.name) \in Nat
    BY <1>1 DEF Frame, Name
  <2>2. f.name # << >> => f.revealed \in 1 .. Len(f.name)
    BY DEF FrameInv
  <2> DEFINE a == f.revealed
             l == Len(f.name)
  <2>3. a \in Nat /\ l \in Nat /\ (f.name # << >> => a \in 1 .. l)
    BY <2>1, <2>2
  <2>4. r = IF a < l THEN a + 1 ELSE a
    OBVIOUS
  <2> HIDE DEF a, l, r
  <2>5. r \in Nat /\ a <= r /\ (f.name # << >> => r \in 1 .. l)
    BY <2>3, <2>4
  <2> QED
    BY <2>5 DEF l, a
<1> HIDE DEF r, n1
<1>6. /\ g \in Frame /\ g.pc = "loop" /\ g.name = f.name /\ g.depth = f.depth
      /\ g.servers = v /\ g.revealed = r /\ g.n = n1
  BY <1>1, <1>3, <1>4, <1>5, Zenon DEF Frame, Pc
<1> HIDE DEF g
<1>7. FrameInv(g)
  BY <1>5, <1>6, LoopFrame
<1> QED
  BY <1>2, <1>5, <1>6, <1>7 DEF n1

\* Glue, or an address in the NS cache: the referral is followed and remembered.
LEMMA FollowReferralInv ==
    ASSUME IInv, NEW t \in Caller, FollowReferral(t)
    PROVE  IInv'
<1> DEFINE f == Top(t)
<1>1. InLoop(t) /\ result' = result /\ ns_cache' = ns_cache /\ CachesInv
  BY Zenon DEF FollowReferral, IInv
<1>2. PICK m \in Received(t, "referral") :
         LET glueless == m.zone \in DOMAIN Glueless
             servers == IF glueless THEN ns_cache[Glueless[m.zone]] ELSE ServersOf[m.zone]
         IN  /\ glueless => Glueless[m.zone] \in DOMAIN ns_cache
             /\ delegation' = cache_delegation(m.zone, servers)
             /\ Continue(t, Follow(f, servers))
  BY Zenon DEF FollowReferral
<1> DEFINE z == m.zone
           v == IF z \in DOMAIN Glueless THEN ns_cache[Glueless[z]] ELSE ServersOf[z]
           g == Follow(f, v)
<1>3. /\ z \in DOMAIN Glueless => Glueless[z] \in DOMAIN ns_cache
      /\ delegation' = cache_delegation(z, v)
      /\ Continue(t, g)
  BY <1>2, Zenon
<1>4. /\ stack[t] # << >> /\ FrameInv(f) /\ f.depth <= MaxDepth
      /\ f.n \in Nat /\ f.n < MaxIterations
  BY <1>1, InLoopIs, Zenon
<1>5. z \in Zone /\ Above(z, f.name) /\ z \in Name /\ Above(z, z)
  BY <1>1, MessageTrue, IterationAssumption, PrefixOfAll, Zenon
<1> HIDE DEF z
<1>6. (\A s \in v : Serves(s, z)) /\ (\A s \in v : Serves(s, f.name))
  <2>1. CASE z \in DOMAIN Glueless
    <3>1. v = ns_cache[Glueless[z]] /\ v \subseteq Truth(Glueless[z]).data
      BY <1>1, <1>3, <2>1, Zenon DEF CachesInv
    <3> HIDE DEF v
    <3> QED
      BY <1>5, <2>1, <3>1, GlueServes, Zenon
  <2>2. CASE z \notin DOMAIN Glueless
    BY <1>5, <2>2, Zenon DEF Serves
  <2> QED
    BY <2>1, <2>2, Zenon
<1> HIDE DEF v, f
<1>7. FrameInv(g) /\ g.pc = "loop" /\ g.name = f.name /\ g.depth = f.depth
  BY <1>4, <1>6, FollowFrame, Zenon
<1>8. CachesInv'
  <2>1. /\ DOMAIN delegation' \subseteq Name
        /\ \A x \in DOMAIN delegation' : \A s \in delegation'[x] : Serves(s, x)
    BY <1>1, <1>3, <1>5, <1>6, DelegationCached, Zenon
  <2> QED
    BY <1>1, <2>1, Zenon DEF CachesInv
<1> HIDE DEF g
<1> QED
  BY <1>1, <1>3, <1>4, <1>7, <1>8, ContinueStep DEF f, Active

\* No glue and no address: the name of the server is resolved first.
LEMMA ResolveServerNameInv ==
    ASSUME IInv, NEW t \in Caller, ResolveServerName(t)
    PROVE  IInv'
<1> DEFINE f == Top(t)
<1>1. InLoop(t) /\ result' = result /\ UNCHANGED <<delegation, ns_cache>>
  BY DEF ResolveServerName
<1>2. PICK m \in Received(t, "referral") :
         /\ m.zone \in DOMAIN Glueless
         /\ Nest(t, [f EXCEPT !.pc = "ns", !.zone = m.zone],
                    Call(Glueless[m.zone], f.depth + 1, FALSE))
  BY Zenon DEF ResolveServerName
<1> DEFINE z == m.zone
           g == [f EXCEPT !.pc = "ns", !.zone = z]
           q == Glueless[z]
<1>3. FrameInv(f) /\ f \in Frame /\ f.depth <= MaxDepth /\ f.n < MaxIterations
  BY <1>1, InLoopIs
<1>4. z \in DOMAIN Glueless /\ z \in Name /\ Above(z, f.name)
  BY <1>1, <1>2, MessageTrue, IterationAssumption
<1>5. q \in Name /\ Nest(t, g, Call(q, f.depth + 1, FALSE))
  BY <1>2, IterationAssumption, Zenon
<1> HIDE DEF z
<1>6. /\ g \in Frame /\ g.pc = "ns" /\ g.name = f.name /\ g.depth = f.depth /\ g.zone = z
      /\ g.servers = f.servers /\ g.revealed = f.revealed /\ g.n = f.n
  BY <1>3, <1>4, Zenon DEF Frame, Pc
<1> HIDE DEF g
<1>7. FrameInv(g)
  BY <1>3, <1>4, <1>6 DEF FrameInv
<1>8. q = Glueless[g.zone]
  BY <1>6
<1> HIDE DEF q
<1> QED
  BY <1>1, <1>5, <1>6, <1>7, <1>8, NestStep, Zenon

\* The shortened name is a host: its addresses are remembered, and the whole name
\* is asked for.
LEMMA RevealFullNameInv ==
    ASSUME IInv, NEW t \in Caller, RevealFullName(t)
    PROVE  IInv'
<1> DEFINE f == Top(t)
           g == [Retry(f) EXCEPT !.revealed = Len(f.name)]
           n1 == f.n + 1
           l == Len(f.name)
           h == [f EXCEPT !.pc = "loop", !.n = n1, !.revealed = l]
<1>1. /\ InLoop(t) /\ result' = result /\ delegation' = delegation /\ CachesInv
      /\ Continue(t, g)
  BY DEF RevealFullName, IInv
<1>2. /\ stack[t] # << >> /\ FrameInv(f) /\ f \in Frame /\ f.depth <= MaxDepth
      /\ n1 \in 0 .. MaxIterations
  BY <1>1, InLoopIs, Zenon
<1>3. l \in Nat /\ (f.name # << >> => l \in 1 .. l)
  BY <1>2 DEF Frame, Name
<1>4. g = h
  BY <1>2 DEF Retry, Frame
<1> HIDE DEF l, n1
<1>5. /\ h \in Frame /\ h.pc = "loop" /\ h.name = f.name /\ h.depth = f.depth
      /\ h.servers = f.servers /\ h.revealed = l
  BY <1>2, <1>3 DEF Frame, Pc
<1> HIDE DEF g, h
<1>6. FrameInv(h) /\ h.pc \in Active
  BY <1>2, <1>3, <1>5, LoopFrame, Zenon DEF FrameInv, l
<1>7. CachesInv'
  <2>1. CASE \E m \in Received(t, "data") : ns_cache' = Learn(Qname(f), m.data)
    <3>1. PICK m \in Received(t, "data") : ns_cache' = Learn(Qname(f), m.data)
      BY <2>1
    <3> DEFINE q == Qname(f)
               d == m.data
    <3>2. Truth(q) = Ok(Data[q]) /\ d = Data[q]
      BY <1>1, MessageTrue, Zenon
    <3>3. d \subseteq Truth(q).data
      BY <3>2, SMTT(30) DEF Ok
    <3> HIDE DEF q, d
    <3>4. \A x \in DOMAIN ns_cache' : ns_cache'[x] \subseteq Truth(x).data
      BY <1>1, <3>1, <3>3, AddressCached DEF q, d
    <3> QED
      BY <1>1, <3>4 DEF CachesInv
  <2>2. CASE UNCHANGED ns_cache
    BY <1>1, <2>2, SameCaches, Zenon
  <2> QED
    BY <2>1, <2>2, Zenon DEF RevealFullName
<1> QED
  BY <1>1, <1>2, <1>4, <1>5, <1>6, <1>7, ContinueStep

\* A call that has returned, and the one that waits for it.
LEMMA ReturnedIs ==
    ASSUME IInv, NEW t \in Caller, NEW pc, Returned(t, pc)
    PROVE  /\ StackInv(stack[t], result[t].name) /\ Len(stack[t]) > 1
           /\ FrameInv(Waiter(t)) /\ Waiter(t).pc = pc /\ Waits(Waiter(t), Top(t))
           /\ Top(t).depth = Waiter(t).depth + 1 /\ Top(t).pc = "return"
           /\ Top(t).ret \in Value /\ Truthful(Top(t).ret, Top(t).name)
<1> DEFINE st == stack[t]
           k == Len(st) - 1
<1>1. st # << >> /\ Len(st) > 1 /\ Waiter(t).pc = pc /\ Top(t).pc = "return"
  BY Zenon DEF Returned, Running
<1>2. StackInv(st, result[t].name) /\ FrameInv(Top(t)) /\ Top(t) \in Frame
  BY <1>1, TopIs, Zenon
<1>3. st \in Seq(Frame) /\ Len(st) \in Nat
  BY <1>2 DEF StackInv
<1>4. k \in 1 .. Len(st) /\ k \in 1 .. Len(st) - 1 /\ k + 1 = Len(st)
  BY <1>1, <1>3
<1>5. Waiter(t) = st[k] /\ Top(t) = st[k + 1]
  <2>1. Len(Outer(st)) = k /\ \A i \in 1 .. k : Outer(st)[i] = st[i]
    BY <1>1, <1>3, OuterIs
  <2>2. k \in 1 .. k
    BY <1>4, Zenon
  <2> QED
    BY <1>4, <2>1, <2>2 DEF Waiter, Below, Top, Innermost
<1>6. FrameInv(st[k]) /\ Waits(st[k], st[k + 1])
  BY <1>2, <1>4, Zenon DEF StackInv
<1>7. Top(t).ret \in Value /\ Truthful(Top(t).ret, Top(t).name)
  BY <1>1, <1>2, Zenon DEF FrameInv, Frame
<1>8. st[k + 1].depth = st[k].depth + 1
  <2>1. k + 1 \in 1 .. Len(st)
    BY <1>3, <1>4
  <2>2. st[k].depth = k - 1 /\ st[k + 1].depth = k + 1 - 1
    BY <1>2, <1>4, <2>1 DEF StackInv
  <2> QED
    BY <1>3, <1>4, <2>2
<1> QED
  BY <1>1, <1>2, <1>5, <1>6, <1>7, <1>8, Zenon

\* The call that waits goes on as f.
LEMMA ResumeStep ==
    ASSUME IInv, NEW t \in Caller, NEW pc, Returned(t, pc), NEW f, FrameInv(f),
           f.name = Waiter(t).name, f.depth = Waiter(t).depth, f.pc \in Active,
           Resume(t, f), result' = result, CachesInv'
    PROVE  IInv'
<1> DEFINE st == Append(Outer(Outer(stack[t])), f)
<1>1. StackInv(stack[t], result[t].name) /\ Len(stack[t]) > 1
  BY ReturnedIs
<1>2. StackInv(st, result[t].name)
  BY <1>1, ResumeInv, Zenon DEF Waiter, Below
<1>3. stack' = [stack EXCEPT ![t] = st]
  BY Zenon DEF Resume, Below
<1> HIDE DEF st
<1> QED
  BY <1>2, <1>3, StackStep, Zenon

\* What the target of a CNAME has is returned for the alias.
LEMMA ReturnCnameInv ==
    ASSUME IInv, NEW t \in Caller, ReturnCname(t)
    PROVE  IInv'
<1> DEFINE w == Waiter(t)
           ret == Top(t).ret
           g == ReturnValue(w, ret)
<1>1. /\ Returned(t, "cname") /\ Resume(t, g) /\ result' = result /\ ns_cache' = ns_cache
      /\ delegation' = delegation \/ delegation' = cache_delegation(w.name, w.servers)
      /\ CachesInv
  BY DEF ReturnCname, IInv
<1>2. /\ FrameInv(w) /\ w.pc = "cname" /\ Waits(w, Top(t))
      /\ ret \in Value /\ Truthful(ret, Top(t).name)
  BY <1>1, ReturnedIs, Zenon
<1>3. w.name \in DOMAIN Alias /\ Top(t).name = Alias[w.name]
  BY <1>2, Zenon DEF Waits, FrameInv
<1>4. Truthful(ret, w.name)
  BY <1>2, <1>3, TruthOfAlias, Zenon DEF Truthful
<1>5. w.name \in Name /\ \A s \in w.servers : Serves(s, w.name)
  BY <1>2, Zenon DEF FrameInv, Frame
<1> HIDE DEF w, ret
<1>6. FrameInv(g) /\ g.pc \in Active /\ g.name = w.name /\ g.depth = w.depth
  BY <1>2, <1>4, ReturnFrame
<1>7. CachesInv'
  <2>1. CASE delegation' = delegation
    BY <1>1, <2>1, SameCaches, Zenon
  <2>2. CASE delegation' = cache_delegation(w.name, w.servers)
    <3> DEFINE n == w.name
               v == w.servers
    <3>1. n \in Name /\ delegation' = cache_delegation(n, v) /\ \A s \in v : Serves(s, n)
      BY <1>5, <2>2
    <3> HIDE DEF n, v
    <3>2. /\ DOMAIN delegation' \subseteq Name
          /\ \A x \in DOMAIN delegation' : \A s \in delegation'[x] : Serves(s, x)
      BY <1>1, <3>1, DelegationCached
    <3> QED
      BY <1>1, <3>2, Zenon DEF CachesInv
  <2> QED
    BY <1>1, <2>1, <2>2
<1> HIDE DEF g
<1> QED
  BY <1>1, <1>6, <1>7, ResumeStep, Zenon DEF w

\* The address of a server was found, and its referral is followed; or it was not,
\* and the loop goes on.
LEMMA ReturnServerNameInv ==
    ASSUME IInv, NEW t \in Caller, ReturnServerName(t)
    PROVE  IInv'
<1> DEFINE w == Waiter(t)
           z == w.zone
           q == Glueless[z]
           v == Top(t).ret.data
<1>1. Returned(t, "ns") /\ result' = result /\ CachesInv
  BY Zenon DEF ReturnServerName, IInv
<1>2. /\ FrameInv(w) /\ w.pc = "ns" /\ Waits(w, Top(t))
      /\ Top(t).ret \in Value /\ Truthful(Top(t).ret, Top(t).name)
  BY <1>1, ReturnedIs
<1>3. /\ w \in Frame /\ w.depth <= MaxDepth /\ w.n < MaxIterations
      /\ z \in DOMAIN Glueless /\ Above(z, w.name) /\ Top(t).name = q
  BY <1>2, Zenon DEF FrameInv, Waits
<1>4. w.n \in Nat /\ z \in Name /\ w.name \in Name /\ Above(z, z) /\ << >> \in Name
  BY <1>3, PrefixOfAll DEF Frame
<1>5. v # {} => v \subseteq Truth(q).data
  BY <1>2, <1>3 DEF Truthful
<1>6. CASE v # {}
  <2> DEFINE g == Follow(w, v)
             h == [g EXCEPT !.zone = << >>]
  <2>1. /\ ns_cache' = With(ns_cache, q, v)
        /\ delegation' = cache_delegation(z, v)
        /\ Resume(t, h)
    BY <1>6, Zenon DEF ReturnServerName
  <2> HIDE DEF v, w
  <2>2. (\A s \in v : Serves(s, z)) /\ (\A s \in v : Serves(s, w.name))
    BY <1>3, <1>4, <1>5, <1>6, GlueServes, Zenon
  <2>3. /\ FrameInv(g) /\ g \in Frame /\ g.pc = "loop" /\ g.name = w.name
        /\ g.depth = w.depth
    <3>1. FrameInv(w) /\ w.depth <= MaxDepth /\ w.n \in Nat /\ w.n < MaxIterations
      BY <1>2, <1>3, <1>4, Zenon
    <3>2. \A s \in v : Serves(s, w.name)
      BY <2>2, Zenon
    <3> QED
      BY <3>1, <3>2, FollowFrame, Zenon
  <2> HIDE DEF g
  <2>4. /\ h \in Frame /\ h.pc = "loop" /\ h.name = w.name /\ h.depth = w.depth
        /\ h.servers = g.servers /\ h.revealed = g.revealed
    BY <1>4, <2>3 DEF Frame
  <2> HIDE DEF h
  <2>5. FrameInv(h) /\ h.pc \in Active
    BY <1>3, <2>3, <2>4, LoopFrame, Zenon DEF FrameInv
  <2>6. CachesInv'
    <3> HIDE DEF q, z
    <3>1. /\ DOMAIN delegation' \subseteq Name
          /\ \A x \in DOMAIN delegation' : \A s \in delegation'[x] : Serves(s, x)
      BY <1>1, <1>4, <2>1, <2>2, DelegationCached, Zenon
    <3>2. \A x \in DOMAIN ns_cache' : ns_cache'[x] \subseteq Truth(x).data
      BY <1>1, <1>5, <1>6, <2>1, AddressCached
    <3> QED
      BY <3>1, <3>2, Zenon DEF CachesInv
  <2> QED
    BY <1>1, <2>1, <2>4, <2>5, <2>6, ResumeStep, Zenon DEF w
<1>7. CASE v = {}
  <2> DEFINE n1 == w.n + 1
             g == [w EXCEPT !.pc = "loop", !.n = n1, !.zone = << >>]
  <2>1. Resume(t, [Retry(w) EXCEPT !.zone = << >>]) /\ UNCHANGED <<ns_cache, delegation>>
    BY <1>7 DEF ReturnServerName
  <2>2. [Retry(w) EXCEPT !.zone = << >>] = g
    BY <1>3 DEF Retry, Frame
  <2>3. n1 \in 0 .. MaxIterations
    BY <1>3, <1>4, IterationAssumption
  <2> HIDE DEF n1
  <2>4. /\ g \in Frame /\ g.pc = "loop" /\ g.name = w.name /\ g.depth = w.depth
        /\ g.servers = w.servers /\ g.revealed = w.revealed
    BY <1>3, <1>4, <2>3 DEF Frame, Pc
  <2>5. Resume(t, g)
    BY <2>1, <2>2
  <2> HIDE DEF g
  <2>6. FrameInv(g) /\ g.pc \in Active
    BY <1>2, <1>3, <2>4, LoopFrame, Zenon DEF FrameInv
  <2>7. CachesInv'
    BY <1>1, <2>1, SameCaches, Zenon
  <2> QED
    BY <1>1, <2>4, <2>5, <2>6, <2>7, ResumeStep
<1> QED
  BY <1>6, <1>7

\* A resolution starts with one call of resolve_recursive.
LEMMA AskInv ==
    ASSUME IInv, NEW t \in Caller, NEW q \in Question, Ask(t, q)
    PROVE  IInv'
<1> DEFINE c == Call(q, 0, TRUE)
           st == <<c>>
           none == NoResult
           r == [name |-> q, ret |-> none]
<1>1. /\ stack' = [stack EXCEPT ![t] = st] /\ result' = [result EXCEPT ![t] = r]
      /\ UNCHANGED <<delegation, ns_cache>>
  BY DEF Ask
<1>2. q \in Name /\ 0 \in Nat /\ 0 <= MaxDepth + 1
  BY IterationAssumption
<1>3. FrameInv(c) /\ c.name = q /\ c.depth = 0 /\ c.pc = "enter"
  BY <1>2, NewCall, Zenon
<1>4. none \in Value /\ Truthful(none, q)
  BY DEF NoResult, Value, Truthful
<1> HIDE DEF none, c
<1>5. /\ st \in Seq(Frame) /\ Len(st) = 1 /\ st[1] = c /\ st # << >>
  BY <1>3 DEF FrameInv
<1> HIDE DEF st
<1>6. StackInv(st, q)
  BY <1>3, <1>5 DEF StackInv, Active
<1>7. r \in [name : Name, ret : Value] /\ r.name = q /\ r.ret = none
  BY <1>2, <1>4, Zenon
<1> HIDE DEF r
<1>8. /\ stack' \in [Caller -> Seq(Frame)] /\ stack'[t] = st
      /\ result' \in [Caller -> [name : Name, ret : Value]] /\ result'[t] = r
      /\ \A u \in Caller \ {t} : stack'[u] = stack[u] /\ result'[u] = result[u]
  BY <1>1, <1>5, <1>7, Zenon DEF IInv
<1>9. ASSUME NEW u \in Caller
      PROVE  StackInv(stack[u], result[u].name)' /\ Truthful(result[u].ret, result[u].name)'
  <2>1. PICK x, n, v : x = stack'[u] /\ n = result'[u].name /\ v = result'[u].ret
    OBVIOUS
  <2>2. StackInv(x, n) /\ Truthful(v, n)
    <3>1. CASE u = t
      BY <1>4, <1>6, <1>7, <1>8, <2>1, <3>1
    <3>2. CASE u # t
      <4>1. x = stack[u] /\ n = result[u].name /\ v = result[u].ret
        BY <1>8, <2>1, <3>2
      <4> QED
        BY <4>1 DEF IInv
    <3> QED
      BY <3>1, <3>2, Zenon
  <2> QED
    BY <2>1, <2>2 DEF StackInv, Truthful
<1>10. CachesInv'
  BY <1>1, SameCaches DEF IInv
<1> QED
  BY <1>8, <1>9, <1>10 DEF IInv

\* The outermost call returns its value to the caller.
LEMMA DeliverInv ==
    ASSUME IInv, NEW t \in Caller, Deliver(t)
    PROVE  IInv'
<1> DEFINE f == Top(t)
           r == [result[t] EXCEPT !.ret = f.ret]
<1>1. /\ stack' = [stack EXCEPT ![t] = << >>] /\ result' = [result EXCEPT ![t] = r]
      /\ UNCHANGED <<delegation, ns_cache>>
      /\ stack[t] # << >> /\ Len(stack[t]) = 1 /\ f.pc = "return"
  BY DEF Deliver, Running
<1>2. StackInv(stack[t], result[t].name) /\ FrameInv(f) /\ f \in Frame
  BY <1>1, TopIs
<1>3. f.name = result[t].name
  BY <1>1, <1>2 DEF StackInv, Top, Innermost
<1>4. Truthful(f.ret, f.name) /\ f.ret \in Value
  BY <1>1, <1>2 DEF FrameInv, Frame
<1>5. r \in [name : Name, ret : Value] /\ r.name = result[t].name /\ r.ret = f.ret
  BY <1>4, Zenon DEF IInv
<1> HIDE DEF r, f
<1>6. << >> \in Seq(Frame) /\ \A q : StackInv(<< >>, q)
  BY DEF StackInv
<1>7. /\ stack' \in [Caller -> Seq(Frame)] /\ stack'[t] = << >>
      /\ result' \in [Caller -> [name : Name, ret : Value]] /\ result'[t] = r
      /\ \A u \in Caller \ {t} : stack'[u] = stack[u] /\ result'[u] = result[u]
  BY <1>1, <1>5, <1>6, Zenon DEF IInv
<1>8. ASSUME NEW u \in Caller
      PROVE  StackInv(stack[u], result[u].name)' /\ Truthful(result[u].ret, result[u].name)'
  <2>1. PICK x, n, v : x = stack'[u] /\ n = result'[u].name /\ v = result'[u].ret
    OBVIOUS
  <2>2. StackInv(x, n) /\ Truthful(v, n)
    <3>1. CASE u = t
      BY <1>3, <1>4, <1>5, <1>6, <1>7, <2>1, <3>1
    <3>2. CASE u # t
      <4>1. x = stack[u] /\ n = result[u].name /\ v = result[u].ret
        BY <1>7, <2>1, <3>2
      <4> QED
        BY <4>1, Zenon DEF IInv
    <3> QED
      BY <3>1, <3>2, Zenon
  <2> QED
    BY <2>1, <2>2 DEF StackInv, Truthful
<1>9. CachesInv'
  BY <1>1, SameCaches, Zenon DEF IInv
<1> QED
  BY <1>7, <1>8, <1>9 DEF IInv

-----------------------------------------------------------------------------
(***************************************************************************)
(* The invariant, and what follows from it.                                *)
(***************************************************************************)
\* Empty caches, and no resolution.
LEMMA InitInv ==
    ASSUME Init
    PROVE  IInv
<1>1. CachesInv
  BY DEF Init, Empty, CachesInv
<1>2. << >> \in Seq(Frame) /\ \A q : StackInv(<< >>, q)
  BY DEF StackInv
<1>3. NoResult \in Value /\ << >> \in Name /\ Truthful(NoResult, << >>)
  BY DEF NoResult, Value, Name, Truthful
<1> DEFINE none == NoResult
<1>4. /\ none \in Value /\ Truthful(none, << >>)
      /\ result = [t \in Caller |-> [name |-> << >>, ret |-> none]]
  BY <1>3 DEF Init
<1> HIDE DEF none
<1>5. /\ result \in [Caller -> [name : Name, ret : Value]]
      /\ \A t \in Caller : result[t].name = << >> /\ result[t].ret = none
  BY <1>3, <1>4
<1>6. stack \in [Caller -> Seq(Frame)] /\ \A t \in Caller : stack[t] = << >>
  BY <1>2 DEF Init
<1> QED
  BY <1>1, <1>2, <1>4, <1>5, <1>6 DEF IInv

\* Nothing happens.
LEMMA StutterInv ==
    ASSUME IInv, UNCHANGED vars
    PROVE  IInv'
BY Zenon DEF IInv, vars, CachesInv, StackInv, Truthful

\* The invariant holds in every state of every set of concurrent resolutions, in
\* every name space, whatever the servers refuse, fail to answer or the caches drop.
THEOREM Inductive == Spec => []IInv
<1>1. Init => IInv
  BY InitInv
<1>2. IInv /\ [Next]_vars => IInv'
  <2>1. SUFFICES ASSUME IInv, [Next]_vars
                 PROVE  IInv'
    OBVIOUS
  <2>2. ASSUME NEW t \in Caller, Step(t)
        PROVE  IInv'
    BY <2>1, <2>2, FailInv, EnterInv, RetryInv, NxDomainInv, DirectAnswerInv, ChaseCnameInv,
       FollowReferralInv, ResolveServerNameInv, RevealFullNameInv, ReturnCnameInv,
       ReturnServerNameInv, DeliverInv DEF Step
  <2>3. CASE \E t \in Caller, q \in Question : Ask(t, q)
    BY <2>1, <2>3, AskInv
  <2>4. CASE Forget
    BY <2>1, <2>4, ForgetInv
  <2>5. CASE UNCHANGED vars
    BY <2>1, <2>5, StutterInv
  <2> QED
    BY <2>1, <2>2, <2>3, <2>4, <2>5 DEF Next
<1> QED
  BY <1>1, <1>2, PTL DEF Spec

\* Addresses that are returned, and NXDOMAIN, are what the name space says: whatever
\* was cached by whom, however CNAMEs and server names lead across zones, and also
\* when the answer was to a shortened name.
THEOREM AnswersCorrect == Spec => []AnswersTrue
<1>1. IInv => AnswersTrue
  BY Zenon DEF IInv, AnswersTrue, Truthful
<1> QED
  BY <1>1, Inductive, PTL

\* No delegation is cached with servers that have no business with the name.
THEOREM DelegationsCorrect == Spec => []DelegationSound
<1>1. IInv => DelegationSound
  BY Zenon DEF IInv, CachesInv, DelegationSound, Serves
<1> QED
  BY <1>1, Inductive, PTL

\* What the name space says of a name are addresses.
LEMMA TruthTyped ==
    ASSUME NEW q
    PROVE  Truth(q).data \subseteq Address
<1> DEFINE n == CHOOSE n \in Ends(q) : TRUE
<1>1. n \in DOMAIN Data => Data[n] \subseteq Address
  BY IterationAssumption, Zenon
<1>2. Truth(q) \in {Err("error"), Ok({}), Err("nxdomain")} \/ (n \in DOMAIN Data /\ Truth(q) = Ok(Data[n]))
  BY Zenon DEF Truth
<1> HIDE DEF n
<1> QED
  BY <1>1, <1>2 DEF Ok, Err

\* Calls are nested at most MAX_CNAME_DEPTH + 2 deep, each within its budget of
\* iterations and within the labels of its name.
THEOREM TypeCorrect == Spec => []TypeOK
<1>1. IInv => TypeOK
  <2>1. SUFFICES ASSUME IInv
                 PROVE  TypeOK
    OBVIOUS
  <2>2. \A n \in DOMAIN delegation : delegation[n] \subseteq Address
    BY <2>1, IterationAssumption, Zenon DEF IInv, CachesInv, Serves
  <2>3. \A n \in DOMAIN ns_cache : ns_cache[n] \subseteq Address
    BY <2>1, TruthTyped DEF IInv, CachesInv
  <2>4. ASSUME NEW t \in Caller
        PROVE  Len(stack[t]) <= MaxDepth + 2
    <3> DEFINE st == stack[t]
               k == Len(st)
    <3>1. st \in Seq(Frame) /\ StackInv(st, result[t].name) /\ k \in Nat /\ MaxDepth \in Nat
      BY <2>1, IterationAssumption DEF IInv
    <3>2. CASE k = 0
      BY <3>1, <3>2
    <3>3. CASE k # 0
      <4>1. k \in 1 .. Len(st)
        BY <3>1, <3>3
      <4>2. FrameInv(st[k]) /\ st[k].depth = k - 1
        BY <3>1, <4>1, Zenon DEF StackInv
      <4>3. k - 1 <= MaxDepth + 1
        BY <4>2 DEF FrameInv
      <4> HIDE DEF k
      <4>4. k <= MaxDepth + 2
        BY <3>1, <4>3, SMTT(30)
      <4> QED
        BY <4>4 DEF k
    <3> QED
      BY <3>2, <3>3, Zenon
  <2>5. ASSUME NEW t \in Caller, NEW i \in DOMAIN stack[t]
        PROVE  LET f == stack[t][i]
               IN  /\ f.pc \in {"enter", "loop", "cname", "ns", "return"}
                   /\ f.depth = i - 1
                   /\ f.n \in 0 .. MaxIterations
                   /\ f.name # << >> => f.revealed \in 1 .. Len(f.name)
    <3> DEFINE f == stack[t][i]
    <3>1. stack[t] \in Seq(Frame) /\ StackInv(stack[t], result[t].name)
      BY <2>1 DEF IInv
    <3>2. i \in 1 .. Len(stack[t])
      BY <3>1
    <3>3. FrameInv(f) /\ f.depth = i - 1
      BY <3>1, <3>2 DEF StackInv
    <3> HIDE DEF f
    <3>4. f \in Frame /\ (f.name # << >> => f.revealed \in 1 .. Len(f.name))
      BY <3>3 DEF FrameInv
    <3>5. f.pc \in Pc /\ f.n \in 0 .. MaxIterations
      BY <3>4, Zenon DEF Frame
    <3> QED
      BY <3>3, <3>4, <3>5 DEF f, Pc
  <2> QED
    BY <2>2, <2>3, <2>4, <2>5 DEF TypeOK
<1> QED
  BY <1>1, Inductive, PTL

-----------------------------------------------------------------------------
(***************************************************************************)
(* What a step does to a call.  A call asks servers of zones that the      *)
(* name it sends is in, the shortened one (Qname): a referral is to a zone *)
(* above that name, and a cached delegation is used with the full name.    *)
(* This is inductive beside IInv, and so is that a call moves downwards in *)
(* Rank.                                                                   *)
(***************************************************************************)
Asks(f) ==
    /\ \A s \in f.servers : Serves(s, Qname(f))
    /\ f.pc = "ns" => Above(f.zone, Qname(f))

Moves(f, g) == g \in Frame /\ Rank(g) < Rank(f) /\ (Asks(f) => Asks(g))

\* The rank of a call by where it stands.
LEMMA RankMoves ==
    ASSUME NEW f \in Frame, NEW g \in Frame,
           \/ f.pc \in {"enter", "loop", "cname"} /\ g.pc = "return"
           \/ f.pc = "enter" /\ g.pc = "loop"
           \/ f.pc \in {"loop", "ns"} /\ g.pc = "loop" /\ g.n = f.n + 1
           \/ f.pc = "loop" /\ g.pc \in {"cname", "ns"} /\ g.n = f.n
    PROVE  Rank(g) < Rank(f)
<1> DEFINE a == f.n
           b == g.n
           M == MaxIterations
<1>1. M \in Nat /\ a \in 0 .. M /\ b \in 0 .. M
  BY IterationAssumption, Zenon DEF Frame
<1>2. /\ f.pc = "enter" => Rank(f) = 2 * M + 3
      /\ f.pc = "loop" => Rank(f) = 2 * (M - a) + 2
      /\ f.pc \in {"cname", "ns"} => Rank(f) = 2 * (M - a) + 1
  BY DEF Rank
<1>3. /\ g.pc = "return" => Rank(g) = 0
      /\ g.pc = "loop" => Rank(g) = 2 * (M - b) + 2
      /\ g.pc \in {"cname", "ns"} => Rank(g) = 2 * (M - b) + 1
  BY DEF Rank
<1> HIDE DEF a, b, M
<1>4. CASE f.pc \in {"enter", "loop", "cname"} /\ g.pc = "return"
  BY <1>1, <1>2, <1>3, <1>4
<1>5. CASE f.pc = "enter" /\ g.pc = "loop"
  BY <1>1, <1>2, <1>3, <1>5
<1>6. CASE f.pc \in {"loop", "ns"} /\ g.pc = "loop" /\ g.n = f.n + 1
  <2>1. b = a + 1
    BY <1>6 DEF a, b
  <2> QED
    BY <1>1, <1>2, <1>3, <1>6, <2>1
<1>7. CASE f.pc = "loop" /\ g.pc \in {"cname", "ns"} /\ g.n = f.n
  <2>1. b = a
    BY <1>7, Zenon DEF a, b
  <2> QED
    BY <1>1, <1>2, <1>3, <1>7, <2>1
<1> QED
  BY <1>4, <1>5, <1>6, <1>7, Zenon

\* More labels, and the same name or one below it.
LEMMA QnameGrows ==
    ASSUME NEW f \in Frame, NEW g \in Frame, g.name = f.name, f.revealed <= g.revealed
    PROVE  /\ Qname(f) \in Name /\ Qname(g) \in Name
           /\ Above(Qname(f), Qname(g))
<1> DEFINE name == f.name
           a == f.revealed
           b == g.revealed
<1>1. name \in Name /\ a \in Nat /\ b \in Nat /\ Len(name) \in Nat /\ a <= b
  BY DEF Frame, Name
<1>2. /\ Qname(f) = IF a < Len(name) THEN SubSeq(name, 1, a) ELSE name
      /\ Qname(g) = IF b < Len(name) THEN SubSeq(name, 1, b) ELSE name
  BY <1>1 DEF Qname, name_prefix
<1>3. Qname(f) \in Name /\ Qname(g) \in Name /\ Above(Qname(f), name)
  BY <1>1, QnamePrefix
<1> HIDE DEF name, a, b
<1>4. CASE b < Len(name)
  <2> DEFINE p == SubSeq(name, 1, a)
             q == SubSeq(name, 1, b)
  <2>1. /\ p \in Name /\ Len(p) = a /\ \A i \in 1 .. a : p[i] = name[i]
        /\ q \in Name /\ Len(q) = b /\ \A i \in 1 .. b : q[i] = name[i]
    BY <1>1, <1>4 DEF Name
  <2>2. Qname(f) = p /\ Qname(g) = q
    BY <1>1, <1>2, <1>4
  <2> HIDE DEF p, q
  <2>3. Above(p, q)
    BY <1>1, <2>1, PrefixIs
  <2> QED
    BY <1>3, <2>2, <2>3
<1>5. CASE ~ (b < Len(name))
  BY <1>2, <1>3, <1>5
<1> QED
  BY <1>4, <1>5

\* A server of a zone that a name is in serves the names below as well.
LEMMA ServesBelow ==
    ASSUME NEW a \in Name, NEW b \in Name, Above(a, b), NEW s, Serves(s, a)
    PROVE  Serves(s, b)
<1>1. PICK z \in Zone : s \in ServersOf[z] /\ Above(z, a)
  BY Zenon DEF Serves
<1>2. z \in Name
  BY IterationAssumption, Zenon
<1>3. Above(z, b)
  BY <1>1, <1>2, PrefixTrans, Zenon
<1> QED
  BY <1>1, <1>3, Zenon DEF Serves

\* The same servers are asked for as many labels or more.
LEMMA AsksMore ==
    ASSUME NEW f \in Frame, NEW g \in Frame, Asks(f), g.name = f.name,
           g.servers = f.servers, f.revealed <= g.revealed, g.pc # "ns"
    PROVE  Asks(g)
<1>1. /\ Qname(f) \in Name /\ Qname(g) \in Name
      /\ Above(Qname(f), Qname(g))
  BY QnameGrows, Zenon
<1>2. \A s \in g.servers : Serves(s, Qname(f))
  BY Zenon DEF Asks
<1> DEFINE a == Qname(f)
           b == Qname(g)
<1> HIDE DEF a, b
<1>3. \A s \in g.servers : Serves(s, b)
  BY <1>1, <1>2, ServesBelow DEF a, b
<1> QED
  BY <1>3 DEF Asks, b

\* A call returns.
LEMMA ReturnMoves ==
    ASSUME NEW f \in Frame, f.pc \in {"enter", "loop", "cname"}, NEW ret \in Value
    PROVE  Moves(f, ReturnValue(f, ret))
<1> DEFINE g == ReturnValue(f, ret)
<1>1. /\ g \in Frame /\ g.pc = "return" /\ g.name = f.name /\ g.servers = f.servers
      /\ g.revealed = f.revealed
  BY Zenon DEF ReturnValue, Frame, Pc
<1>2. f.revealed \in Nat
  BY DEF Frame
<1> HIDE DEF g
<1>3. Rank(g) < Rank(f)
  BY <1>1, RankMoves
<1>4. f.revealed <= g.revealed /\ g.pc # "ns"
  BY <1>1, <1>2
<1>5. Asks(f) => Asks(g)
  BY <1>1, <1>4, AsksMore
<1> QED
  BY <1>1, <1>3, <1>5 DEF Moves, g

\* A new call asks the root.
LEMMA NewCallAsks ==
    ASSUME NEW q \in Name, NEW d \in Nat, d <= MaxDepth + 1, NEW minimize \in BOOLEAN
    PROVE  Call(q, d, minimize) \in Frame /\ Asks(Call(q, d, minimize))
<1> DEFINE c == Call(q, d, minimize)
<1>1. c \in Frame /\ c.pc = "enter"
  BY NewCall DEF FrameInv
<1>2. c.servers = ServersOf[<< >>]
  BY Zenon DEF Call, initial_root_addrs
<1> HIDE DEF c
<1>3. Qname(c) \in Name
  BY <1>1, QnamePrefix, Zenon DEF Frame
<1>4. Above(<< >>, Qname(c)) /\ << >> \in Zone
  BY <1>3, PrefixOfAll, IterationAssumption
<1>5. Asks(c)
  BY <1>1, <1>2, <1>4 DEF Asks, Serves
<1> QED
  BY <1>1, <1>5, Zenon DEF c

\* The calls st of a resolution become nx: the innermost call goes on, with a call
\* of its own or without, or the one that waited for it does.
Advances(st, nx) ==
    \E g \in Frame :
        \/ Moves(Innermost(st), g) /\ nx = Append(Outer(st), g)
        \/ \E h \in Frame : Moves(Innermost(st), g) /\ Asks(h) /\ nx = Outer(st) \o <<g, h>>
        \/ Len(st) > 1 /\ Moves(Innermost(Outer(st)), g) /\ nx = Append(Outer(Outer(st)), g)

\* The innermost call goes on.
LEMMA ContinueAdvances ==
    ASSUME IInv, NEW t \in Caller, NEW g, Moves(Top(t), g), Continue(t, g)
    PROVE  Advances(stack[t], stack'[t])
<1>1. stack'[t] = Append(Outer(stack[t]), g)
  BY DEF IInv, Continue, Below
<1>2. g \in Frame
  BY Zenon DEF Moves
<1> QED
  BY <1>1, <1>2, Zenon DEF Advances, Top

\* The innermost call waits for a new one.
LEMMA NestAdvances ==
    ASSUME IInv, NEW t \in Caller, NEW g, NEW h \in Frame, Moves(Top(t), g), Asks(h),
           Nest(t, g, h)
    PROVE  Advances(stack[t], stack'[t])
<1>1. stack'[t] = Outer(stack[t]) \o <<g, h>>
  BY DEF IInv, Nest, Below
<1>2. g \in Frame
  BY DEF Moves
<1> QED
  BY <1>1, <1>2, Zenon DEF Advances, Top

\* The call that waited goes on.
LEMMA ResumeAdvances ==
    ASSUME IInv, NEW t \in Caller, NEW g, Len(stack[t]) > 1, Moves(Waiter(t), g),
           Resume(t, g)
    PROVE  Advances(stack[t], stack'[t])
<1>1. stack'[t] = Append(Outer(Outer(stack[t])), g)
  BY DEF IInv, Resume, Below
<1>2. g \in Frame
  BY Zenon DEF Moves
<1> QED
  BY <1>1, <1>2 DEF Advances, Waiter, Below

\* A call that returns is at its end.
LEMMA ReturnAdvances ==
    ASSUME IInv, NEW t \in Caller,
           TooDeep(t) \/ GiveUp(t) \/ NoData(t) \/ NxDomain(t) \/ DirectAnswer(t)
    PROVE  Advances(stack[t], stack'[t])
<1>1. stack[t] # << >> /\ Top(t).pc \in {"enter", "loop", "cname"}
  BY Zenon DEF TooDeep, GiveUp, NoData, NxDomain, DirectAnswer, InLoop, Running
<1>2. Top(t) \in Frame
  BY <1>1, TopIs, Zenon
<1>3. PICK ret \in Value : Continue(t, ReturnValue(Top(t), ret))
  <2>1. CASE DirectAnswer(t)
    <3>1. InLoop(t)
      BY <2>1 DEF DirectAnswer
    <3>2. PICK m \in Received(t, "data") : Continue(t, ReturnValue(Top(t), Ok(m.data)))
      BY <2>1 DEF DirectAnswer
    <3>3. Qname(Top(t)) \in DOMAIN Data /\ m.data = Data[Qname(Top(t))]
      BY <3>1, MessageTrue, Zenon
    <3>4. Ok(m.data) \in Value
      BY <3>3, IterationAssumption, Zenon DEF Ok, Value
    <3> QED
      BY <3>2, <3>4, Zenon
  <2>2. CASE ~ DirectAnswer(t)
    <3>1. \E ret \in {Err("error"), Ok({}), Err("nxdomain")} :
             Continue(t, ReturnValue(Top(t), ret))
      BY <2>2, Zenon DEF TooDeep, GiveUp, NoData, NxDomain
    <3>2. {Err("error"), Ok({}), Err("nxdomain")} \subseteq Value
      BY SMTT(30) DEF Err, Ok, Value
    <3> QED
      BY <3>1, <3>2, Zenon
  <2> QED
    BY <2>1, <2>2
<1> DEFINE f == Top(t)
           g == ReturnValue(f, ret)
<1>4. f \in Frame /\ f.pc \in {"enter", "loop", "cname"} /\ Continue(t, g)
  BY <1>1, <1>2, <1>3
<1> HIDE DEF f
<1>5. Moves(f, g)
  BY <1>4, ReturnMoves
<1> HIDE DEF g
<1> QED
  BY <1>4, <1>5, ContinueAdvances DEF f

\* A call that enters its loop asks the root for a part of the name, or the servers
\* of a cached delegation for all of it.
LEMMA EnterAdvances ==
    ASSUME IInv, NEW t \in Caller, Enter(t)
    PROVE  Advances(stack[t], stack'[t])
<1> DEFINE f == Top(t)
           known == find_cached_delegation(f.name)
           g == [f EXCEPT !.pc = "loop"]
           l == Len(f.name)
           h == [f EXCEPT !.pc = "loop", !.servers = known, !.revealed = l]
<1>1. stack[t] # << >> /\ f.pc = "enter" /\ CachesInv
  BY DEF Enter, Running, IInv
<1>2. f \in Frame
  BY <1>1, TopIs
<1>3. f.name \in Name /\ l \in Nat /\ f.revealed \in Nat
  BY <1>2 DEF Frame, Name
<1>4. CASE Cached(f.name) = {}
  <2>1. Continue(t, g)
    BY <1>4 DEF Enter
  <2> HIDE DEF f
  <2>2. /\ g \in Frame /\ g.pc = "loop" /\ g.name = f.name /\ g.servers = f.servers
        /\ g.revealed = f.revealed
    BY <1>2 DEF Frame, Pc
  <2> HIDE DEF g
  <2>3. Rank(g) < Rank(f)
    BY <1>1, <1>2, <2>2, RankMoves
  <2>4. f.revealed <= g.revealed /\ g.pc # "ns"
    BY <1>3, <2>2
  <2>5. Moves(f, g)
    BY <1>2, <2>2, <2>3, <2>4, AsksMore DEF Moves
  <2> QED
    BY <2>1, <2>5, ContinueAdvances DEF f
<1>5. CASE Cached(f.name) # {}
  <2>1. Continue(t, h)
    BY <1>5 DEF Enter
  <2>2. \A s \in known : Serves(s, f.name)
    BY <1>1, <1>3, <1>5, CachedServes
  <2>3. known \subseteq Address
    BY <2>2, IterationAssumption DEF Serves
  <2> HIDE DEF known, l, f
  <2>4. /\ h \in Frame /\ h.pc = "loop" /\ h.name = f.name /\ h.servers = known
        /\ h.revealed = l
    BY <1>2, <1>3, <2>3, Zenon DEF Frame, Pc
  <2> HIDE DEF h
  <2>5. Rank(h) < Rank(f)
    BY <1>1, <1>2, <2>4, RankMoves, Zenon
  <2>6. Qname(h) = f.name
    BY <1>3, <2>4 DEF Qname, l
  <2>7. Moves(f, h)
    BY <2>2, <2>4, <2>5, <2>6 DEF Moves, Asks
  <2> QED
    BY <2>1, <2>7, ContinueAdvances DEF f
<1> QED
  BY <1>4, <1>5

\* An iteration without result costs one, and so does the step to the full name.
LEMMA RetryAdvances ==
    ASSUME IInv, NEW t \in Caller, NoResponse(t) \/ ErrorCode(t) \/ RevealFullName(t)
    PROVE  Advances(stack[t], stack'[t])
<1> DEFINE f == Top(t)
           n1 == f.n + 1
           l == Len(f.name)
           a == f.revealed
<1>1. InLoop(t)
  BY Zenon DEF NoResponse, ErrorCode, RevealFullName
<1>2. /\ stack[t] # << >> /\ FrameInv(f) /\ f \in Frame /\ f.pc = "loop"
      /\ n1 \in 0 .. MaxIterations
  BY <1>1, InLoopIs
<1>3. l \in Nat /\ a \in Nat
  BY <1>2 DEF Frame, Name
<1>4. PICK r \in Nat : a <= r /\ Continue(t, [f EXCEPT !.pc = "loop", !.n = n1, !.revealed = r])
  <2>1. CASE NoResponse(t) \/ ErrorCode(t)
    <3>1. Continue(t, Retry(f))
      BY <2>1 DEF NoResponse, ErrorCode
    <3>2. Retry(f) = [f EXCEPT !.pc = "loop", !.n = n1, !.revealed = a]
      BY <1>2 DEF Retry, Frame
    <3>3. a <= a
      BY <1>3
    <3> QED
      BY <1>3, <3>1, <3>2, <3>3, Zenon
  <2>2. CASE RevealFullName(t)
    <3>1. Continue(t, [Retry(f) EXCEPT !.revealed = l]) /\ ~ FullName(f)
      BY <2>2 DEF RevealFullName
    <3>2. [Retry(f) EXCEPT !.revealed = l] = [f EXCEPT !.pc = "loop", !.n = n1, !.revealed = l]
      BY <1>2 DEF Retry, Frame
    <3>3. a <= l
      BY <1>3, <3>1 DEF FullName
    <3> QED
      BY <1>3, <3>1, <3>2, <3>3, Zenon
  <2> QED
    BY <2>1, <2>2, Zenon
<1> DEFINE g == [f EXCEPT !.pc = "loop", !.n = n1, !.revealed = r]
<1>5. Continue(t, g)
  BY <1>4
<1>6. f.n + 1 = n1 /\ f.revealed = a
  OBVIOUS
<1> HIDE DEF n1, a, f
<1>7. /\ g \in Frame /\ g.pc = "loop" /\ g.name = f.name /\ g.servers = f.servers
      /\ g.revealed = r /\ g.n = n1
  BY <1>2, Zenon DEF Frame, Pc
<1> HIDE DEF g
<1>8. Rank(g) < Rank(f)
  BY <1>2, <1>6, <1>7, RankMoves, Zenon
<1>9. f.revealed <= g.revealed /\ g.pc # "ns"
  BY <1>4, <1>6, <1>7
<1>10. Moves(f, g)
  BY <1>2, <1>7, <1>8, <1>9, AsksMore, Zenon DEF Moves
<1> QED
  BY <1>5, <1>10, ContinueAdvances DEF f

\* A CNAME is followed by a new call.
LEMMA ChaseAdvances ==
    ASSUME IInv, NEW t \in Caller, ChaseCname(t)
    PROVE  Advances(stack[t], stack'[t])
<1> DEFINE f == Top(t)
           g == [f EXCEPT !.pc = "cname"]
<1>1. InLoop(t) /\ FullName(f)
  BY Zenon DEF ChaseCname
<1>2. PICK m \in Received(t, "cname") : Nest(t, g, Call(m.target, f.depth + 1, TRUE))
  BY Zenon DEF ChaseCname
<1>3. f \in Frame /\ f.pc = "loop" /\ f.depth <= MaxDepth
  BY <1>1, InLoopIs, Zenon
<1> DEFINE q == m.target
           d == f.depth + 1
           h == Call(q, d, TRUE)
<1>4. q \in Name
  <2>1. Qname(f) \in DOMAIN Alias /\ m.target = Alias[Qname(f)]
    BY <1>1, MessageTrue, Zenon
  <2>2. \A n \in DOMAIN Alias : Alias[n] \in Name
    BY IterationAssumption, Zenon
  <2> QED
    BY <2>1, <2>2, Zenon
<1>5. d \in Nat /\ d <= MaxDepth + 1 /\ f.revealed \in Nat
  BY <1>3, IterationAssumption DEF Frame
<1>6. Nest(t, g, h)
  BY <1>2, Zenon
<1> HIDE DEF q, d, f
<1>7. h \in Frame /\ Asks(h)
  BY <1>4, <1>5, NewCallAsks, Zenon
<1> HIDE DEF h
<1>8. /\ g \in Frame /\ g.pc = "cname" /\ g.name = f.name /\ g.servers = f.servers
      /\ g.revealed = f.revealed /\ g.n = f.n
  BY <1>3 DEF Frame, Pc
<1> HIDE DEF g
<1>9. Rank(g) < Rank(f)
  BY <1>3, <1>8, RankMoves
<1>10. f.revealed <= g.revealed /\ g.pc # "ns"
  BY <1>5, <1>8
<1>11. Moves(f, g)
  BY <1>3, <1>8, <1>9, <1>10, AsksMore, Zenon DEF Moves
<1> QED
  BY <1>6, <1>7, <1>11, NestAdvances DEF f

\* A referral is to a zone above the name that was sent.
LEMMA ReferralAbove ==
    ASSUME IInv, NEW t \in Caller, InLoop(t), NEW m \in Received(t, "referral")
    PROVE  m.zone \in Zone /\ m.zone \in Name /\ Above(m.zone, Qname(Top(t)))
<1> DEFINE q == Qname(Top(t))
<1>1. PICK s : m = Respond(s, q)
  BY DEF Received, Message
<1>2. m.kind = "referral"
  BY DEF Received
<1>3. q \in Name
  BY InLoopIs, QnamePrefix, Zenon DEF Frame
<1> HIDE DEF q
<1>4. m.zone \in Zone /\ Above(m.zone, q)
  BY <1>1, <1>2, <1>3, RespondTrue, Zenon
<1> QED
  BY <1>4, IterationAssumption DEF q

\* Following a referral costs an iteration, and leads to servers of zones that the
\* name sent next is in.
LEMMA FollowMoves ==
    ASSUME NEW f \in Frame, f.pc \in {"loop", "ns"}, f.n \in Nat, f.n < MaxIterations,
           NEW v, \A s \in v : Serves(s, Qname(f))
    PROVE  LET g == Follow(f, v)
           IN  /\ g \in Frame /\ g.pc = "loop" /\ g.n = f.n + 1
               /\ Rank(g) < Rank(f) /\ Asks(g)
<1> DEFINE r == IF f.revealed < Len(f.name) THEN f.revealed + 1 ELSE f.revealed
           n1 == f.n + 1
           g == [f EXCEPT !.pc = "loop", !.n = n1, !.servers = v, !.revealed = r]
<1>1. g = Follow(f, v)
  BY Zenon DEF Follow
<1>2. n1 \in 0 .. MaxIterations /\ f.n + 1 = n1
  BY IterationAssumption
<1>3. v \subseteq Address
  BY IterationAssumption DEF Serves
<1>4. r \in Nat /\ f.revealed <= r
  BY DEF Frame
<1> HIDE DEF r, n1
<1>5. /\ g \in Frame /\ g.pc = "loop" /\ g.name = f.name /\ g.servers = v
      /\ g.revealed = r /\ g.n = n1
  BY <1>2, <1>3, <1>4, Zenon DEF Frame, Pc
<1> HIDE DEF g
<1>6. Rank(g) < Rank(f)
  BY <1>2, <1>5, RankMoves, Zenon
<1>7. /\ Qname(f) \in Name /\ Qname(g) \in Name
      /\ Above(Qname(f), Qname(g))
  BY <1>4, <1>5, QnameGrows
<1> DEFINE a == Qname(f)
           b == Qname(g)
<1> HIDE DEF a, b
<1>8. \A s \in v : Serves(s, b)
  BY <1>7, ServesBelow, Zenon DEF a, b
<1>9. Asks(g)
  BY <1>5, <1>8, Zenon DEF Asks, b
<1> QED
  BY <1>1, <1>2, <1>5, <1>6, <1>9

\* A referral with glue or a known address is followed.
LEMMA ReferralAdvances ==
    ASSUME IInv, NEW t \in Caller, FollowReferral(t)
    PROVE  Advances(stack[t], stack'[t])
<1> DEFINE f == Top(t)
<1>1. InLoop(t) /\ CachesInv
  BY Zenon DEF FollowReferral, IInv
<1>2. PICK m \in Received(t, "referral") :
         LET glueless == m.zone \in DOMAIN Glueless
             servers == IF glueless THEN ns_cache[Glueless[m.zone]] ELSE ServersOf[m.zone]
         IN  /\ glueless => Glueless[m.zone] \in DOMAIN ns_cache
             /\ Continue(t, Follow(f, servers))
  BY Zenon DEF FollowReferral
<1> DEFINE z == m.zone
           v == IF z \in DOMAIN Glueless THEN ns_cache[Glueless[z]] ELSE ServersOf[z]
           g == Follow(f, v)
           q == Qname(f)
<1>3. (z \in DOMAIN Glueless => Glueless[z] \in DOMAIN ns_cache) /\ Continue(t, g)
  BY <1>2, Zenon
<1>4. f \in Frame /\ f.pc = "loop" /\ f.n \in Nat /\ f.n < MaxIterations
  BY <1>1, InLoopIs
<1>5. z \in Zone /\ Above(z, q)
  BY <1>1, ReferralAbove
<1> HIDE DEF z, q
<1>6. \A s \in v : Serves(s, q)
  <2>1. CASE z \in DOMAIN Glueless
    <3>1. v \subseteq Truth(Glueless[z]).data
      BY <1>1, <1>3, <2>1 DEF CachesInv
    <3> HIDE DEF v
    <3> QED
      BY <1>5, <2>1, <3>1, GlueServes, Zenon
  <2>2. CASE z \notin DOMAIN Glueless
    BY <1>5, <2>2 DEF Serves
  <2> QED
    BY <2>1, <2>2, Zenon
<1> HIDE DEF v, f
<1>7. g \in Frame /\ Rank(g) < Rank(f) /\ Asks(g)
  BY <1>4, <1>6, FollowMoves DEF q
<1> HIDE DEF g
<1>8. Moves(f, g)
  BY <1>7, Zenon DEF Moves
<1> QED
  BY <1>3, <1>8, ContinueAdvances, Zenon DEF f

\* A referral without an address waits for a new call, and knows its zone.
LEMMA ServerNameAdvances ==
    ASSUME IInv, NEW t \in Caller, ResolveServerName(t)
    PROVE  Advances(stack[t], stack'[t])
<1> DEFINE f == Top(t)
<1>1. InLoop(t)
  BY Zenon DEF ResolveServerName
<1>2. PICK m \in Received(t, "referral") :
         /\ m.zone \in DOMAIN Glueless
         /\ Nest(t, [f EXCEPT !.pc = "ns", !.zone = m.zone],
                    Call(Glueless[m.zone], f.depth + 1, FALSE))
  BY Zenon DEF ResolveServerName
<1> DEFINE z == m.zone
           g == [f EXCEPT !.pc = "ns", !.zone = z]
           q == Glueless[z]
           d == f.depth + 1
           h == Call(q, d, FALSE)
<1>3. f \in Frame /\ f.pc = "loop" /\ f.depth <= MaxDepth
  BY <1>1, InLoopIs
<1>4. z \in Name /\ Above(z, Qname(f))
  BY <1>1, ReferralAbove
<1>5. q \in Name /\ Nest(t, g, h)
  BY <1>2, IterationAssumption, Zenon
<1>6. d \in Nat /\ d <= MaxDepth + 1
  BY <1>3, IterationAssumption DEF Frame
<1> HIDE DEF q, d, f, z
<1>7. h \in Frame /\ Asks(h)
  BY <1>5, <1>6, NewCallAsks, Zenon
<1> HIDE DEF h
<1>8. /\ g \in Frame /\ g.pc = "ns" /\ g.name = f.name /\ g.servers = f.servers
      /\ g.revealed = f.revealed /\ g.n = f.n /\ g.zone = z
  BY <1>3, <1>4, Zenon DEF Frame, Pc
<1> HIDE DEF g
<1>9. Rank(g) < Rank(f)
  BY <1>3, <1>8, RankMoves, Zenon
<1>10. Qname(g) = Qname(f)
  BY <1>8, Zenon DEF Qname
<1>11. Moves(f, g)
  BY <1>4, <1>8, <1>9, <1>10, Zenon DEF Moves, Asks
<1> QED
  BY <1>5, <1>7, <1>11, NestAdvances DEF f

\* The call that waited for a CNAME's target returns.
LEMMA ReturnCnameAdvances ==
    ASSUME IInv, NEW t \in Caller, ReturnCname(t)
    PROVE  Advances(stack[t], stack'[t])
<1> DEFINE w == Waiter(t)
           ret == Top(t).ret
           g == ReturnValue(w, ret)
<1>1. Returned(t, "cname") /\ Resume(t, g)
  BY DEF ReturnCname
<1>2. w \in Frame /\ w.pc = "cname" /\ ret \in Value /\ Len(stack[t]) > 1
  BY <1>1, ReturnedIs, Zenon DEF FrameInv
<1> HIDE DEF w, ret
<1>3. Moves(w, g)
  BY <1>2, ReturnMoves
<1> HIDE DEF g
<1> QED
  BY <1>1, <1>2, <1>3, ResumeAdvances DEF w

\* The call that waited for a server's address goes on, with it or without.
LEMMA ReturnServerNameAdvances ==
    ASSUME IInv, NEW t \in Caller, ReturnServerName(t)
    PROVE  Advances(stack[t], stack'[t])
<1> DEFINE w == Waiter(t)
           z == w.zone
           v == Top(t).ret.data
           n1 == w.n + 1
<1>1. Returned(t, "ns")
  BY Zenon DEF ReturnServerName
<1>2. /\ FrameInv(w) /\ w.pc = "ns" /\ Waits(w, Top(t)) /\ Len(stack[t]) > 1
      /\ Truthful(Top(t).ret, Top(t).name)
  BY <1>1, ReturnedIs
<1>3. /\ w \in Frame /\ w.n < MaxIterations /\ z \in DOMAIN Glueless
      /\ Top(t).name = Glueless[z]
  BY <1>2, Zenon DEF FrameInv, Waits
<1>4. w.n \in Nat /\ << >> \in Name /\ z \in Name /\ w.revealed \in Nat
  BY <1>3 DEF Frame, Name
<1>5. v # {} => v \subseteq Truth(Glueless[z]).data
  BY <1>2, <1>3, Zenon DEF Truthful
<1>6. n1 \in 0 .. MaxIterations /\ n1 = w.n + 1
  BY <1>3, <1>4, IterationAssumption, SMTT(30)
<1>7. CASE v # {}
  <2> DEFINE r == IF w.revealed < Len(w.name) THEN w.revealed + 1 ELSE w.revealed
             h == [w EXCEPT !.pc = "loop", !.n = n1, !.servers = v, !.revealed = r,
                            !.zone = << >>]
  <2>1. Resume(t, [Follow(w, v) EXCEPT !.zone = << >>])
    BY <1>7 DEF ReturnServerName
  <2>2. [Follow(w, v) EXCEPT !.zone = << >>] = h
    BY <1>3 DEF Follow, Frame
  <2>3. v \subseteq Address
    BY <1>5, <1>7, TruthTyped, Zenon
  <2>4. r \in Nat /\ w.revealed <= r
    BY <1>3 DEF Frame
  <2>5. Resume(t, h)
    BY <2>1, <2>2
  <2> HIDE DEF w, v, n1, r
  <2>6. /\ h \in Frame /\ h.pc = "loop" /\ h.name = w.name /\ h.servers = v
        /\ h.revealed = r /\ h.n = n1
    BY <1>3, <1>4, <1>6, <2>3, <2>4, Zenon DEF Frame, Pc
  <2> HIDE DEF h
  <2>7. Rank(h) < Rank(w)
    BY <1>2, <1>3, <1>6, <2>6, RankMoves
  <2>8. ASSUME Asks(w)
        PROVE  Asks(h)
    <3>1. /\ Qname(w) \in Name /\ Qname(h) \in Name
          /\ Above(Qname(w), Qname(h))
      BY <1>3, <2>4, <2>6, QnameGrows, Zenon
    <3>2. Above(z, Qname(w))
      BY <1>2, <2>8, Zenon DEF Asks
    <3> DEFINE a == Qname(w)
               b == Qname(h)
    <3> HIDE DEF a, b, z
    <3>3. \A s \in v : Serves(s, a)
      BY <1>3, <1>5, <1>7, <3>2, GlueServes DEF a
    <3>4. \A s \in v : Serves(s, b)
      BY <3>1, <3>3, ServesBelow DEF a, b
    <3> QED
      BY <2>6, <3>4, Zenon DEF Asks, b
  <2>9. Moves(w, h)
    BY <2>6, <2>7, <2>8 DEF Moves
  <2> QED
    BY <1>2, <2>5, <2>9, ResumeAdvances DEF w
<1>8. CASE v = {}
  <2> DEFINE g == [w EXCEPT !.pc = "loop", !.n = n1, !.zone = << >>]
  <2>1. Resume(t, [Retry(w) EXCEPT !.zone = << >>])
    BY <1>8 DEF ReturnServerName
  <2>2. [Retry(w) EXCEPT !.zone = << >>] = g
    BY <1>3 DEF Retry, Frame
  <2>3. Resume(t, g)
    BY <2>1, <2>2
  <2> HIDE DEF n1, w
  <2>4. /\ g \in Frame /\ g.pc = "loop" /\ g.name = w.name /\ g.servers = w.servers
        /\ g.revealed = w.revealed /\ g.n = n1
    BY <1>3, <1>4, <1>6, Zenon DEF Frame, Pc
  <2> HIDE DEF g
  <2>5. Rank(g) < Rank(w)
    BY <1>2, <1>3, <1>6, <2>4, RankMoves
  <2>6. w.revealed <= g.revealed /\ g.pc # "ns"
    BY <1>4, <2>4
  <2>7. Moves(w, g)
    BY <1>3, <2>4, <2>5, <2>6, AsksMore, Zenon DEF Moves
  <2> QED
    BY <1>2, <2>3, <2>7, ResumeAdvances DEF w
<1> QED
  BY <1>7, <1>8

\* The calls of a resolution all ask servers of zones that the name sent is in.
AllAsk(st) == \A i \in 1 .. Len(st) : Asks(st[i])

\* Call k goes on, the ones outside it stay and the ones inside it are new.
LEMMA ReplacedIs ==
    ASSUME NEW st \in Seq(Frame), NEW nx \in Seq(Frame), NEW k \in 1 .. Len(st), Len(nx) >= k,
           \A j \in 1 .. k - 1 : nx[j] = st[j], Moves(st[k], nx[k]),
           \A j \in k + 1 .. Len(nx) : Asks(nx[j])
    PROVE  Spent(st, nx) /\ (AllAsk(st) => AllAsk(nx))
<1>1. Spent(st, nx)
  <2>1. Len(nx) >= k - 1 /\ Rank(nx[k]) < Rank(st[k])
    BY DEF Moves
  <2> QED
    BY <2>1, Zenon DEF Spent
<1>2. ASSUME AllAsk(st), NEW i \in 1 .. Len(nx)
      PROVE  Asks(nx[i])
  <2>1. CASE i < k
    <3>1. i \in 1 .. k - 1 /\ i \in 1 .. Len(st)
      BY <2>1
    <3> QED
      BY <1>2, <3>1 DEF AllAsk
  <2>2. CASE i = k
    BY <1>2, <2>2 DEF AllAsk, Moves
  <2>3. CASE i > k
    <3>1. i \in k + 1 .. Len(nx)
      BY <2>3
    <3> QED
      BY <3>1
  <2> QED
    BY <2>1, <2>2, <2>3
<1> QED
  BY <1>1, <1>2, Zenon DEF AllAsk

\* What a step of a resolution does to its calls.
LEMMA AdvanceIs ==
    ASSUME NEW st \in Seq(Frame), st # << >>, NEW nx, Advances(st, nx)
    PROVE  Spent(st, nx) /\ (AllAsk(st) => AllAsk(nx))
<1>1. PICK g \in Frame :
         \/ Moves(Innermost(st), g) /\ nx = Append(Outer(st), g)
         \/ \E h \in Frame : Moves(Innermost(st), g) /\ Asks(h) /\ nx = Outer(st) \o <<g, h>>
         \/ /\ Len(st) > 1 /\ Moves(Innermost(Outer(st)), g)
            /\ nx = Append(Outer(Outer(st)), g)
  BY Zenon DEF Advances
<1>2. CASE Moves(Innermost(st), g) /\ nx = Append(Outer(st), g)
  <2> DEFINE k == Len(st)
  <2>1. /\ k \in Nat /\ k >= 1 /\ Innermost(st) = st[k] /\ nx \in Seq(Frame)
        /\ Len(nx) = k /\ nx[k] = g /\ \A j \in 1 .. k - 1 : nx[j] = st[j]
    BY <1>2, AppendedIs, Zenon
  <2>2. k \in 1 .. Len(st) /\ Len(nx) >= k /\ \A j \in k + 1 .. Len(nx) : Asks(nx[j])
    BY <2>1
  <2>3. Moves(st[k], nx[k])
    BY <1>2, <2>1, Zenon
  <2> HIDE DEF k
  <2> QED
    BY <2>1, <2>2, <2>3, ReplacedIs, Zenon
<1>3. CASE \E h \in Frame : Moves(Innermost(st), g) /\ Asks(h) /\ nx = Outer(st) \o <<g, h>>
  <2> DEFINE k == Len(st)
  <2>1. PICK h \in Frame : /\ Moves(Innermost(st), g) /\ Asks(h)
                           /\ nx = Nested(st, g, h)
    BY <1>3, Zenon DEF Nested
  <2>2. /\ k \in Nat /\ k >= 1 /\ Innermost(st) = st[k] /\ nx \in Seq(Frame)
        /\ Len(nx) = k + 1 /\ nx[k] = g /\ nx[k + 1] = h
        /\ \A j \in 1 .. k - 1 : nx[j] = st[j]
    <3>1. IsNested(nx, st, g, h)
      BY <2>1, NestedIs, Zenon
    <3> QED
      BY <3>1 DEF IsNested
  <2>3. k \in 1 .. Len(st) /\ Len(nx) >= k /\ \A j \in k + 1 .. Len(nx) : Asks(nx[j])
    BY <2>1, <2>2
  <2>4. Moves(st[k], nx[k])
    BY <2>1, <2>2, Zenon
  <2> HIDE DEF k
  <2> QED
    BY <2>2, <2>3, <2>4, ReplacedIs, Zenon
<1>4. CASE Len(st) > 1 /\ Moves(Innermost(Outer(st)), g) /\ nx = Append(Outer(Outer(st)), g)
  <2> DEFINE k == Len(st) - 1
  <2>1. /\ k \in Nat /\ k >= 1 /\ k + 1 = Len(st) /\ Innermost(Outer(st)) = st[k]
        /\ nx \in Seq(Frame) /\ Len(nx) = k /\ nx[k] = g
        /\ \A j \in 1 .. k - 1 : nx[j] = st[j]
    BY <1>4, ResumedIs, Zenon
  <2>2. k \in 1 .. Len(st) /\ Len(nx) >= k /\ \A j \in k + 1 .. Len(nx) : Asks(nx[j])
    BY <2>1
  <2>3. Moves(st[k], nx[k])
    BY <1>4, <2>1, Zenon
  <2> HIDE DEF k
  <2> QED
    BY <2>1, <2>2, <2>3, ReplacedIs, Zenon
<1> QED
  BY <1>1, <1>2, <1>3, <1>4, Zenon

\* The step of a resolution, and the other resolutions beside it.
LEMMA StepAdvances ==
    ASSUME IInv, NEW t \in Caller, Step(t)
    PROVE  /\ stack[t] # << >>
           /\ stack'[t] = << >> \/ Advances(stack[t], stack'[t])
           /\ \A u \in Caller \ {t} : stack'[u] = stack[u]
<1>1. stack[t] # << >>
  BY Zenon DEF Step, TooDeep, Enter, GiveUp, NoResponse, ErrorCode, NxDomain, DirectAnswer,
     ChaseCname, FollowReferral, ResolveServerName, NoData, RevealFullName, ReturnCname,
     ReturnServerName, Deliver, Returned, InLoop, Running
<1>2. \E st : stack' = [stack EXCEPT ![t] = st]
  BY Zenon DEF Step, TooDeep, Enter, GiveUp, NoResponse, ErrorCode, NxDomain, DirectAnswer,
     ChaseCname, FollowReferral, ResolveServerName, NoData, RevealFullName, ReturnCname,
     ReturnServerName, Deliver, Continue, Nest, Resume
<1>3. \A u \in Caller \ {t} : stack'[u] = stack[u]
  BY <1>2 DEF IInv
<1>4. Deliver(t) => stack'[t] = << >>
  BY DEF Deliver, IInv
<1>5. ~ Deliver(t) => Advances(stack[t], stack'[t])
  BY ReturnAdvances, EnterAdvances, RetryAdvances, ChaseAdvances, ReferralAdvances,
     ServerNameAdvances, ReturnCnameAdvances, ReturnServerNameAdvances, Zenon DEF Step
<1> QED
  BY <1>1, <1>3, <1>4, <1>5

\* Every step of a resolution spends some of its budget, whatever servers answer or
\* fail to, and whatever other resolutions have left in the caches.
THEOREM BudgetNeverReturned == Spec => BudgetSpent
<1>1. ASSUME IInv, [Next]_vars, NEW t \in Caller, stack[t] # << >>, stack'[t] # stack[t]
      PROVE  Spent(stack[t], stack'[t])
  <2>1. stack[t] \in Seq(Frame)
    BY <1>1, Zenon DEF IInv
  <2>2. PICK u \in Caller : Step(u) \/ \E q \in Question : Ask(u, q)
    BY <1>1, Zenon DEF Next, Forget, vars
  <2>3. CASE Step(u)
    <3>1. u = t /\ (stack'[t] = << >> \/ Advances(stack[t], stack'[t]))
      BY <1>1, <2>3, StepAdvances, Zenon
    <3>2. PICK st, nx : st = stack[t] /\ nx = stack'[t]
      OBVIOUS
    <3>3. st \in Seq(Frame) /\ st # << >> /\ Len(st) \in Nat /\ 1 \in 1 .. Len(st)
      BY <1>1, <2>1, <3>2
    <3>4. CASE nx = << >>
      <4>1. Len(nx) = 0
        BY <3>4, Zenon
      <4> QED
        BY <3>2, <3>3, <4>1 DEF Spent
    <3>5. CASE Advances(st, nx)
      BY <3>2, <3>3, <3>5, AdvanceIs, Zenon
    <3> QED
      BY <3>1, <3>2, <3>4, <3>5, Zenon
  <2>4. CASE \E q \in Question : Ask(u, q)
    BY <1>1, <2>4, Zenon DEF Ask, IInv
  <2> QED
    BY <2>2, <2>3, <2>4, Zenon
<1>2. IInv /\ [Next]_vars
      => [\A t \in Caller : stack[t] # << >> /\ stack'[t] # stack[t] => Spent(stack[t], stack'[t])]_vars
  BY <1>1, Zenon
<1> QED
  BY <1>2, Inductive, PTL DEF Spec, BudgetSpent

\* The calls of all resolutions ask servers that serve the name sent to them.
AskInvariant == \A t \in Caller : AllAsk(stack[t])

\* What is asked stays in the right place.
LEMMA AskInvariantStep ==
    ASSUME IInv, AskInvariant, [Next]_vars
    PROVE  AskInvariant'
<1>1. ASSUME NEW t \in Caller
      PROVE  AllAsk(stack[t])'
  <2>1. PICK st, nx : st = stack[t] /\ nx = stack'[t]
    OBVIOUS
  <2>2. st \in Seq(Frame) /\ AllAsk(st)
    BY <2>1 DEF IInv, AskInvariant
  <2>3. AllAsk(nx)
    <3>1. CASE nx = st
      BY <2>2, <3>1
    <3>2. CASE nx = << >>
      BY <3>2 DEF AllAsk
    <3>3. CASE nx # st /\ nx # << >>
      <4>1. PICK u \in Caller : Step(u) \/ \E q \in Question : Ask(u, q)
        BY <2>1, <3>3 DEF Next, Forget, vars
      <4>2. CASE Step(u)
        <5>1. st # << >> /\ Advances(st, nx)
          BY <2>1, <3>3, <4>2, StepAdvances
        <5> QED
          BY <2>2, <5>1, AdvanceIs, Zenon
      <4>3. CASE \E q \in Question : Ask(u, q)
        <5>1. PICK q \in Question : Ask(u, q)
          BY <4>3, Zenon
        <5> DEFINE c == Call(q, 0, TRUE)
        <5>2. u = t /\ nx = <<c>>
          BY <2>1, <3>3, <5>1, Zenon DEF Ask, IInv
        <5>3. q \in Name /\ 0 \in Nat /\ 0 <= MaxDepth + 1
          BY IterationAssumption
        <5>4. Asks(c)
          BY <5>3, NewCallAsks, Zenon
        <5> HIDE DEF c
        <5> QED
          BY <5>2, <5>4 DEF AllAsk
      <4> QED
        BY <4>1, <4>2, <4>3
    <3> QED
      BY <3>1, <3>2, <3>3
  <2> QED
    BY <2>1, <2>3 DEF AllAsk
<1> QED
  BY <1>1 DEF AskInvariant

\* A server of a zone that the name is in does not refuse it, unless it is lame.
LEMMA ServerAnswers ==
    ASSUME Lame = {}, NEW q \in Name, NEW s, Serves(s, q)
    PROVE  Respond(s, q).kind # "refused"
<1> DEFINE zs == {z \in Zone : s \in ServersOf[z] /\ Above(z, q)}
           last == CHOOSE z \in zs : \A y \in zs : Len(y) <= Len(z)
<1>1. zs # {}
  BY DEF Serves
<1>2. Apex(s, q) = {last}
  BY <1>1 DEF Apex
<1> HIDE DEF zs, last
<1>3. ~ (s \in Lame \/ Apex(s, q) = {})
  BY <1>2
<1> DEFINE z == CHOOSE z \in Apex(s, q) : TRUE
           c == CHOOSE c \in Cut(z, q) : TRUE
<1> DEFINE m == Respond(s, q)
<1>4. \/ m = [kind |-> "referral", zone |-> c]
      \/ m = [kind |-> "cname", target |-> Alias[q]]
      \/ m = [kind |-> "data", data |-> Data[q]]
      \/ m = [kind |-> "nodata"]
      \/ m = [kind |-> "nxdomain"]
  BY <1>3, Zenon DEF Respond
<1> HIDE DEF z, c, m
<1>5. m.kind \in {"referral", "cname", "data", "nodata", "nxdomain"}
  <2>1. CASE m = [kind |-> "referral", zone |-> c]
    BY <2>1, Zenon
  <2>2. CASE m = [kind |-> "cname", target |-> Alias[q]]
    BY <2>2, Zenon
  <2>3. CASE m = [kind |-> "data", data |-> Data[q]]
    BY <2>3, Zenon
  <2>4. CASE m = [kind |-> "nodata"]
    BY <2>4, Zenon
  <2>5. CASE m = [kind |-> "nxdomain"]
    BY <2>5, Zenon
  <2> QED
    BY <1>4, <2>1, <2>2, <2>3, <2>4, <2>5, Zenon
<1> QED
  BY <1>5, Zenon DEF m

\* Where no server is lame, none that is asked refuses, in any name space: referrals,
\* shortened names and cached delegations lead to servers of the name that is sent.
THEOREM NeverRefused == Spec => []NoServerRefuses
<1>1. Init => AskInvariant
  BY DEF Init, AskInvariant, AllAsk
<1>2. IInv /\ AskInvariant /\ [Next]_vars => AskInvariant'
  BY AskInvariantStep, Zenon
<1>3. ASSUME IInv, AskInvariant, Lame = {}, NEW t \in Caller, InLoop(t),
             NEW m \in Received(t, "refused")
      PROVE  FALSE
  <2> DEFINE f == Top(t)
             q == Qname(f)
             k == Len(stack[t])
  <2>1. stack[t] # << >> /\ f \in Frame /\ stack[t] \in Seq(Frame)
    BY <1>3, InLoopIs, Zenon DEF IInv
  <2>2. f = stack[t][k] /\ k \in 1 .. Len(stack[t])
    BY <2>1 DEF Top, Innermost
  <2>3. Asks(f)
    BY <1>3, <2>2 DEF AskInvariant, AllAsk
  <2>4. PICK s \in f.servers : m = Respond(s, q)
    BY <1>3, Zenon DEF Received, Message
  <2>5. m.kind = "refused"
    BY <1>3, Zenon DEF Received
  <2>6. q \in Name
    BY <2>1, QnamePrefix, Zenon DEF Frame
  <2>7. Serves(s, q)
    BY <2>3, <2>4, Zenon DEF Asks
  <2> HIDE DEF q
  <2>8. Respond(s, q).kind # "refused"
    BY <1>3, <2>6, <2>7, ServerAnswers
  <2> QED
    BY <2>4, <2>5, <2>8, Zenon
<1>4. IInv /\ AskInvariant => NoServerRefuses
  BY <1>3 DEF NoServerRefuses
<1> QED
  BY <1>1, <1>2, <1>4, Inductive, PTL DEF Spec
=============================================================================
