-------------------------- MODULE IterationLimits --------------------------
(***************************************************************************)
(* MAX_ITERATIONS and MAX_CNAME_DEPTH are enough: when the servers answer, *)
(* no resolution of a name that the limits are provisioned for fails,      *)
(* whatever the shared caches hold and however the callers interleave.     *)
(***************************************************************************)
EXTENDS IterationProofs

-----------------------------------------------------------------------------
(***************************************************************************)
(* Where the limits are enough.  A healthy call asks servers of one zone,  *)
(* every referral leads to a deeper one, and so the iterations behind it   *)
(* are at most the delegations above the zone, and one for the step to the *)
(* full name; what it starts needs fewer nested calls than itself.         *)
(***************************************************************************)
\* The limits are enough for call f, for its name and as deep as it is nested.
Affordable(f) == f.name \in Resolvable /\ f.depth + Nesting[f.name] <= MaxDepth

\* Call f asks servers of zone z, and what it waits for is the address of a server of
\* a zone below z.
AtZone(f, z) ==
    /\ Above(z, Qname(f)) /\ f.servers \subseteq ServersOf[z]
    /\ f.pc = "ns" => z # f.zone /\ Above(z, f.zone) /\ Above(f.zone, Qname(f))
    /\ Affordable(f) => f.n <= Level[z] + (IF FullName(f) THEN 1 ELSE 0)

\* No affordable call returns an error, and one for a host asked for in full returns its
\* addresses.
NoError(f) ==
    f.pc = "return" /\ Affordable(f) =>
        /\ f.ret.kind # "error"
        /\ FullName(f) /\ f.name \in DOMAIN Data \ DOMAIN Alias => f.ret.data # {}

Good(f) ==
    /\ f.servers # {}
    /\ \E z \in Zone : AtZone(f, z)
    /\ f.pc = "enter" => f.n = 0
    /\ NoError(f)

\* The calls of a resolution: the name of a server is asked for in full.
GoodStack(st) ==
    /\ \A i \in 1 .. Len(st) : Good(st[i])
    /\ \A i \in 1 .. Len(st) - 1 : st[i].pc = "ns" => FullName(st[i + 1])

\* A delegation is cached with servers of one zone.
GoodDelegations(d) ==
    \A n \in DOMAIN d : d[n] # {} /\ \E z \in Zone : Above(z, n) /\ d[n] \subseteq ServersOf[z]

GoodAddresses(c) == \A n \in DOMAIN c : c[n] # {}

\* More labels leave a full name full.
LEMMA FullGrows ==
    ASSUME NEW f \in Frame, NEW g \in Frame, g.name = f.name, f.revealed <= g.revealed,
           FullName(f)
    PROVE  FullName(g)
<1>1. f.revealed \in Nat /\ g.revealed \in Nat /\ Len(f.name) \in Nat
  BY DEF Frame, Name
<1> QED
  BY <1>1 DEF FullName

\* A zone above the name sent is above the ones sent later.
LEMMA ZoneAbove ==
    ASSUME NEW f \in Frame, NEW g \in Frame, g.name = f.name, f.revealed <= g.revealed,
           NEW z \in Zone, Above(z, Qname(f))
    PROVE  Above(z, Qname(g)) /\ Above(z, f.name)
<1> DEFINE a == Qname(f)
           b == Qname(g)
<1>1. a \in Name /\ b \in Name /\ Above(a, b)
  BY QnameGrows, Zenon
<1>2. f.name \in Name /\ Above(a, f.name)
  BY QnamePrefix, Zenon DEF Frame
<1>3. z \in Name
  BY IterationAssumption, Zenon
<1>4. Above(z, a)
  OBVIOUS
<1> HIDE DEF a, b
<1> QED
  BY <1>1, <1>2, <1>3, <1>4, PrefixTrans, Zenon DEF b

\* The same servers are asked for as many labels or more: the step to the full name may
\* cost an iteration.
LEMMA GoodMore ==
    ASSUME Provisioned, NEW f \in Frame, NEW g \in Frame, Good(f), g.name = f.name,
           g.depth = f.depth, g.servers = f.servers, f.revealed <= g.revealed,
           g.pc \notin {"ns", "enter"}, NoError(g),
           Affordable(f) => g.n = f.n \/ (g.n = f.n + 1 /\ ~ FullName(f) /\ FullName(g))
    PROVE  Good(g) /\ (FullName(f) => FullName(g))
<1>1. PICK z \in Zone : AtZone(f, z)
  BY Zenon DEF Good
<1>2. Above(z, Qname(g))
  BY <1>1, ZoneAbove, Zenon DEF AtZone
<1>3. (FullName(f) => FullName(g)) /\ (Affordable(g) <=> Affordable(f))
  BY FullGrows, Zenon DEF Affordable
<1>4. ASSUME Affordable(f)
      PROVE  g.n <= Level[z] + (IF FullName(g) THEN 1 ELSE 0)
  <2>1. f.n <= Level[z] + (IF FullName(f) THEN 1 ELSE 0)
    BY <1>1, <1>4, Zenon DEF AtZone
  <2>2. f.n \in Nat /\ Level[z] \in Nat
    BY DEF Frame, Provisioned
  <2>3. PICK l \in Nat, i \in Nat : l = Level[z] /\ i = f.n
    BY <2>2
  <2> QED
    BY <1>3, <1>4, <2>1, <2>3
<1>5. AtZone(g, z)
  BY <1>1, <1>2, <1>3, <1>4, Zenon DEF AtZone
<1> QED
  BY <1>3, <1>5, Zenon DEF Good

\* A call at zone z follows a referral to zone c below it.
LEMMA GoodFollow ==
    ASSUME Provisioned, NEW f \in Frame, NEW g \in Frame, Good(f), g.name = f.name,
           g.depth = f.depth, f.revealed <= g.revealed, g.pc = "loop", g.n = f.n + 1,
           NEW z \in Zone, AtZone(f, z), NEW c \in Zone, z # c, Above(z, c),
           Above(c, Qname(f)), g.servers # {}, g.servers \subseteq ServersOf[c]
    PROVE  Good(g) /\ (FullName(f) => FullName(g))
<1>1. Above(c, Qname(g))
  BY ZoneAbove, Zenon
<1>2. (FullName(f) => FullName(g)) /\ (Affordable(g) <=> Affordable(f))
  BY FullGrows, Zenon DEF Affordable
<1>3. ASSUME Affordable(f)
      PROVE  g.n <= Level[c] + (IF FullName(g) THEN 1 ELSE 0)
  <2>1. f.n <= Level[z] + (IF FullName(f) THEN 1 ELSE 0)
    BY <1>3, Zenon DEF AtZone
  <2>2. f.n \in Nat /\ Level[z] \in Nat /\ Level[c] \in Nat /\ Level[z] < Level[c]
    BY DEF Frame, Provisioned
  <2>3. PICK l \in Nat, k \in Nat, i \in Nat : l = Level[z] /\ k = Level[c] /\ i = f.n
    BY <2>2
  <2>4. i <= l + (IF FullName(f) THEN 1 ELSE 0) /\ l < k /\ g.n = i + 1
    BY <2>1, <2>2, <2>3
  <2>5. i + 1 <= k + (IF FullName(g) THEN 1 ELSE 0)
    BY <1>2, <2>4
  <2> QED
    BY <2>3, <2>4, <2>5
<1>4. g.pc # "ns" /\ g.pc # "enter" /\ g.pc # "return"
  BY Zenon
<1>5. AtZone(g, c)
  BY <1>1, <1>2, <1>3, <1>4, Zenon DEF AtZone
<1> QED
  BY <1>2, <1>4, <1>5, Zenon DEF Good, NoError

\* A call for a server's address leaves the one that waits where it is.
LEMMA GoodWaiter ==
    ASSUME NEW f \in Frame, NEW g \in Frame, Good(f), g.name = f.name, g.depth = f.depth,
           g.servers = f.servers, g.revealed = f.revealed, g.n = f.n, g.pc = "ns",
           NEW z \in Zone, AtZone(f, z), z # g.zone, Above(z, g.zone), Above(g.zone, Qname(f))
    PROVE  Good(g) /\ (FullName(f) => FullName(g))
<1>1. Qname(g) = Qname(f) /\ (FullName(g) <=> FullName(f)) /\ (Affordable(g) <=> Affordable(f))
  BY Zenon DEF Qname, FullName, Affordable
<1>2. AtZone(g, z)
  BY <1>1, Zenon DEF AtZone
<1>3. g.pc # "enter" /\ g.pc # "return"
  BY Zenon
<1> QED
  BY <1>1, <1>2, <1>3, Zenon DEF Good, NoError

\* A new call is at the root.
LEMMA GoodCall ==
    ASSUME Provisioned, NEW q \in Name, NEW d \in Nat, d <= MaxDepth + 1,
           NEW minimize \in BOOLEAN
    PROVE  LET c == Call(q, d, minimize)
           IN  c \in Frame /\ Good(c) /\ (~ minimize => FullName(c))
<1> DEFINE c == Call(q, d, minimize)
           root == ServersOf[<< >>]
<1>1. c \in Frame /\ c.name = q /\ c.depth = d /\ c.pc = "enter"
  BY NewCall, Zenon DEF FrameInv
<1>2. c.servers = root /\ c.n = 0 /\ c.revealed = IF minimize THEN 1 ELSE Len(q)
  BY Zenon DEF Call, initial_root_addrs
<1> HIDE DEF c
<1>3. Qname(c) \in Name
  BY <1>1, QnamePrefix, Zenon DEF Frame
<1>4. Above(<< >>, Qname(c)) /\ << >> \in Zone
  BY <1>3, PrefixOfAll, IterationAssumption, Zenon
<1>5. root # {} /\ Level[<< >>] \in Nat
  BY <1>4 DEF Provisioned
<1>6. 0 <= Level[<< >>] + (IF FullName(c) THEN 1 ELSE 0)
  BY <1>5
<1>7. c.pc # "ns" /\ c.pc # "return"
  BY <1>1, Zenon
<1>8. AtZone(c, << >>)
  BY <1>2, <1>4, <1>6, <1>7, Zenon DEF AtZone
<1>9. ~ minimize => FullName(c)
  BY <1>1, <1>2 DEF FullName, Name
<1> QED
  BY <1>1, <1>2, <1>4, <1>5, <1>7, <1>8, <1>9, Zenon DEF Good, NoError, c

\* A cached delegation is used with the full name, and nothing spent.
LEMMA GoodCached ==
    ASSUME Provisioned, NEW f \in Frame, NEW g \in Frame, Good(f), f.pc = "enter",
           g.pc = "loop", g.name = f.name, g.depth = f.depth, g.n = f.n,
           g.revealed = Len(f.name), g.servers # {},
           NEW z \in Zone, Above(z, f.name), g.servers \subseteq ServersOf[z]
    PROVE  Good(g) /\ FullName(g)
<1>1. Len(f.name) \in Nat
  BY DEF Frame, Name
<1>2. FullName(g) /\ Qname(g) = f.name
  BY <1>1 DEF FullName, Qname
<1>3. g.n = 0 /\ Level[z] \in Nat
  BY DEF Good, Provisioned
<1>4. g.n <= Level[z] + (IF FullName(g) THEN 1 ELSE 0)
  BY <1>3
<1>5. g.pc # "ns" /\ g.pc # "enter" /\ g.pc # "return"
  BY Zenon
<1>6. AtZone(g, z)
  BY <1>2, <1>4, <1>5, Zenon DEF AtZone
<1> QED
  BY <1>2, <1>5, <1>6, Zenon DEF Good, NoError

\* An affordable call always has an iteration left.
LEMMA GoodHasIterations ==
    ASSUME Provisioned, NEW f \in Frame, Good(f), Affordable(f)
    PROVE  f.n < MaxIterations
<1>1. PICK z \in Zone : AtZone(f, z)
  BY Zenon DEF Good
<1>2. f.revealed <= f.revealed
  BY DEF Frame
<1>3. Above(z, f.name)
  BY <1>1, <1>2, ZoneAbove, Zenon DEF AtZone
<1>4. f.n <= Level[z] + (IF FullName(f) THEN 1 ELSE 0)
  BY <1>1, Zenon DEF AtZone
<1>5. Level[z] + 1 < MaxIterations
  BY <1>3, Zenon DEF Provisioned, Affordable
<1>6. f.n \in Nat /\ Level[z] \in Nat /\ MaxIterations \in Nat
  BY IterationAssumption DEF Frame, Provisioned
<1> QED
  BY <1>4, <1>5, <1>6

\* Call k goes on, the ones outside it stay and the ones inside it are new.
LEMMA GoodReplaced ==
    ASSUME NEW st \in Seq(Frame), NEW nx \in Seq(Frame), NEW k \in 1 .. Len(st), Len(nx) >= k,
           GoodStack(st), \A j \in 1 .. k - 1 : nx[j] = st[j],
           FullName(st[k]) => FullName(nx[k]), \A j \in k .. Len(nx) : Good(nx[j]),
           \A j \in k .. Len(nx) - 1 : nx[j].pc = "ns" => FullName(nx[j + 1])
    PROVE  GoodStack(nx)
<1>1. ASSUME NEW i \in 1 .. Len(nx)
      PROVE  Good(nx[i])
  <2>1. CASE i < k
    <3>1. i \in 1 .. k - 1 /\ i \in 1 .. Len(st)
      BY <2>1
    <3> QED
      BY <3>1 DEF GoodStack
  <2>2. CASE ~ (i < k)
    BY <2>2
  <2> QED
    BY <2>1, <2>2
<1>2. ASSUME NEW i \in 1 .. Len(nx) - 1, nx[i].pc = "ns"
      PROVE  FullName(nx[i + 1])
  <2>1. CASE i >= k
    BY <1>2, <2>1
  <2>2. CASE i < k
    <3>1. i \in 1 .. k - 1 /\ i \in 1 .. Len(st) - 1
      BY <2>2
    <3>2. FullName(st[i + 1])
      BY <1>2, <3>1 DEF GoodStack
    <3>3. CASE i + 1 = k
      BY <3>2, <3>3
    <3>4. CASE i + 1 # k
      <4>1. i + 1 \in 1 .. k - 1
        BY <3>1, <3>4
      <4> QED
        BY <3>2, <4>1
    <3> QED
      BY <3>3, <3>4
  <2> QED
    BY <2>1, <2>2
<1> QED
  BY <1>1, <1>2 DEF GoodStack

\* The innermost call goes on as g.
LEMMA ContinueGood ==
    ASSUME IInv, NEW t \in Caller, stack[t] # << >>, GoodStack(stack[t]), NEW g \in Frame,
           Good(g), FullName(Top(t)) => FullName(g), Continue(t, g)
    PROVE  GoodStack(stack'[t])
<1>1. PICK st, nx : st = stack[t] /\ nx = stack'[t]
  OBVIOUS
<1>2. nx = Append(Outer(st), g) /\ Innermost(st) = Top(t)
  BY <1>1 DEF IInv, Continue, Below, Top
<1>3. st \in Seq(Frame) /\ st # << >> /\ GoodStack(st)
  BY <1>1, Zenon DEF IInv
<1> DEFINE k == Len(st)
<1>4. /\ k \in Nat /\ k >= 1 /\ Innermost(st) = st[k] /\ nx \in Seq(Frame)
      /\ Len(nx) = k /\ nx[k] = g /\ \A j \in 1 .. k - 1 : nx[j] = st[j]
  BY <1>2, <1>3, AppendedIs, Zenon
<1>5. FullName(st[k]) => FullName(nx[k])
  BY <1>2, <1>4, Zenon
<1>6. k \in 1 .. Len(st)
  BY <1>4
<1> HIDE DEF k
<1>7. /\ Len(nx) >= k /\ \A j \in k .. Len(nx) : Good(nx[j])
      /\ \A j \in k .. Len(nx) - 1 : nx[j].pc = "ns" => FullName(nx[j + 1])
  BY <1>4
<1>8. GoodStack(nx)
  BY <1>3, <1>4, <1>5, <1>6, <1>7, GoodReplaced, Zenon
<1> QED
  BY <1>1, <1>8, Zenon

\* The innermost call waits as g for a new call h.
LEMMA NestGood ==
    ASSUME IInv, NEW t \in Caller, stack[t] # << >>, GoodStack(stack[t]), NEW g \in Frame,
           NEW h \in Frame, Good(g), Good(h), FullName(Top(t)) => FullName(g),
           g.pc = "ns" => FullName(h), Nest(t, g, h)
    PROVE  GoodStack(stack'[t])
<1>1. PICK st, nx : st = stack[t] /\ nx = stack'[t]
  OBVIOUS
<1>2. nx = Nested(st, g, h) /\ Innermost(st) = Top(t)
  BY <1>1 DEF IInv, Nest, Below, Top, Nested
<1>3. st \in Seq(Frame) /\ st # << >> /\ GoodStack(st)
  BY <1>1, Zenon DEF IInv
<1> DEFINE k == Len(st)
<1>4. /\ k \in Nat /\ k >= 1 /\ Innermost(st) = st[k] /\ nx \in Seq(Frame)
      /\ Len(nx) = k + 1 /\ nx[k] = g /\ nx[k + 1] = h /\ \A j \in 1 .. k - 1 : nx[j] = st[j]
  <2>1. IsNested(nx, st, g, h)
    BY <1>2, <1>3, NestedIs, Zenon
  <2> QED
    BY <2>1 DEF IsNested
<1>5. k \in 1 .. Len(st)
  BY <1>4
<1> HIDE DEF k
<1>6. FullName(st[k]) => FullName(nx[k])
  BY <1>2, <1>4, Zenon
<1>7. Len(nx) >= k /\ \A j \in k .. Len(nx) : j = k \/ j = k + 1
  BY <1>4
<1>8. \A j \in k .. Len(nx) : Good(nx[j])
  BY <1>4, <1>7, Zenon
<1>9. \A j \in k .. Len(nx) - 1 : nx[j].pc = "ns" => FullName(nx[j + 1])
  <2>1. \A j \in k .. Len(nx) - 1 : j = k
    BY <1>4
  <2> QED
    BY <1>4, <2>1, Zenon
<1>10. GoodStack(nx)
  BY <1>3, <1>4, <1>5, <1>6, <1>7, <1>8, <1>9, GoodReplaced, Zenon
<1> QED
  BY <1>1, <1>10, Zenon

\* The call that waited goes on as g.
LEMMA ResumeGood ==
    ASSUME IInv, NEW t \in Caller, Len(stack[t]) > 1, GoodStack(stack[t]), NEW g \in Frame,
           Good(g), FullName(Waiter(t)) => FullName(g), Resume(t, g)
    PROVE  GoodStack(stack'[t])
<1>1. PICK st, nx : st = stack[t] /\ nx = stack'[t]
  OBVIOUS
<1>2. nx = Append(Outer(Outer(st)), g) /\ Innermost(Outer(st)) = Waiter(t)
  BY <1>1 DEF IInv, Resume, Below, Waiter
<1>3. st \in Seq(Frame) /\ Len(st) > 1 /\ GoodStack(st)
  BY <1>1, Zenon DEF IInv
<1> DEFINE k == Len(st) - 1
<1>4. /\ k \in Nat /\ k >= 1 /\ k + 1 = Len(st) /\ Innermost(Outer(st)) = st[k]
      /\ nx \in Seq(Frame) /\ Len(nx) = k /\ nx[k] = g
      /\ \A j \in 1 .. k - 1 : nx[j] = st[j]
  BY <1>2, <1>3, ResumedIs, Zenon
<1>5. FullName(st[k]) => FullName(nx[k])
  BY <1>2, <1>4, Zenon
<1> HIDE DEF k
<1>6. k \in 1 .. Len(st)
  BY <1>4
<1>7. /\ Len(nx) >= k /\ \A j \in k .. Len(nx) : Good(nx[j])
      /\ \A j \in k .. Len(nx) - 1 : nx[j].pc = "ns" => FullName(nx[j + 1])
  BY <1>4
<1>8. GoodStack(nx)
  BY <1>3, <1>4, <1>5, <1>6, <1>7, GoodReplaced, Zenon
<1> QED
  BY <1>1, <1>8, Zenon

\* The innermost call, and the one that waits for it.
LEMMA TopGood ==
    ASSUME IInv, NEW t \in Caller, stack[t] # << >>, GoodStack(stack[t])
    PROVE  /\ Good(Top(t))
           /\ Len(stack[t]) > 1 =>
                  Good(Waiter(t)) /\ (Waiter(t).pc = "ns" => FullName(Top(t)))
<1>1. PICK st : st = stack[t] /\ st \in Seq(Frame) /\ st # << >> /\ GoodStack(st)
  BY Zenon DEF IInv
<1> DEFINE k == Len(st)
           l == k - 1
<1>2. Top(t) = st[k] /\ k \in 1 .. Len(st) /\ k \in Nat
  BY <1>1 DEF Top, Innermost
<1>3. Good(Top(t))
  BY <1>1, <1>2 DEF GoodStack
<1>4. ASSUME k > 1
      PROVE  Good(Waiter(t)) /\ (Waiter(t).pc = "ns" => FullName(Top(t)))
  <2>1. l \in 1 .. Len(st) /\ l \in 1 .. Len(st) - 1 /\ l + 1 = k
    BY <1>2, <1>4
  <2>2. Waiter(t) = Innermost(Outer(st))
    BY <1>1, Zenon DEF Waiter, Below
  <2>3. Innermost(Outer(st)) = st[l]
    <3>1. /\ Outer(st) \in Seq(Frame) /\ Len(Outer(st)) = l
          /\ \A i \in 1 .. l : Outer(st)[i] = st[i]
      BY <1>1, OuterIs, Zenon
    <3> QED
      BY <1>2, <1>4, <3>1 DEF Innermost
  <2> HIDE DEF l, k
  <2> QED
    BY <1>1, <1>2, <2>1, <2>2, <2>3 DEF GoodStack
<1> QED
  BY <1>1, <1>3, <1>4, Zenon

\* A delegation is cached with servers of a zone above its name.
LEMMA DelegationGood ==
    ASSUME GoodDelegations(delegation), NEW n, NEW v, v # {}, NEW z \in Zone, Above(z, n),
           v \subseteq ServersOf[z], delegation' = cache_delegation(n, v)
    PROVE  GoodDelegations(delegation')
<1>1. DOMAIN delegation' = DOMAIN delegation \cup {n}
  BY DEF cache_delegation, With
<1>2. \A m \in DOMAIN delegation \cup {n} : delegation'[m] = IF m = n THEN v ELSE delegation[m]
  BY DEF cache_delegation, With
<1> QED
  BY <1>1, <1>2 DEF GoodDelegations

\* An address is cached.
LEMMA AddressGood ==
    ASSUME GoodAddresses(ns_cache), NEW n, NEW v, v # {},
           ns_cache' = With(ns_cache, n, v) \/ ns_cache' = Learn(n, v)
    PROVE  GoodAddresses(ns_cache')
<1>1. PICK w : w # {} /\ ns_cache' = With(ns_cache, n, w)
  BY DEF Learn
<1>2. DOMAIN ns_cache' = DOMAIN ns_cache \cup {n}
  BY <1>1 DEF With
<1>3. \A m \in DOMAIN ns_cache \cup {n} : ns_cache'[m] = IF m = n THEN w ELSE ns_cache[m]
  BY <1>1 DEF With
<1> QED
  BY <1>1, <1>2, <1>3 DEF GoodAddresses

\* A call returns a value, and no error if it is affordable.
LEMMA GoodReturn ==
    ASSUME Provisioned, NEW f \in Frame, Good(f), NEW ret \in Value,
           Affordable(f) =>
               /\ ret.kind # "error"
               /\ FullName(f) /\ f.name \in DOMAIN Data \ DOMAIN Alias => ret.data # {}
    PROVE  LET g == ReturnValue(f, ret)
           IN  g \in Frame /\ Good(g) /\ (FullName(f) => FullName(g))
<1> DEFINE g == ReturnValue(f, ret)
<1>1. /\ g \in Frame /\ g.pc = "return" /\ g.name = f.name /\ g.depth = f.depth
      /\ g.servers = f.servers /\ g.revealed = f.revealed /\ g.n = f.n /\ g.ret = ret
  BY Zenon DEF ReturnValue, Frame, Pc
<1>2. f.revealed <= f.revealed
  BY DEF Frame
<1> HIDE DEF g
<1>3. (FullName(g) => FullName(f)) /\ (Affordable(g) <=> Affordable(f))
  BY <1>1, Zenon DEF FullName, Affordable
<1>4. NoError(g)
  BY <1>1, <1>3, Zenon DEF NoError
<1>5. g.pc \notin {"ns", "enter"}
  BY <1>1
<1>6. Good(g) /\ (FullName(f) => FullName(g))
  BY <1>1, <1>2, <1>4, <1>5, GoodMore, Zenon
<1> QED
  BY <1>1, <1>6 DEF g

\* The innermost call returns a value.
LEMMA ReturnGood ==
    ASSUME IInv, Provisioned, NEW t \in Caller, stack[t] # << >>, GoodStack(stack[t]),
           NEW ret \in Value, Continue(t, ReturnValue(Top(t), ret)),
           Affordable(Top(t)) =>
               /\ ret.kind # "error"
               /\ FullName(Top(t)) /\ Top(t).name \in DOMAIN Data \ DOMAIN Alias
                  => ret.data # {}
    PROVE  GoodStack(stack'[t])
<1> DEFINE f == Top(t)
           g == ReturnValue(f, ret)
<1>1. f \in Frame /\ Good(f) /\ Continue(t, g)
  BY TopIs, TopGood, Zenon
<1>2. Affordable(f) =>
          /\ ret.kind # "error"
          /\ FullName(f) /\ f.name \in DOMAIN Data \ DOMAIN Alias => ret.data # {}
  BY Zenon
<1> HIDE DEF f
<1>3. g \in Frame /\ Good(g) /\ (FullName(f) => FullName(g))
  BY <1>1, <1>2, GoodReturn, Zenon
<1> HIDE DEF g
<1> QED
  BY <1>1, <1>3, ContinueGood, Zenon DEF f

\* A call fails: the limits are not enough for it.
LEMMA FailGood ==
    ASSUME IInv, Provisioned, NEW t \in Caller, GoodStack(stack[t]), TooDeep(t) \/ GiveUp(t)
    PROVE  GoodStack(stack'[t])
<1> DEFINE f == Top(t)
<1>1. stack[t] # << >> /\ Continue(t, ReturnValue(f, Err("error")))
  BY Zenon DEF TooDeep, GiveUp, Running
<1>2. f \in Frame /\ Good(f)
  BY <1>1, TopIs, TopGood, Zenon
<1>3. ASSUME Affordable(f)
      PROVE  FALSE
  <2>1. CASE TooDeep(t)
    <3>1. f.depth > MaxDepth
      BY <2>1, Zenon DEF TooDeep, DepthExceeded
    <3>2. f.depth + Nesting[f.name] <= MaxDepth /\ f.depth \in Nat
      BY <1>2, <1>3, Zenon DEF Affordable, Frame
    <3>3. Nesting[f.name] \in Nat /\ MaxDepth \in Nat
      BY <1>3, IterationAssumption DEF Provisioned, Affordable
    <3> QED
      BY <3>1, <3>2, <3>3
  <2>2. CASE GiveUp(t)
    <3>1. f.servers = {} \/ f.n >= MaxIterations
      BY <2>2, Zenon DEF GiveUp
    <3>2. f.servers # {} /\ f.n < MaxIterations
      BY <1>2, <1>3, GoodHasIterations, Zenon DEF Good
    <3>3. f.n \in 0 .. MaxIterations /\ MaxIterations \in Nat
      BY <1>2, IterationAssumption, Zenon DEF Frame
    <3> QED
      BY <3>1, <3>2, <3>3
  <2> QED
    BY <2>1, <2>2, Zenon
<1>4. Err("error") \in Value
  BY DEF Err, Value
<1> DEFINE ret == Err("error")
<1> HIDE DEF ret
<1> QED
  BY <1>1, <1>3, <1>4, ReturnGood, Zenon DEF ret

\* A call finds nothing: of a name that is not a host, or not all of a name.
LEMMA NothingGood ==
    ASSUME IInv, Provisioned, NEW t \in Caller, GoodStack(stack[t]), NxDomain(t) \/ NoData(t)
    PROVE  GoodStack(stack'[t])
<1> DEFINE f == Top(t)
<1>1. PICK ret \in {Err("nxdomain"), Ok({})} : Continue(t, ReturnValue(f, ret))
  BY Zenon DEF NxDomain, NoData
<1>2. ret \in Value /\ ret.kind # "error"
  BY <1>1 DEF Err, Ok, Value
<1>3. InLoop(t) /\ \E kind \in {"nxdomain", "nodata"} : Received(t, kind) # {}
  BY Zenon DEF NxDomain, NoData
<1>4. stack[t] # << >> /\ f \in Frame
  BY <1>3, InLoopIs, Zenon
<1>5. ASSUME FullName(f), f.name \in DOMAIN Data \ DOMAIN Alias
      PROVE  FALSE
  <2>1. PICK kind \in {"nxdomain", "nodata"} : Received(t, kind) # {}
    BY <1>3, Zenon
  <2>2. PICK m, s : m = Respond(s, Qname(f)) /\ m.kind = kind
    BY <2>1, Zenon DEF Received, Message
  <2>3. Qname(f) = f.name
    BY <1>4, <1>5, QnamePrefix, Zenon DEF Frame
  <2>4. m.kind \notin {"nodata", "nxdomain", "cname"}
    BY <1>5, <2>2, <2>3, HostFound, Zenon
  <2> QED
    BY <2>2, <2>4, Zenon
<1> QED
  BY <1>1, <1>2, <1>4, <1>5, ReturnGood, Zenon

\* Every server that is asked answers.
LEMMA AlwaysAnswered ==
    ASSUME IInv, Provisioned, NEW t \in Caller, GoodStack(stack[t]),
           NoResponse(t) \/ ErrorCode(t)
    PROVE  FALSE
<1> DEFINE f == Top(t)
           q == Qname(f)
<1>1. InLoop(t) /\ Received(t, "refused") # {}
  BY Zenon DEF NoResponse, ErrorCode, Provisioned
<1>2. PICK s \in f.servers : Respond(s, q).kind = "refused"
  BY <1>1, Zenon DEF Received, Message
<1>3. f \in Frame /\ Good(f)
  BY <1>1, InLoopIs, TopGood, Zenon
<1>4. PICK z \in Zone : AtZone(f, z)
  BY <1>3, Zenon DEF Good
<1>5. q \in Name
  BY <1>3, QnamePrefix, Zenon DEF Frame
<1>6. Serves(s, q)
  BY <1>2, <1>4, Zenon DEF AtZone, Serves
<1> HIDE DEF q
<1> QED
  BY <1>2, <1>5, <1>6, ServerAnswers, Zenon DEF Provisioned

\* A cached delegation is for a zone above the name.
LEMMA CachedGood ==
    ASSUME CachesInv, GoodDelegations(delegation), NEW q \in Name, Cached(q) # {}
    PROVE  /\ find_cached_delegation(q) # {}
           /\ \E z \in Zone : Above(z, q) /\ find_cached_delegation(q) \subseteq ServersOf[z]
<1>1. PICK n \in Cached(q) : find_cached_delegation(q) = delegation[n]
  BY CachedIs, Zenon
<1>2. n \in DOMAIN delegation /\ n \in Name /\ Above(n, q)
  BY DEF Cached, CachesInv
<1>3. PICK z \in Zone : Above(z, n) /\ delegation[n] \subseteq ServersOf[z]
  BY <1>2 DEF GoodDelegations
<1>4. z \in Name
  BY IterationAssumption
<1>5. Above(z, q)
  BY <1>2, <1>3, <1>4, PrefixTrans, Zenon
<1> QED
  BY <1>1, <1>2, <1>3, <1>5 DEF GoodDelegations

\* A call enters its loop at the root, or at the zone of a cached delegation.
LEMMA EnterGood ==
    ASSUME IInv, Provisioned, GoodDelegations(delegation), NEW t \in Caller,
           GoodStack(stack[t]), Enter(t)
    PROVE  GoodStack(stack'[t])
<1> DEFINE f == Top(t)
           known == find_cached_delegation(f.name)
           g == [f EXCEPT !.pc = "loop"]
           l == Len(f.name)
           h == [f EXCEPT !.pc = "loop", !.servers = known, !.revealed = l]
<1>1. stack[t] # << >> /\ f.pc = "enter" /\ CachesInv
  BY Zenon DEF Enter, Running, IInv
<1>2. f \in Frame /\ Good(f)
  BY <1>1, TopIs, TopGood, Zenon
<1>3. f.name \in Name /\ l \in Nat /\ f.revealed <= f.revealed
  BY <1>2 DEF Frame, Name
<1>4. CASE Cached(f.name) = {}
  <2>1. Continue(t, g)
    BY <1>4, Zenon DEF Enter
  <2>2. /\ g \in Frame /\ g.pc = "loop" /\ g.name = f.name /\ g.depth = f.depth
        /\ g.servers = f.servers /\ g.revealed = f.revealed /\ g.n = f.n
    BY <1>2, Zenon DEF Frame, Pc
  <2> HIDE DEF g
  <2>3. g.pc \notin {"ns", "enter"} /\ NoError(g)
    BY <2>2 DEF NoError
  <2>4. Good(g) /\ (FullName(f) => FullName(g))
    BY <1>2, <1>3, <2>2, <2>3, GoodMore, Zenon
  <2> QED
    BY <1>1, <2>1, <2>2, <2>4, ContinueGood, Zenon
<1>5. CASE Cached(f.name) # {}
  <2>1. Continue(t, h)
    BY <1>5, Zenon DEF Enter
  <2>2. /\ known # {}
        /\ \E z \in Zone : Above(z, f.name) /\ known \subseteq ServersOf[z]
    BY <1>1, <1>3, <1>5, CachedGood, Zenon
  <2>3. PICK z \in Zone : Above(z, f.name) /\ known \subseteq ServersOf[z]
    BY <2>2, Zenon
  <2>4. known \subseteq Address
    BY <2>3, IterationAssumption
  <2> HIDE DEF known, l
  <2>5. /\ h \in Frame /\ h.pc = "loop" /\ h.name = f.name /\ h.depth = f.depth
        /\ h.servers = known /\ h.revealed = l /\ h.n = f.n
    BY <1>2, <1>3, <2>4, Zenon DEF Frame, Pc
  <2> HIDE DEF h
  <2>6. Good(h) /\ FullName(h)
    BY <1>1, <1>2, <2>2, <2>3, <2>5, GoodCached, Zenon DEF l
  <2> QED
    BY <1>1, <2>1, <2>5, <2>6, ContinueGood, Zenon
<1> QED
  BY <1>4, <1>5

\* The zone of a call in its loop, and the name it sends.
LEMMA LoopGood ==
    ASSUME IInv, NEW t \in Caller, GoodStack(stack[t]), InLoop(t)
    PROVE  LET f == Top(t)
           IN  /\ stack[t] # << >> /\ f \in Frame /\ Good(f) /\ f.revealed <= f.revealed
               /\ f.pc = "loop" /\ Qname(f) \in Name
               /\ \E z \in Zone : AtZone(f, z) /\ Above(z, f.name)
<1> DEFINE f == Top(t)
<1>1. stack[t] # << >> /\ f \in Frame /\ f.pc = "loop"
  BY InLoopIs, Zenon
<1>2. Good(f)
  BY <1>1, TopGood, Zenon
<1>3. PICK z \in Zone : AtZone(f, z)
  BY <1>2, Zenon DEF Good
<1>4. f.revealed <= f.revealed
  BY <1>1 DEF Frame
<1>5. Above(z, f.name) /\ Qname(f) \in Name
  BY <1>1, <1>3, <1>4, ZoneAbove, QnamePrefix, Zenon DEF AtZone, Frame
<1> QED
  BY <1>1, <1>2, <1>3, <1>4, <1>5, Zenon

\* A referral is to a zone below the one of the call.
LEMMA ReferredBelow ==
    ASSUME IInv, NEW t \in Caller, GoodStack(stack[t]), InLoop(t),
           NEW m \in Received(t, "referral")
    PROVE  /\ m.zone \in Zone /\ Above(m.zone, Qname(Top(t))) /\ Above(m.zone, Top(t).name)
           /\ \E z \in Zone : AtZone(Top(t), z) /\ z # m.zone /\ Above(z, m.zone)
<1> DEFINE f == Top(t)
           q == Qname(f)
<1>1. PICK z \in Zone : AtZone(f, z)
  BY LoopGood, Zenon
<1>2. m.zone \in Zone /\ Above(m.zone, q) /\ Above(m.zone, f.name) /\ q \in Name
  BY ReferralAbove, MessageTrue, LoopGood, Zenon
<1>3. PICK s \in f.servers : m = Respond(s, q) /\ m.kind = "referral"
  BY Zenon DEF Received, Message
<1>4. s \in ServersOf[z] /\ Above(z, q)
  BY <1>1, <1>3 DEF AtZone
<1>5. z # m.zone /\ Above(z, m.zone)
  BY <1>2, <1>3, <1>4, ReferralBelow, Zenon
<1> QED
  BY <1>1, <1>2, <1>5, Zenon

\* What an affordable call waits for is affordable.
LEMMA AffordableNested ==
    ASSUME Provisioned, NEW f \in Frame, Affordable(f), NEW g, g.depth = f.depth + 1,
           \/ f.name \in DOMAIN Alias /\ g.name = Alias[f.name]
           \/ \E z \in DOMAIN Glueless : Above(z, f.name) /\ g.name = Glueless[z]
    PROVE  Affordable(g)
<1>1. f.name \in Resolvable
  BY DEF Affordable
<1>2. g.name \in Resolvable /\ Nesting[g.name] < Nesting[f.name]
  BY <1>1, Zenon DEF Provisioned
<1>3. Nesting[f.name] \in Nat /\ Nesting[g.name] \in Nat /\ f.depth \in Nat /\ MaxDepth \in Nat
  BY <1>1, <1>2, IterationAssumption DEF Provisioned, Frame
<1>4. f.depth + Nesting[f.name] <= MaxDepth
  BY DEF Affordable
<1>5. g.depth + Nesting[g.name] <= MaxDepth
  BY <1>2, <1>3, <1>4
<1> QED
  BY <1>2, <1>5 DEF Affordable

\* The addresses of a host are returned, and remembered with servers of one zone.
LEMMA DirectAnswerGood ==
    ASSUME IInv, Provisioned, GoodDelegations(delegation), GoodAddresses(ns_cache),
           NEW t \in Caller, GoodStack(stack[t]), DirectAnswer(t)
    PROVE  GoodStack(stack'[t]) /\ GoodDelegations(delegation') /\ GoodAddresses(ns_cache')
<1> DEFINE f == Top(t)
           n == f.name
           v == f.servers
<1>1. InLoop(t) /\ FullName(f) /\ delegation' = cache_delegation(n, v)
  BY Zenon DEF DirectAnswer
<1>2. PICK m \in Received(t, "data") :
         ns_cache' = Learn(n, m.data) /\ Continue(t, ReturnValue(f, Ok(m.data)))
  BY Zenon DEF DirectAnswer
<1>3. stack[t] # << >> /\ Good(f) /\ \E z \in Zone : AtZone(f, z) /\ Above(z, n)
  BY <1>1, LoopGood, Zenon
<1>4. m.data = Data[n] /\ n \in DOMAIN Data
  BY <1>1, DataMessage, Zenon
<1>5. m.data # {} /\ Ok(m.data) \in Value
  BY <1>4, IterationAssumption DEF Ok, Value, Provisioned
<1> DEFINE ret == Ok(m.data)
           d == m.data
<1>6. ret \in Value /\ ret.kind # "error" /\ ret.data # {} /\ Continue(t, ReturnValue(f, ret))
  BY <1>2, <1>5 DEF Ok
<1>7. v # {} /\ \E z \in Zone : Above(z, n) /\ v \subseteq ServersOf[z]
  BY <1>3, Zenon DEF Good, AtZone
<1>8. d # {} /\ ns_cache' = Learn(n, d)
  BY <1>2, <1>5, Zenon
<1> HIDE DEF ret, n, v, d
<1>9. GoodStack(stack'[t])
  BY <1>3, <1>6, ReturnGood, Zenon
<1>10. GoodDelegations(delegation')
  BY <1>1, <1>7, DelegationGood, Zenon
<1>11. GoodAddresses(ns_cache')
  BY <1>8, AddressGood, Zenon
<1> QED
  BY <1>9, <1>10, <1>11, Zenon

\* A CNAME is followed with a new call.
LEMMA ChaseCnameGood ==
    ASSUME IInv, Provisioned, NEW t \in Caller, GoodStack(stack[t]), ChaseCname(t)
    PROVE  GoodStack(stack'[t])
<1> DEFINE f == Top(t)
           g == [f EXCEPT !.pc = "cname"]
           d == f.depth + 1
<1>1. InLoop(t) /\ FullName(f)
  BY Zenon DEF ChaseCname
<1>2. PICK m \in Received(t, "cname") : Nest(t, g, Call(m.target, d, TRUE))
  BY Zenon DEF ChaseCname
<1>3. stack[t] # << >> /\ f \in Frame /\ Good(f) /\ f.revealed <= f.revealed
  BY <1>1, LoopGood, Zenon
<1>4. f.depth \in Nat /\ MaxDepth \in Nat /\ f.depth <= MaxDepth
  BY <1>1, <1>3, InLoopIs, IterationAssumption, Zenon DEF Frame
<1>5. d \in Nat /\ d <= MaxDepth + 1
  BY <1>4
<1>6. m.target \in Name
  <2>1. f.name \in DOMAIN Alias /\ m.target = Alias[f.name]
    BY <1>1, CnameMessage, Zenon
  <2> QED
    BY <2>1, IterationAssumption, Zenon
<1> DEFINE q == m.target
           h == Call(q, d, TRUE)
<1> HIDE DEF q, d
<1>7. h \in Frame /\ Good(h)
  BY <1>5, <1>6, GoodCall, Zenon DEF q
<1>8. /\ g \in Frame /\ g.pc = "cname" /\ g.name = f.name /\ g.depth = f.depth
      /\ g.servers = f.servers /\ g.revealed = f.revealed /\ g.n = f.n
  BY <1>3, Zenon DEF Frame, Pc
<1>9. Nest(t, g, h)
  BY <1>2, Zenon DEF q
<1> HIDE DEF g, h
<1>10. g.pc \notin {"ns", "enter"} /\ g.pc # "ns" /\ NoError(g)
  BY <1>8 DEF NoError
<1>11. Good(g) /\ (FullName(f) => FullName(g))
  BY <1>3, <1>8, <1>10, GoodMore, Zenon
<1> QED
  BY <1>3, <1>7, <1>8, <1>9, <1>10, <1>11, NestGood, Zenon

\* A shortened name is a host: the full name costs an iteration, once.
LEMMA RevealFullNameGood ==
    ASSUME IInv, Provisioned, GoodAddresses(ns_cache), NEW t \in Caller, GoodStack(stack[t]),
           RevealFullName(t)
    PROVE  GoodStack(stack'[t]) /\ GoodAddresses(ns_cache')
<1> DEFINE f == Top(t)
           n1 == f.n + 1
           l == Len(f.name)
           g == [f EXCEPT !.pc = "loop", !.n = n1, !.revealed = l]
<1>1. InLoop(t) /\ ~ FullName(f) /\ Continue(t, [Retry(f) EXCEPT !.revealed = l])
  BY Zenon DEF RevealFullName
<1>2. stack[t] # << >> /\ f \in Frame /\ Good(f)
  BY <1>1, LoopGood, Zenon
<1>3. n1 \in 0 .. MaxIterations
  BY <1>1, InLoopIs, Zenon
<1>4. l \in Nat /\ f.revealed \in Nat /\ f.revealed <= l
  BY <1>1, <1>2 DEF Frame, Name, FullName
<1>5. [Retry(f) EXCEPT !.revealed = l] = g
  BY <1>2 DEF Retry, Frame
<1>6. Continue(t, g)
  BY <1>1, <1>5, Zenon
<1> HIDE DEF n1, l
<1>7. /\ g \in Frame /\ g.pc = "loop" /\ g.name = f.name /\ g.depth = f.depth
      /\ g.servers = f.servers /\ g.revealed = l /\ g.n = n1
  BY <1>2, <1>3, <1>4, Zenon DEF Frame, Pc
<1> HIDE DEF g
<1>8. g.pc \notin {"ns", "enter"} /\ NoError(g) /\ FullName(g)
  BY <1>4, <1>7 DEF NoError, FullName, l
<1>9. Good(g)
  BY <1>1, <1>2, <1>4, <1>7, <1>8, GoodMore, Zenon DEF n1
<1>10. GoodStack(stack'[t])
  BY <1>2, <1>6, <1>7, <1>8, <1>9, ContinueGood, Zenon
<1>11. GoodAddresses(ns_cache')
  <2>1. CASE \E m \in Received(t, "data") : ns_cache' = Learn(Qname(f), m.data)
    <3>1. PICK m \in Received(t, "data") : ns_cache' = Learn(Qname(f), m.data)
      BY <2>1
    <3> DEFINE q == Qname(f)
               d == m.data
    <3>2. d = Data[q] /\ q \in DOMAIN Data
      BY <1>1, MessageTrue, Zenon
    <3>3. d # {} /\ ns_cache' = Learn(q, d)
      BY <3>1, <3>2, Zenon DEF Provisioned
    <3> HIDE DEF q, d
    <3> QED
      BY <3>3, AddressGood, Zenon
  <2>2. CASE UNCHANGED ns_cache
    BY <2>2, Zenon
  <2> QED
    BY <2>1, <2>2, Zenon DEF RevealFullName
<1> QED
  BY <1>10, <1>11, Zenon

\* A referral is followed to servers of a zone below.
LEMMA FollowReferralGood ==
    ASSUME IInv, Provisioned, GoodDelegations(delegation), GoodAddresses(ns_cache),
           NEW t \in Caller, GoodStack(stack[t]), FollowReferral(t)
    PROVE  GoodStack(stack'[t]) /\ GoodDelegations(delegation')
<1> DEFINE f == Top(t)
<1>1. InLoop(t) /\ CachesInv
  BY Zenon DEF FollowReferral, IInv
<1>2. PICK m \in Received(t, "referral") :
         LET glueless == m.zone \in DOMAIN Glueless
             servers == IF glueless THEN ns_cache[Glueless[m.zone]] ELSE ServersOf[m.zone]
         IN  /\ glueless => Glueless[m.zone] \in DOMAIN ns_cache
             /\ delegation' = cache_delegation(m.zone, servers)
             /\ Continue(t, Follow(f, servers))
  BY Zenon DEF FollowReferral
<1> DEFINE c == m.zone
           v == IF c \in DOMAIN Glueless THEN ns_cache[Glueless[c]] ELSE ServersOf[c]
           g == Follow(f, v)
<1>3. /\ c \in DOMAIN Glueless => Glueless[c] \in DOMAIN ns_cache
      /\ delegation' = cache_delegation(c, v)
      /\ Continue(t, g)
  BY <1>2, Zenon
<1>4. stack[t] # << >> /\ Good(f) /\ f \in Frame
  BY <1>1, LoopGood, Zenon
<1>5. FrameInv(f) /\ f.depth <= MaxDepth /\ f.n \in Nat /\ f.n < MaxIterations
  BY <1>1, InLoopIs, Zenon
<1>6. /\ c \in Zone /\ Above(c, Qname(f)) /\ Above(c, f.name)
      /\ \E z \in Zone : AtZone(f, z) /\ z # c /\ Above(z, c)
  BY <1>1, ReferredBelow, Zenon
<1> HIDE DEF c
<1>7. v # {} /\ v \subseteq ServersOf[c]
  <2>1. CASE c \in DOMAIN Glueless
    <3>1. v = ns_cache[Glueless[c]] /\ v # {} /\ v \subseteq Truth(Glueless[c]).data
      BY <1>1, <1>3, <2>1, Zenon DEF CachesInv, GoodAddresses
    <3> HIDE DEF v
    <3> QED
      BY <2>1, <3>1, ServerNamesAssumption
  <2>2. CASE c \notin DOMAIN Glueless
    BY <1>6, <2>2, Zenon DEF Provisioned
  <2> QED
    BY <2>1, <2>2, Zenon
<1> HIDE DEF v, f
<1>8. \A s \in v : Serves(s, f.name)
  BY <1>6, <1>7 DEF Serves
<1>9. /\ g \in Frame /\ g.pc = "loop" /\ g.name = f.name /\ g.depth = f.depth
      /\ g.n = f.n + 1 /\ g.servers = v /\ f.revealed <= g.revealed
  BY <1>5, <1>8, FollowFrame, Zenon
<1>10. PICK z \in Zone : AtZone(f, z) /\ z # c /\ Above(z, c)
  BY <1>6, Zenon
<1> HIDE DEF g
<1>11. Good(g) /\ (FullName(f) => FullName(g))
  BY <1>4, <1>6, <1>7, <1>9, <1>10, GoodFollow, Zenon
<1>12. GoodStack(stack'[t])
  BY <1>3, <1>4, <1>9, <1>11, ContinueGood, Zenon DEF f
<1>13. Above(c, c)
  BY <1>6, PrefixOfAll, IterationAssumption, Zenon
<1> QED
  BY <1>3, <1>6, <1>7, <1>12, <1>13, DelegationGood, Zenon

\* The name of a server of a zone below is asked for in full.
LEMMA ResolveServerNameGood ==
    ASSUME IInv, Provisioned, NEW t \in Caller, GoodStack(stack[t]), ResolveServerName(t)
    PROVE  GoodStack(stack'[t])
<1> DEFINE f == Top(t)
           d == f.depth + 1
<1>1. InLoop(t)
  BY Zenon DEF ResolveServerName
<1>2. PICK m \in Received(t, "referral") :
         /\ m.zone \in DOMAIN Glueless
         /\ Nest(t, [f EXCEPT !.pc = "ns", !.zone = m.zone], Call(Glueless[m.zone], d, FALSE))
  BY Zenon DEF ResolveServerName
<1> DEFINE c == m.zone
           q == Glueless[c]
           g == [f EXCEPT !.pc = "ns", !.zone = c]
           h == Call(q, d, FALSE)
<1>3. stack[t] # << >> /\ f \in Frame /\ Good(f)
  BY <1>1, LoopGood, Zenon
<1>4. f.depth \in Nat /\ MaxDepth \in Nat /\ f.depth <= MaxDepth
  BY <1>1, <1>3, InLoopIs, IterationAssumption, Zenon DEF Frame
<1>5. d \in Nat /\ d <= MaxDepth + 1
  BY <1>4
<1>6. Above(c, Qname(f)) /\ \E z \in Zone : AtZone(f, z) /\ z # c /\ Above(z, c)
  BY <1>1, ReferredBelow, Zenon
<1>7. q \in Name /\ c \in Name /\ Nest(t, g, h)
  BY <1>2, IterationAssumption, Zenon
<1> HIDE DEF q, d, c
<1>8. h \in Frame /\ Good(h) /\ FullName(h)
  BY <1>5, <1>7, GoodCall, Zenon
<1>9. /\ g \in Frame /\ g.pc = "ns" /\ g.name = f.name /\ g.depth = f.depth /\ g.zone = c
      /\ g.servers = f.servers /\ g.revealed = f.revealed /\ g.n = f.n
  BY <1>3, <1>7, Zenon DEF Frame, Pc
<1> HIDE DEF g, h
<1>10. Good(g) /\ (FullName(f) => FullName(g))
  BY <1>3, <1>6, <1>9, GoodWaiter, Zenon
<1> QED
  BY <1>3, <1>7, <1>8, <1>9, <1>10, NestGood, Zenon

\* A call that has returned, and what it means to the one that waits for it.
LEMMA ReturnedGood ==
    ASSUME IInv, Provisioned, NEW t \in Caller, GoodStack(stack[t]), NEW pc, Returned(t, pc)
    PROVE  LET w == Waiter(t)
           IN  /\ Len(stack[t]) > 1 /\ Good(w) /\ w \in Frame
               /\ Affordable(w) => Affordable(Top(t)) /\ Top(t).ret.kind # "error"
               /\ Affordable(w) /\ pc = "ns" => Top(t).ret.data # {}
<1> DEFINE w == Waiter(t)
           f == Top(t)
<1>1. /\ Len(stack[t]) > 1 /\ FrameInv(w) /\ w.pc = pc /\ Waits(w, f) /\ f.pc = "return"
      /\ f.depth = w.depth + 1
  BY ReturnedIs, Zenon
<1>2. stack[t] # << >>
  BY Zenon DEF Returned, Running
<1>3. Good(f) /\ Good(w) /\ (w.pc = "ns" => FullName(f))
  BY <1>1, <1>2, TopGood, Zenon
<1>4. w \in Frame
  BY <1>1, Zenon DEF FrameInv
<1>5. \/ w.name \in DOMAIN Alias /\ f.name = Alias[w.name] /\ w.pc = "cname"
      \/ w.zone \in DOMAIN Glueless /\ Above(w.zone, w.name) /\ f.name = Glueless[w.zone]
  BY <1>1, Zenon DEF FrameInv, Waits
<1> HIDE DEF w, f
<1>6. Affordable(w) => Affordable(f)
  BY <1>1, <1>4, <1>5, AffordableNested, Zenon
<1>7. Affordable(w) => f.ret.kind # "error"
  BY <1>1, <1>3, <1>6, Zenon DEF Good, NoError
<1>8. ASSUME Affordable(w), pc = "ns"
      PROVE  f.ret.data # {}
  <2>1. w.pc # "cname"
    BY <1>1, <1>8
  <2>2. f.name \in DOMAIN Data \ DOMAIN Alias
    BY <1>5, <1>8, <2>1, Zenon DEF Affordable, Provisioned
  <2> QED
    BY <1>1, <1>3, <1>6, <1>8, <2>2, Zenon DEF Good, NoError
<1> QED
  BY <1>1, <1>3, <1>4, <1>6, <1>7, <1>8, Zenon DEF w, f

\* What a CNAME leads to is returned, and the servers that had it remembered.
LEMMA ReturnCnameGood ==
    ASSUME IInv, Provisioned, GoodDelegations(delegation), NEW t \in Caller,
           GoodStack(stack[t]), ReturnCname(t)
    PROVE  GoodStack(stack'[t]) /\ GoodDelegations(delegation')
<1> DEFINE w == Waiter(t)
           n == w.name
           v == w.servers
           ret == Top(t).ret
           g == ReturnValue(w, ret)
<1>1. /\ Returned(t, "cname") /\ Resume(t, g)
      /\ delegation' = delegation \/ delegation' = cache_delegation(n, v)
  BY DEF ReturnCname
<1>2. FrameInv(w) /\ w.pc = "cname" /\ ret \in Value
  BY <1>1, ReturnedIs, Zenon
<1>3. Len(stack[t]) > 1 /\ Good(w) /\ w \in Frame /\ (Affordable(w) => ret.kind # "error")
  BY <1>1, ReturnedGood, Zenon
<1>4. n \in DOMAIN Alias
  BY <1>2, Zenon DEF FrameInv
<1>5. v # {} /\ \E z \in Zone : AtZone(w, z)
  BY <1>3, Zenon DEF Good
<1>6. PICK z \in Zone : AtZone(w, z)
  BY <1>5, Zenon
<1>7. w.revealed <= w.revealed
  BY <1>3 DEF Frame
<1>8. Above(z, n) /\ v \subseteq ServersOf[z]
  BY <1>3, <1>6, <1>7, ZoneAbove, Zenon DEF AtZone
<1> HIDE DEF w, ret
<1>9. g \in Frame /\ Good(g) /\ (FullName(w) => FullName(g))
  BY <1>2, <1>3, <1>4, GoodReturn, Zenon
<1> HIDE DEF g, n, v
<1>10. GoodStack(stack'[t])
  BY <1>1, <1>3, <1>9, ResumeGood, Zenon DEF w
<1>11. GoodDelegations(delegation')
  <2>1. CASE delegation' = delegation
    BY <2>1, Zenon
  <2>2. CASE delegation' = cache_delegation(n, v)
    BY <1>5, <1>8, <2>2, DelegationGood, Zenon
  <2> QED
    BY <1>1, <2>1, <2>2, Zenon
<1> QED
  BY <1>10, <1>11, Zenon

\* The address of a server is found, and its zone entered; it is not found only for a call
\* that the limits are not enough for.
LEMMA ReturnServerNameGood ==
    ASSUME IInv, Provisioned, GoodDelegations(delegation), GoodAddresses(ns_cache),
           NEW t \in Caller, GoodStack(stack[t]), ReturnServerName(t)
    PROVE  GoodStack(stack'[t]) /\ GoodDelegations(delegation') /\ GoodAddresses(ns_cache')
<1> DEFINE w == Waiter(t)
           c == w.zone
           q == Glueless[c]
           v == Top(t).ret.data
<1>1. Returned(t, "ns")
  BY Zenon DEF ReturnServerName
<1>2. /\ FrameInv(w) /\ w.pc = "ns" /\ Waits(w, Top(t))
      /\ Top(t).ret \in Value /\ Truthful(Top(t).ret, Top(t).name)
  BY <1>1, ReturnedIs, Zenon
<1>3. Len(stack[t]) > 1 /\ Good(w) /\ w \in Frame /\ (Affordable(w) => v # {})
  BY <1>1, ReturnedGood, Zenon
<1>4. /\ w.depth <= MaxDepth /\ w.n < MaxIterations /\ c \in DOMAIN Glueless
      /\ Above(c, w.name) /\ Top(t).name = q
  BY <1>2, Zenon DEF FrameInv, Waits
<1>5. w.n \in Nat /\ c \in Name /\ << >> \in Name /\ c \in Zone /\ w.revealed <= w.revealed
  BY <1>3, <1>4, IterationAssumption, PrefixOfAll DEF Frame
<1>6. v # {} => v \subseteq ServersOf[c]
  BY <1>2, <1>4, ServerNamesAssumption DEF Truthful
<1>7. CASE v # {}
  <2> DEFINE g == Follow(w, v)
             h == [g EXCEPT !.zone = << >>]
  <2>1. /\ ns_cache' = With(ns_cache, q, v) /\ delegation' = cache_delegation(c, v)
        /\ Resume(t, h)
    BY <1>7, Zenon DEF ReturnServerName
  <2>2. PICK z \in Zone : AtZone(w, z) /\ z # c /\ Above(z, c) /\ Above(c, Qname(w))
    BY <1>2, <1>3, Zenon DEF Good, AtZone
  <2> HIDE DEF v, w
  <2>3. \A s \in v : Serves(s, w.name)
    BY <1>4, <1>5, <1>6, <1>7 DEF Serves
  <2>4. /\ g \in Frame /\ g.pc = "loop" /\ g.name = w.name /\ g.depth = w.depth
        /\ g.n = w.n + 1 /\ g.servers = v /\ w.revealed <= g.revealed
    <3>1. FrameInv(w) /\ w.depth <= MaxDepth /\ w.n \in Nat /\ w.n < MaxIterations
      BY <1>2, <1>4, <1>5, Zenon
    <3> QED
      BY <2>3, <3>1, FollowFrame, Zenon
  <2> HIDE DEF g
  <2>5. /\ h \in Frame /\ h.pc = "loop" /\ h.name = w.name /\ h.depth = w.depth
        /\ h.n = w.n + 1 /\ h.servers = v /\ h.revealed = g.revealed
    BY <1>5, <2>4, Zenon DEF Frame
  <2> HIDE DEF h, c, q
  <2>6. Good(h) /\ (FullName(w) => FullName(h))
    BY <1>3, <1>5, <1>6, <1>7, <2>2, <2>4, <2>5, GoodFollow, Zenon
  <2>7. GoodStack(stack'[t])
    BY <1>3, <2>1, <2>5, <2>6, ResumeGood, Zenon DEF w
  <2>8. Above(c, c)
    BY <1>5, PrefixOfAll, Zenon
  <2>9. GoodDelegations(delegation')
    BY <1>5, <1>6, <1>7, <2>1, <2>8, DelegationGood, Zenon
  <2>10. GoodAddresses(ns_cache')
    BY <1>7, <2>1, AddressGood, Zenon
  <2> QED
    BY <2>7, <2>9, <2>10, Zenon
<1>8. CASE v = {}
  <2> DEFINE n1 == w.n + 1
             g == [w EXCEPT !.pc = "loop", !.n = n1, !.zone = << >>]
  <2>1. Resume(t, [Retry(w) EXCEPT !.zone = << >>]) /\ UNCHANGED <<ns_cache, delegation>>
    BY <1>8, Zenon DEF ReturnServerName
  <2>2. [Retry(w) EXCEPT !.zone = << >>] = g
    BY <1>3 DEF Retry, Frame
  <2>3. n1 \in 0 .. MaxIterations
    BY <1>4, <1>5, IterationAssumption
  <2>4. Resume(t, g)
    BY <2>1, <2>2, Zenon
  <2> HIDE DEF n1, w
  <2>5. /\ g \in Frame /\ g.pc = "loop" /\ g.name = w.name /\ g.depth = w.depth
        /\ g.servers = w.servers /\ g.revealed = w.revealed
    BY <1>3, <1>5, <2>3, Zenon DEF Frame, Pc
  <2> HIDE DEF g
  <2>6. g.pc \notin {"ns", "enter"} /\ NoError(g)
    BY <2>5 DEF NoError
  <2>7. Good(g) /\ (FullName(w) => FullName(g))
    BY <1>3, <1>5, <1>8, <2>5, <2>6, GoodMore, Zenon
  <2>8. GoodStack(stack'[t])
    BY <1>3, <2>4, <2>5, <2>7, ResumeGood, Zenon DEF w
  <2> QED
    BY <2>1, <2>8, Zenon
<1> QED
  BY <1>7, <1>8

\* The invariant of a healthy name space.
Healthy ==
    /\ GoodDelegations(delegation) /\ GoodAddresses(ns_cache)
    /\ \A t \in Caller : GoodStack(stack[t])

\* A step of one resolution, and its calls afterwards.
LEMMA StepGood ==
    ASSUME IInv, Provisioned, Healthy, NEW t \in Caller, Step(t)
    PROVE  GoodDelegations(delegation') /\ GoodAddresses(ns_cache') /\ GoodStack(stack'[t])
<1>1. GoodDelegations(delegation) /\ GoodAddresses(ns_cache) /\ GoodStack(stack[t])
  BY Zenon DEF Healthy
<1>2. CASE TooDeep(t) \/ GiveUp(t) \/ NxDomain(t) \/ NoData(t)
  <2>1. GoodStack(stack'[t])
    BY <1>1, <1>2, FailGood, NothingGood, Zenon
  <2>2. UNCHANGED <<delegation, ns_cache>>
    BY <1>2, Zenon DEF TooDeep, GiveUp, NxDomain, NoData
  <2> QED
    BY <1>1, <2>1, <2>2, Zenon
<1>3. CASE Enter(t) \/ ChaseCname(t) \/ ResolveServerName(t)
  <2>1. GoodStack(stack'[t])
    BY <1>1, <1>3, EnterGood, ChaseCnameGood, ResolveServerNameGood, Zenon
  <2>2. UNCHANGED <<delegation, ns_cache>>
    BY <1>3, Zenon DEF Enter, ChaseCname, ResolveServerName
  <2> QED
    BY <1>1, <2>1, <2>2, Zenon
<1>4. CASE FollowReferral(t) \/ ReturnCname(t)
  <2>1. GoodStack(stack'[t]) /\ GoodDelegations(delegation')
    BY <1>1, <1>4, FollowReferralGood, ReturnCnameGood, Zenon
  <2>2. UNCHANGED ns_cache
    BY <1>4, Zenon DEF FollowReferral, ReturnCname
  <2> QED
    BY <1>1, <2>1, <2>2, Zenon
<1>5. CASE RevealFullName(t)
  <2>1. UNCHANGED delegation
    BY <1>5, Zenon DEF RevealFullName
  <2> QED
    BY <1>1, <1>5, <2>1, RevealFullNameGood, Zenon
<1>6. CASE DirectAnswer(t) \/ ReturnServerName(t)
  BY <1>1, <1>6, DirectAnswerGood, ReturnServerNameGood, Zenon
<1>7. CASE NoResponse(t) \/ ErrorCode(t)
  BY <1>1, <1>7, AlwaysAnswered, Zenon
<1>8. CASE Deliver(t)
  <2>1. stack'[t] = << >> /\ UNCHANGED <<delegation, ns_cache>>
    BY <1>8 DEF Deliver, IInv
  <2>2. GoodStack(<< >>)
    BY DEF GoodStack
  <2> QED
    BY <1>1, <2>1, <2>2, Zenon
<1> QED
  BY <1>2, <1>3, <1>4, <1>5, <1>6, <1>7, <1>8, Zenon DEF Step

\* Every step of the system.
LEMMA HealthyStep ==
    ASSUME IInv, Provisioned, Healthy, [Next]_vars
    PROVE  Healthy'
<1>1. CASE UNCHANGED vars
  BY <1>1, Zenon DEF vars, Healthy, GoodDelegations, GoodAddresses, GoodStack
<1>2. CASE Forget
  <2>1. UNCHANGED stack
    BY <1>2, Zenon DEF Forget
  <2>2. GoodDelegations(delegation') /\ GoodAddresses(ns_cache')
    BY <1>2 DEF Forget, Healthy, GoodDelegations, GoodAddresses, Without
  <2> QED
    BY <2>1, <2>2, Zenon DEF Healthy, GoodDelegations, GoodAddresses, GoodStack
<1>3. ASSUME NEW t \in Caller, Step(t)
      PROVE  Healthy'
  <2>1. GoodDelegations(delegation') /\ GoodAddresses(ns_cache') /\ GoodStack(stack'[t])
    BY <1>3, StepGood, Zenon
  <2>2. \A u \in Caller \ {t} : stack'[u] = stack[u]
    BY <1>3, StepAdvances, Zenon
  <2>3. ASSUME NEW u \in Caller
        PROVE  GoodStack(stack'[u])
    BY <2>1, <2>2, Zenon DEF Healthy
  <2> QED
    BY <2>1, <2>3, Zenon DEF Healthy, GoodDelegations, GoodAddresses, GoodStack
<1>4. ASSUME NEW t \in Caller, NEW q \in Question, Ask(t, q)
      PROVE  Healthy'
  <2> DEFINE c == Call(q, 0, TRUE)
  <2>1. /\ stack'[t] = <<c>> /\ UNCHANGED <<delegation, ns_cache>>
        /\ \A u \in Caller \ {t} : stack'[u] = stack[u]
    BY <1>4, Zenon DEF Ask, IInv
  <2>2. q \in Name /\ 0 \in Nat /\ 0 <= MaxDepth + 1
    BY IterationAssumption
  <2>3. Good(c)
    BY <2>2, GoodCall, Zenon
  <2> HIDE DEF c
  <2>4. GoodStack(<<c>>)
    BY <2>3 DEF GoodStack
  <2>5. ASSUME NEW u \in Caller
        PROVE  GoodStack(stack'[u])
    BY <2>1, <2>4, Zenon DEF Healthy
  <2>6. GoodDelegations(delegation') /\ GoodAddresses(ns_cache')
    BY <2>1, Zenon DEF Healthy
  <2> QED
    BY <2>5, <2>6, Zenon DEF Healthy, GoodDelegations, GoodAddresses, GoodStack
<1> QED
  BY <1>1, <1>2, <1>3, <1>4, Zenon DEF Next

\* The results delivered: none is an error that the limits were enough to avoid.
Resolved == \A t \in Caller : result[t].name \in Resolvable => result[t].ret.kind # "error"

\* A result is the value of the outermost call.
LEMMA ResolvedStep ==
    ASSUME IInv, Provisioned, Healthy, Resolved, [Next]_vars
    PROVE  Resolved'
<1>1. CASE UNCHANGED result
  BY <1>1, Zenon DEF Resolved
<1>2. ASSUME NEW t \in Caller, NEW q \in Question, Ask(t, q)
      PROVE  Resolved'
  <2> DEFINE none == NoResult
             r == [name |-> q, ret |-> none]
  <2>1. result' = [result EXCEPT ![t] = r]
    BY <1>2, Zenon DEF Ask
  <2>2. none.kind # "error"
    BY DEF NoResult
  <2> HIDE DEF none
  <2>3. r.ret.kind # "error"
    BY <2>2, Zenon
  <2> HIDE DEF r
  <2> QED
    BY <2>1, <2>3, Zenon DEF Resolved, IInv
<1>3. ASSUME NEW t \in Caller, Deliver(t)
      PROVE  Resolved'
  <2> DEFINE f == Top(t)
             r == [result[t] EXCEPT !.ret = f.ret]
  <2>1. /\ result' = [result EXCEPT ![t] = r] /\ stack[t] # << >> /\ Len(stack[t]) = 1
        /\ f.pc = "return"
    BY <1>3 DEF Deliver, Running
  <2>2. StackInv(stack[t], result[t].name) /\ f \in Frame
    BY <2>1, TopIs, Zenon
  <2>3. f.name = result[t].name /\ f.depth = 0
    BY <2>1, <2>2 DEF StackInv, Top, Innermost
  <2>4. Good(f)
    BY <2>1, TopGood, Zenon DEF Healthy
  <2>5. r.name = result[t].name /\ r.ret = f.ret
    BY DEF IInv
  <2> HIDE DEF f
  <2>6. ASSUME f.name \in Resolvable
        PROVE  f.ret.kind # "error"
    <3>1. Nesting[f.name] \in 0 .. MaxDepth /\ MaxDepth \in Nat
      BY <2>6, IterationAssumption DEF Provisioned
    <3>2. Affordable(f)
      BY <2>3, <2>6, <3>1 DEF Affordable
    <3> QED
      BY <2>1, <2>4, <3>2, Zenon DEF Good, NoError
  <2> HIDE DEF r
  <2>7. r.name \in Resolvable => r.ret.kind # "error"
    BY <2>3, <2>5, <2>6, Zenon
  <2> QED
    BY <2>1, <2>7, Zenon DEF Resolved, IInv
<1>4. UNCHANGED result \/ \E t \in Caller : Deliver(t) \/ \E q \in Question : Ask(t, q)
  BY Zenon DEF Next, vars, Forget, Step, TooDeep, Enter, GiveUp, NoResponse, ErrorCode,
     NxDomain, DirectAnswer, ChaseCname, FollowReferral, ResolveServerName, NoData,
     RevealFullName, ReturnCname, ReturnServerName
<1> QED
  BY <1>1, <1>2, <1>3, <1>4, Zenon

\* In every healthy name space, every name that the limits are enough for is resolved
\* without error, by however many resolutions at once, whatever they leave in the caches
\* and whenever the caches forget it.
THEOREM LimitsSuffice == Spec => []HealthyResolves
<1>1. CASE Provisioned
  <2>1. Init => Healthy /\ Resolved
    <3> SUFFICES ASSUME Init
                 PROVE  Healthy /\ Resolved
      OBVIOUS
    <3>1. Healthy
      BY DEF Init, Empty, Healthy, GoodDelegations, GoodAddresses, GoodStack
    <3>2. Resolved
      BY DEF Init, Resolved, NoResult
    <3> QED
      BY <3>1, <3>2
  <2>2. IInv /\ (Healthy /\ Resolved) /\ [Next]_vars => (Healthy /\ Resolved)'
    BY <1>1, HealthyStep, ResolvedStep, Zenon
  <2>3. Resolved => HealthyResolves
    BY DEF Resolved, HealthyResolves
  <2> QED
    BY <2>1, <2>2, <2>3, Inductive, PTL DEF Spec
<1>2. CASE ~ Provisioned
  <2>1. HealthyResolves
    BY <1>2, Zenon DEF HealthyResolves
  <2> QED
    BY <2>1, PTL
<1> QED
  BY <1>1, <1>2
=============================================================================
