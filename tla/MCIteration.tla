---------------------------- MODULE MCIteration ----------------------------
(***************************************************************************)
(* A name space for Iteration: com and net under the root, ex.com with two *)
(* servers, gl.com without glue (its server's name is in net), an empty    *)
(* non-terminal b.ex.com, a host www.ex.com with a name below it, an alias *)
(* across zones, a cycle of aliases, and lp.net, whose only server has its *)
(* name in lp.net itself and comes without glue.                           *)
(***************************************************************************)
EXTENDS Iteration, TLC

Com == <<"com">>
Net == <<"net">>
Ex == <<"com", "ex">>
Gl == <<"com", "gl">>
Lp == <<"net", "lp">>
NsLp == <<"net", "lp", "ns">>
WwwLp == <<"net", "lp", "www">>
NsNet == <<"net", "ns">>
HostNet == <<"net", "host">>
WwwEx == <<"com", "ex", "www">>
UnderWww == <<"com", "ex", "www", "x">>
UnderEnt == <<"com", "ex", "b", "a">>
AliasEx == <<"com", "ex", "al">>
Missing == <<"com", "ex", "no">>
WwwGl == <<"com", "gl", "www">>
UnderGl == <<"com", "gl", "www", "x">>
Cycle1 == <<"net", "l1">>
Cycle2 == <<"net", "l2">>

MCLabel == {"com", "net", "ex", "gl", "lp", "ns", "www", "host", "x", "a", "b", "al", "no",
            "l1", "l2"}
MCZone == {<< >>, Com, Net, Ex, Gl, Lp}
MCAddress == {"r", "c", "n", "e1", "e2", "g", "p", "h1", "h2", "h3", "h4", "h5", "h6"}
Servers(z) ==
    CASE z = << >> -> {"r"}
      [] z = Com -> {"c"}
      [] z = Net -> {"n"}
      [] z = Ex -> {"e1", "e2"}
      [] z = Gl -> {"g"}
      [] z = Lp -> {"p"}
MCServersOf == [z \in MCZone |-> Servers(z)]
MCGlueless == [z \in {Gl, Lp} |-> IF z = Gl THEN NsNet ELSE NsLp]
Hosts ==
    {<<NsNet, "g">>, <<NsLp, "p">>, <<HostNet, "h2">>, <<WwwEx, "h1">>, <<UnderWww, "h4">>,
     <<UnderEnt, "h5">>, <<WwwGl, "h3">>, <<UnderGl, "h6">>}
MCData == [n \in {h[1] : h \in Hosts} |-> {h[2] : h \in {g \in Hosts : g[1] = n}}]
MCAlias ==
    [n \in {AliasEx, Cycle1, Cycle2} |->
        CASE n = AliasEx -> HostNet [] n = Cycle1 -> Cycle2 [] n = Cycle2 -> Cycle1]

SharedQuestions == {WwwGl, UnderGl}
HardQuestions == {Cycle1, WwwLp, AliasEx, Missing, Ex}
DeepQuestions == {UnderEnt}

\* The names that two calls and four iterations are enough for, NsLp and the cycle not
\* among them.
MCResolvable == {WwwGl, UnderGl, NsNet, HostNet, AliasEx, UnderEnt}
MCNesting == [n \in MCResolvable |-> IF n \in {WwwGl, UnderGl, AliasEx} THEN 1 ELSE 0]
MCLevel == [z \in MCZone |-> Len(z)]

Symmetry == Permutations(Caller)
=============================================================================
