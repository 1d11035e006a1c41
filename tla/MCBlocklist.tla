---------------------------- MODULE MCBlocklist ----------------------------
(***************************************************************************)
(* A small instance of Blocklist: the names x, a.x, b.a.x and y, a source  *)
(* that changes and fails, and a dependable one after it.                  *)
(***************************************************************************)
EXTENDS Blocklist

X == <<"x">>
AX == <<"a", "x">>
BAX == <<"b", "a", "x">>
Y == <<"y">>

Line(form, name) == [form |-> form, name |-> name]

TwoSources == <<"flaky", "steady">>

Editions ==
    [flaky |-> {{Line("hosts", X), Line("comment", << >>)},
                {Line("adblock", AX), Line("bareip", << >>)}},
     steady |-> {{Line("domain", BAX), Line("wild", Y)}, {Line("domain", BAX)}}]

Entry(name, sep, value) == [name |-> name, sep |-> sep, value |-> value]

Configs ==
    {[enabled |-> TRUE, manual |-> {}, white |-> {}, custom_dns |-> {}],
     [enabled |-> TRUE, manual |-> {Line("domain", Y)}, white |-> {AX}, custom_dns |-> {}],
     [enabled |-> TRUE, manual |-> {Line("wild", X)}, white |-> {<<"sub">> \o X},
      custom_dns |-> {Entry(X, " ", <<"10.0.0.2">>), Entry(AX, "=", <<"fd00", "", "1">>)}],
     [enabled |-> TRUE, manual |-> {Line("wild", << >>)}, white |-> {Y},
      custom_dns |-> {Entry(AX, ":", <<"none">>), Entry(Y, "=", <<"none">>),
                      Entry(X, "", <<"">>)}],
     [enabled |-> TRUE, manual |-> {}, white |-> {X},
      custom_dns |-> {Entry(AX, " ", <<"", "", "1">>), Entry(Y, " ", <<"fd00", "", "1">>)}],
     [enabled |-> FALSE, manual |-> {Line("domain", X)}, white |-> {}, custom_dns |-> {}]}
=============================================================================
