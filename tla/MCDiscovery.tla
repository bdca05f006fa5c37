---------------------------- MODULE MCDiscovery ----------------------------
\* Instances of Discovery for TLC: weights and floor of config/settings.yaml,
\* and votes computed from a few inputs of each source.
EXTENDS Discovery, TLC

Shipped == [congress |-> 60, technical |-> 35, news |-> 15,
            fundamentals |-> 15, volatility |-> 15, social |-> 15]

\* As shipped, technical and news, with one optional source each; and a phase
\* without technical.
SomeConfigs == {{"technical", "news", "volatility"}, {"fundamentals", "news"},
                {"congress", "social"}}

Each(V) == [Symbols -> V]

Ranked == {PercentileVotes(f) : f \in [Symbols -> {NoVote, 1, 2}]}

Posts == [tickers : SUBSET Symbols, upvotes : {-3, 40}]

Ranking == {PercentileVotes(Buzz(<<p, q>>, Symbols)) : p \in Posts, q \in Posts}

SomeInputs ==
  [congress     |-> Each({CongressVote(30, b, 60) : b \in {0, 1, 3}}),
   technical    |-> Each({NoVote, TechnicalVote(60, "noise"), TechnicalVote(90, "validated")}),
   news         |-> Each({NewsVote(p, 1) : p \in {1, 2, 4}}),
   fundamentals |-> Each({FundamentalsVote(NoVote, NoVote, "real"), FundamentalsVote("no", NoVote, "small"),
                          FundamentalsVote("yes", 20, "real")}),
   volatility   |-> Ranked,
   social       |-> Ranking]
=============================================================================
