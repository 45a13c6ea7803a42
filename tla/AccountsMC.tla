------------------------------- MODULE AccountsMC -------------------------------
(* An instance of the account subsystem for TLC: what meets in a scenario. *)
EXTENDS Accounts, TLC

Provision(c, p, s, n) ==
    [op |-> "provision", customer |-> c, provider |-> p, space |-> s, cause |-> n, nth |-> 1]

Again(r) == [r EXCEPT !.nth = 2]

\* Two customers and a provision sent again; one space with both providers.
Provisioned ==
    {{Provision("alice", "new", "s1", 1), Again(Provision("alice", "new", "s1", 1)),
      Provision("bob", "new", "s1", 2), Provision("alice", "old", "s1", 3)},
     {Provision("alice", "old", "s1", 1), Provision("bob", "new", "s1", 2), Provision("alice", "new", "s2", 3)}}

Delegate(D, a) == [op |-> "delegate", delegations |-> D, audience |-> a]
Find(a) == [op |-> "find", audience |-> a]
Revoke(op, d, s, n) == [op |-> op, revoke |-> d, scope |-> s, cause |-> n]
Check(d) == [op |-> "check", revoke |-> d]
GitHub(c, d, young) == [op |-> "github", customer |-> c, young |-> young, delegations |-> {d}, audience |-> "agent"]

Delegated ==
    {{Delegate({1, 2}, "agent"), Delegate({3}, "agent"), Find("agent")},
     {Delegate({1}, "agent"), Find("agent"), GitHub("alice", 2, FALSE), GitHub("bob", 3, TRUE)},
     {Revoke("revoke", 1, "alice", 2), Revoke("revoke", 1, "bob", 3), Revoke("reset", 1, "alice", 4),
      Revoke("reset", 1, "bob", 5), Check(1)}}

Req(op, c, p, n) == [op |-> op, customer |-> c, plan |-> p, n |-> n]
Hook(n) == [op |-> "hook", n |-> n]
Sso(c, d, trial) == [op |-> "sso", customer |-> c, trial |-> trial, delegations |-> {d}, audience |-> "agent"]
Human(c, n) == [op |-> "humanode", customer |-> c, sub |-> "face", n |-> n]

\* A customer who pays twice, changes plan and address, signs up elsewhere, or at once.
Paying ==
    {{Req("checkout", "alice", "lite", 1), Hook(1), Req("email", "bob", None, 1), Req("resubscribe", None, "big", 1), Hook(2)},
     {Req("checkout", "alice", "lite", 1), Req("checkout", "alice", "big", 2), Hook(1), Hook(2), GitHub("alice", 1, FALSE)},
     {Req("checkout", "alice", "lite", 1), Req("initialize", "alice", "lite", 1), Hook(1), Req("setplan", "alice", "big", 1)},
     {Req("checkout", "alice", "lite", 1), Human("alice", 1), Human("bob", 2), Hook(1), GitHub("bob", 1, FALSE)},
     {Req("checkout", "alice", "lite", 1), Sso("alice", 1, TRUE), Sso("bob", 2, FALSE), Hook(1), Find("agent")}}

Dedupe(groups, n) == [op |-> "dedupe", groups |-> groups, n |-> n]
Migrate(prices, n) == [op |-> "migrate", prices |-> prices, n |-> n]
Groups == ("alice" :> {1, 2}) @@ ("b+b" :> {3, 4})

Migrations ==
    {{Migrate(<<"lite">>, 1), Migrate(<<"lite">>, 2)},
     {Migrate(<<"lite", "big">>, 1), Migrate(<<"big">>, 2)}}

Tools ==
    {{Dedupe(Groups, 1), Dedupe(Groups, 2), Hook(1), Req("resubscribe", None, "big", 1)},
     {Dedupe(Groups, 1), Req("email", "bob", None, 1), Req("setplan", "b+b", "big", 1)},
     {Dedupe(Groups, 1), Req("resubscribe", None, "big", 1), Req("setplan", "b+b", "big", 1)}} \union Migrations

AllBatches == Provisioned \union Delegated \union Paying \union Tools

Owner(c, p, paid, recorded) == [customer |-> c, plan |-> p, paid |-> paid, recorded |-> recorded]

\* Two accounts of alice and two of a customer whose address is escaped.
StandingAccounts ==
    (1 :> Owner("alice", "lite", FALSE, TRUE)) @@ (2 :> Owner("alice", "big", FALSE, FALSE)) @@
    (3 :> Owner("b+b", "lite", FALSE, TRUE)) @@ (4 :> Owner("b+b", "lite", TRUE, FALSE))

NewPlans == ("lite" :> "newlite") @@ ("big" :> "newbig")
=============================================================================
