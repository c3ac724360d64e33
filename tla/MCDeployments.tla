---------------------------- MODULE MCDeployments ----------------------------
(* Deployments for TLC: sessions, properties files and machines. *)
EXTENDS WorkerNode

CONSTANTS c1, c2, s1, s2

\* Generators that share a session of their process, or have one each.
Together(s) == (c1 :> s) @@ (c2 :> s)
Apart == (c1 :> s1) @@ (c2 :> s2)

Url(scheme, location) == [scheme |-> scheme, location |-> location]
UrlLine(url) == <<"jdbc.url", url>>
SqliteFile ==
  <<UrlLine(Url("jdbc:mysql:", "host")), UrlLine(Url("jdbc:sqlite:", "worker.db"))>>
InMemory == <<UrlLine(Url("jdbc:sqlite:", Blank))>>
MysqlUrl == <<UrlLine(Url("jdbc:mysql:", "host"))>>
Credentials == <<<<"jdbc.username", "user">>, <<"jdbc.password", "password">>>>

Environment(host, port, originalPort) ==
  [host |-> host, port |-> port, originalPort |-> originalPort]
Address(address, scope) ==
  [hostAddress |-> address, scope |-> scope, internal |-> scope = "loopback"]
lo == <<Address("127.0.0.1", "loopback")>>
eth == <<Address("169.254.0.1", "linkLocal"), Address("10.0.0.1", "site")>>

\* A container whose port has the other name, and one without a port; a machine
\* with an address that is passed over before a valid one, and one with none.
Containers ==
  {[env |-> Environment("h", Blank, p), nics |-> <<lo, eth>>] : p \in {"p", Blank}}
Actual ==
  {[env |-> Environment(Blank, Blank, Blank), nics |-> n] : n \in {<<lo>>, <<lo, eth>>}}

Deployment(files, sessionOf, machines) ==
  [files |-> files, sessionOf |-> sessionOf, machines |-> machines]
=============================================================================
