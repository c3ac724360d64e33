----------------------------- MODULE MCWorkerId -----------------------------
(* Instances of WorkerIdAssigner for TLC: generators that share a connection. *)
EXTENDS WorkerIdAssigner, MCDeployments

SharedMysql ==
  {Deployment(<<SqliteFile, MysqlUrl \o Credentials>>, Together(s1), Containers)}
=============================================================================
