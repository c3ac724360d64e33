------------------------------ MODULE MCCluster ------------------------------
(* Instances of Cluster for TLC. *)
EXTENDS Cluster, MCDeployments

\* SQLite with a session shared, in a process that may move, or one each; MySQL
\* with one each; and files that open nothing, or no table that lasts: no
\* password, no url, in memory.
Supported ==
  {Deployment(<<SqliteFile>>, Together(s), Containers \union Actual) : s \in {s1, s2}}
    \union {Deployment(<<SqliteFile>>, Apart, Containers)}
    \union {Deployment(files, Apart, Actual) :
               files \in {<<MysqlUrl, Credentials>>, <<MysqlUrl>>,
                         <<Credentials>>, <<InMemory>>}}

\* What the theorems suppose of the sessions holds of these, and what is proved of
\* every layout, of this one.
ASSUME TheoremsApply == SessionsSupported
ASSUME LayoutLemmas == LayoutSeparates

\* Of each id that fits, a uid that a larger id issues as well; and one that no
\* other id issues.
WatchedUids ==
  {uid(MaxUid, id) : id \in 0 .. maxWorkerId} \union {uid(1, maxWorkerId)}
ASSUME LargerIdsSpill ==
  \A id \in 0 .. maxWorkerId :
    \E larger \in maxWorkerId + 1 .. MaxKey, n \in 0 .. MaxUid :
      uid(n, larger) = uid(MaxUid, id)

\* The callers with their sessions are interchangeable.
Same == [x \in {c1, c2, s1, s2} |-> x]
Swapped ==
  [x \in {c1, c2, s1, s2} |->
     IF x = c1 THEN c2 ELSE IF x = c2 THEN c1 ELSE IF x = s1 THEN s2 ELSE s1]
Symmetry == {p \in Permutations({c1, c2, s1, s2}) : p \in {Same, Swapped}}
=============================================================================
