------------------------------ MODULE DataSource ------------------------------
(***************************************************************************)
(* From the .properties files of a directory to the session they ask for:  *)
(* db/properties.ts, db/datasource.ts and what they open with.             *)
(*                                                                         *)
(* A file is the sequence of its lines <<key, value>>; the keys are        *)
(* "jdbc.url", "jdbc.username" and "jdbc.password".  A url is              *)
(* [scheme, location], its location blank when the text after the scheme   *)
(* does not name a database.                                               *)
(***************************************************************************)
EXTENDS Sequences, SequencesExt, TLC

Blank == "" \* unset, empty or whitespace

\* The last line of a key counts.
parseProperties(lines) ==
  FoldLeft(LAMBDA properties, line : (line[1] :> line[2]) @@ properties, <<>>, lines)

\* The files in the order of their names: a later one overrides.
loadProperties(files) ==
  FoldLeft(LAMBDA merged, file : parseProperties(file) @@ merged, <<>>, files)

\* 'Could not resolve placeholder', unless all are there.
Resolves(properties, keys) == keys \subseteq DOMAIN properties

\* Without a location: the database in memory, which no process outlives.
openSqliteSqlSession(properties) ==
  IF properties["jdbc.url"].location = Blank THEN "memory" ELSE "sqlite"

openMysqlSqlSession(properties) ==
  IF /\ properties["jdbc.url"].location # Blank
     /\ Resolves(properties, {"jdbc.username", "jdbc.password"})
    THEN "mysql" ELSE "refused"

openSqlSession(properties) ==
  IF ~Resolves(properties, {"jdbc.url"}) THEN "refused"
  ELSE LET scheme == properties["jdbc.url"].scheme
       IN  CASE scheme = "jdbc:sqlite:" -> openSqliteSqlSession(properties)
             [] scheme = "jdbc:mysql:" -> openMysqlSqlSession(properties)
             [] OTHER -> "refused"
=============================================================================
