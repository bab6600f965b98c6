---------------------------- MODULE LegacyImport ----------------------------
(***************************************************************************)
(* The first boots of a league that comes from a JSON state file           *)
(* (internal/league/sqlmigrate.go). A boot opens or creates the database,  *)
(* decides which of database and file is the league, imports the file in   *)
(* one transaction that also marks the database, and renames the file. The *)
(* process may stop between any two of these steps, and a rename that was  *)
(* not synced may then be undone. Operators put files back.                *)
(***************************************************************************)
EXTENDS Integers

CONSTANTS
  Bytes,            \* contents of a legacy state file, each another league
  Native, NoMark,   \* the marker of a league born in SQLite; no marker
  Empty, Nothing,   \* the league without a history; no file
  MaxStops, MaxPuts \* bounds: stopped boots, files an operator puts there

\* A marker names the file a league came from by its bytes (SHA-256)
ASSUME ImportNames ==
  /\ {Native, NoMark, Empty, Nothing} \cap Bytes = {}
  /\ Native # NoMark

VARIABLES
  json,             \* the legacy file, Nothing or its bytes
  kept,             \* the .imported copy
  league,           \* the database: absent, only a schema, or a league
  phase,            \* of the boot
  fresh,            \* this boot created the database file
  unsynced,         \* a rename or removal the directory may forget
  original,         \* history: the file the league came from
  stops, puts

importVars == <<json, kept, league, phase, fresh, unsynced, original, stops, puts>>

NoDatabase == [is |-> "absent"]
SchemaOnly == [is |-> "schema"]
League(mark, of) == [is |-> "league", mark |-> mark, of |-> of]

HasRows == league.is = "league"
Mark    == IF HasRows THEN league.mark ELSE NoMark

Files == [json |-> json, kept |-> kept]

-----------------------------------------------------------------------------

\* Mutant: any database this boot created is removed
DropsDatabaseAlways == fresh

\* abandonLocked removes a database it created unless it is marked
DropsDatabase == fresh /\ Mark = NoMark

Fail ==
  /\ phase' = "failed"
  /\ league' = IF DropsDatabase THEN NoDatabase ELSE league
  /\ UNCHANGED <<json, kept, fresh, unsynced, original, stops, puts>>

\* openDB, migrateDB
Open ==
  /\ phase = "open"
  /\ fresh' = (league = NoDatabase)
  /\ league' = IF league = NoDatabase THEN SchemaOnly ELSE league
  /\ phase' = "decide"
  /\ UNCHANGED <<json, kept, unsynced, original, stops, puts>>

GoTo(p) == phase' = p /\ UNCHANGED <<json, kept, league, fresh, unsynced, original, stops, puts>>

\* Mutant: an unmarked league is marked without a comparison to the file
DecideUncompared ==
  IF Mark # NoMark
  THEN IF json = Nothing \/ (json # Mark /\ kept = Mark) THEN "serve"
       ELSE IF json = Mark THEN "finish" ELSE "fail"
  ELSE IF json = Nothing THEN IF HasRows THEN "serve" ELSE "native"
  ELSE IF HasRows THEN "mark" ELSE "import"

\* Mutant: any file left beside a marked database stops the boot
DecideStrictly ==
  IF Mark # NoMark THEN IF json = Nothing THEN "serve" ELSE "fail"
  ELSE IF json = Nothing THEN IF HasRows THEN "serve" ELSE "native"
  ELSE IF HasRows THEN IF league.of = json THEN "mark" ELSE "fail"
  ELSE "import"

\* reconcileMarkedAuthority; recoverUnmarkedImport and importJSONLocked
Decide ==
  IF Mark = Native THEN IF json = Nothing THEN "serve" ELSE "fail"
  ELSE IF Mark # NoMark
       THEN IF json = Nothing THEN "serve"
            ELSE IF json = Mark THEN "finish"
            ELSE IF kept = Mark THEN "serve" ELSE "fail"
  ELSE IF json = Nothing THEN IF HasRows THEN "serve" ELSE "native"
  ELSE IF HasRows THEN IF league.of = json THEN "mark" ELSE "fail"
  ELSE "import"

DecideStep ==
  /\ phase = "decide"
  /\ IF Decide = "fail" THEN Fail ELSE GoTo(Decide)

\* One transaction writes a league with its marker; it may fail, or land and
\* be reported failed, and then the mark keeps the database
WriteLeague(p, mark, of, then) ==
  /\ phase = p
  /\ \/ Fail
     \/ /\ league' = League(mark, of)
        /\ phase' \in {then, "failed"}
        /\ UNCHANGED <<json, kept, fresh, unsynced, original, stops, puts>>

Import     == json # Nothing /\ WriteLeague("import", json, json, "finish")
InitNative == WriteLeague("native", Native, Empty, "serve")
MarkOld    == WriteLeague("mark", json, league.of, "finish")

\* Mutant: the file is removed whatever the copy holds
CopyAllowsAny == TRUE

\* Another copy is never overwritten, nor the file removed for it
CopyAllows == kept \in {Nothing, json}

\* finishLegacyImportFile: rename, or remove the second copy. The file may
\* have been replaced since it was read.
Finish ==
  /\ phase = "finish"
  /\ IF json = Nothing THEN GoTo("serve")
     ELSE IF json # Mark \/ ~CopyAllows THEN Fail
     ELSE /\ kept' = json
          /\ json' = Nothing
          /\ unsynced' = Files
          /\ phase' = "sync"
          /\ UNCHANGED <<league, fresh, original, stops, puts>>

\* syncImportDirectory
Sync ==
  /\ phase = "sync"
  /\ \/ phase' = "serve" /\ unsynced' = Nothing /\ UNCHANGED league
     \/ /\ phase' = "failed" /\ UNCHANGED unsynced
        /\ league' = IF DropsDatabase THEN NoDatabase ELSE league
  /\ UNCHANGED <<json, kept, fresh, original, stops, puts>>

\* The process stops and is started again
Stop ==
  /\ stops < MaxStops
  /\ stops' = stops + 1
  /\ \/ UNCHANGED <<json, kept>>
     \/ unsynced # Nothing /\ json = Nothing /\ json' = unsynced.json /\ kept' = unsynced.kept
  /\ unsynced' = Nothing
  /\ phase' = "open" /\ fresh' = FALSE
  /\ UNCHANGED <<league, original, puts>>

\* An operator puts a state file at the old path of a league that has moved
PutFile ==
  /\ puts < MaxPuts /\ Mark # NoMark
  /\ json = Nothing
  /\ json' \in Bytes
  /\ puts' = puts + 1
  /\ UNCHANGED <<kept, league, phase, fresh, unsynced, original, stops>>

ImportInit ==
  /\ json \in Bytes \cup {Nothing}
  /\ kept \in {Nothing} \cup Bytes
  /\ kept # Nothing => json # Nothing
  \* the old importer left databases without a marker
  /\ league \in {NoDatabase} \cup {League(NoMark, b) : b \in Bytes}
  /\ json = Nothing => league = NoDatabase
  /\ original = json
  /\ phase = "open" /\ fresh = FALSE /\ unsynced = Nothing
  /\ stops = 0 /\ puts = 0

ImportNext ==
  \/ Open \/ DecideStep \/ Import \/ InitNative \/ MarkOld \/ Finish \/ Sync
  \/ Stop \/ PutFile

ImportSpec == ImportInit /\ [][ImportNext]_importVars

-----------------------------------------------------------------------------
(* Properties *)

Serving == phase = "serve"

\* A mark vouches for the league beside it.
ImportTypeOK ==
  /\ json \in Bytes \cup {Nothing} /\ kept \in Bytes \cup {Nothing}
  /\ phase \in {"open", "decide", "import", "native", "mark", "finish", "sync", "serve", "failed"}
  /\ Mark # NoMark => league.of = IF Mark = Native THEN Empty ELSE Mark

\* A league that came from a file is served from that file's import, or not at
\* all: never a blank one, nor one an operator's other file holds (openLocked).
ServesTheOriginal ==
  Serving => /\ HasRows
             /\ league.of = IF original = Nothing THEN Empty ELSE original

\* Stopped anywhere, with no file but the league's own, the next boot goes on
\* (reconcileMarkedAuthority, recoverUnmarkedImport, finishLegacyImportFile).
StopsNeverStrand ==
  puts = 0 /\ kept \in {Nothing, original} /\ (HasRows => league.of \in {original, Empty}) =>
    /\ phase = "decide" => Decide # "fail"
    /\ phase = "finish" => json = Nothing \/ (json = Mark /\ CopyAllows)

\* No boot destroys a state file: its bytes stay under one of the two names
\* (finishLegacyImportFile).
BytesSurvive ==
  [][{json, kept} \ {Nothing} \subseteq {json', kept'}]_importVars

\* A mark once written stays, with the league it vouches for (abandonLocked).
MarkIsFinal == [][Mark # NoMark => league' = league]_importVars

\* A boot serves the league the file held, or stops where the next can go on
\* (openLocked).
ImportIsSafe == ImportTypeOK /\ ServesTheOriginal /\ StopsNeverStrand

\* No boot destroys the evidence: the file's bytes and a mark once written.
EvidenceSurvives == BytesSurvive /\ MarkIsFinal
=============================================================================
