----------------------------- MODULE MCStoreParts -----------------------------
(***************************************************************************)
(* Five parts that share no step in one run: the seats, the write path,    *)
(* the import of a legacy file, the publication of the fleet's files and   *)
(* the registry of practice drafts. A behaviour stays in the part it       *)
(* starts in and the others keep one initial state, so the run explores    *)
(* their sum and not their product. The third fault of the write path is   *)
(* a restart.                                                              *)
(***************************************************************************)
EXTENDS MCSeats, Persistence, LegacyImport, MCPublication, MCPractice

VARIABLE storePart

SeatParts  == <<seatVars, seatPart>>
StoreParts == <<SeatParts, persistVars, importVars, pubVars, practiceVars, storePart>>

OneStart ==
  /\ storePart # "seats" => seatPart = "people"
  /\ storePart # "files" => root = Absent
  /\ storePart # "import" => json = Nothing /\ kept = Nothing /\ league = NoDatabase

StoreInit ==
  /\ MCSeatsInit /\ PersistInit /\ ImportInit /\ PubInit /\ PracticeInit
  /\ storePart \in {"seats", "writes", "import", "files", "practice"}
  /\ OneStart

WritesNext == PersistNext /\ (faults' = 3 => faults = 3 \/ answer' = Quiet)

StoreNext ==
  /\ storePart' = storePart
  /\ \/ storePart = "seats" /\ MCSeatsNext /\ UNCHANGED <<persistVars, importVars, pubVars, practiceVars>>
     \/ storePart = "writes" /\ WritesNext /\ UNCHANGED <<SeatParts, importVars, pubVars, practiceVars>>
     \/ storePart = "import" /\ ImportNext /\ UNCHANGED <<SeatParts, persistVars, pubVars, practiceVars>>
     \/ storePart = "files" /\ MCPubNext /\ UNCHANGED <<SeatParts, persistVars, importVars, practiceVars>>
     \/ storePart = "practice" /\ MCPracticeNext /\ UNCHANGED <<SeatParts, persistVars, importVars, pubVars>>

StoreSpec == StoreInit /\ [][StoreNext]_StoreParts

-----------------------------------------------------------------------------

\* The invariants of the two parts that work on files.
FilesAreSound == ImportIsSafe /\ PublicationIsSound

\* Their action properties.
FilesSurvive == EvidenceSurvives /\ EditsSurvive
=============================================================================
