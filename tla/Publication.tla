----------------------------- MODULE Publication -----------------------------
(***************************************************************************)
(* The publication of a fleet's configuration: a run stages its bundle     *)
(* beside the output, looks at the output again, moves the old tree to a   *)
(* backup, renames the stage into place and removes the backup. Runs race  *)
(* each other and an operator; a call fails, a run stops, and the parent   *)
(* directory is replaced under an open handle.                             *)
(*                                                                         *)
(* A tree is its identity and its bytes, the ownership marker among them.  *)
(***************************************************************************)
EXTENDS Naturals, FiniteSets

CONSTANTS
  Publisher,  \* runs of fleetgen render
  Bundle,     \* [Publisher -> the bytes of its files]
  OldBytes,   \* the bytes of the tree published before
  Edit,       \* bytes of the operator's
  Marker,     \* OwnershipMarker
  Absent,     \* no tree
  MaxRuns,    \* bound on runs
  MaxEdits,   \* bound on edits of the operator
  MaxUpsets   \* bound on failed calls, stopped runs and a moved parent together

AnyFile == {Marker, Edit} \cup OldBytes \cup UNION {Bundle[p] : p \in Publisher}
AnyTree == [id : Nat, bytes : SUBSET AnyFile]

ASSUME PublicationBounds ==
  /\ {MaxRuns, MaxEdits, MaxUpsets} \subseteq Nat
  /\ Edit # Marker /\ Edit \notin OldBytes /\ Marker \notin OldBytes
  /\ \A p \in Publisher : {Edit, Marker} \cap Bundle[p] = {}
  /\ Absent \notin AnyTree

VARIABLES
  root,     \* the output
  stage,    \* .out.fleetgen-stage-* of a run
  backup,   \* .out.fleetgen-backup-* of a run
  moved,    \* the parent's path names another directory
  run,      \* what a run knows
  windowed, \* history: the output changed between a run's second look and its move
  crossed,  \* history: a run took back the tree of another
  answered, \* history: something is published, as far as anybody was told
  nextId, runs, edits, upsets

trees == <<root, stage, backup>>
history == <<windowed, crossed, answered>>
pubCounts == <<nextId, runs, edits, upsets>>
pubVars == <<trees, moved, run, history, pubCounts>>

NoRun == [pc |-> "off"]
Underway == {p \in Publisher : run[p].pc # "off"}
Exists(t) == t # Absent
Owned(t) == Marker \in t.bytes
Owner(p) == Bundle[p] \cup {Marker}
Leftovers == {p \in Publisher : Exists(stage[p]) \/ Exists(backup[p])}

Go(p, pc) == run' = [run EXCEPT ![p].pc = pc]
Return(p) == run' = [run EXCEPT ![p] = NoRun]
Upset == upsets < MaxUpsets /\ upsets' = upsets + 1 /\ UNCHANGED <<nextId, runs, edits>>
Stable == ~moved

\* The output changes under a run that has looked at it for the second time.
Windows ==
  windowed' = (windowed \/ (root' # root /\ \E q \in Underway : run[q].pc = "moveOld" /\ run'[q] = run[q]))

\* A directory renamed over one that has entries is refused.
Vacant(t) == t = Absent \/ t.bytes = {}

-----------------------------------------------------------------------------
(* A run *)

\* rejectLeftoversAt
Begin(p) ==
  /\ run[p] = NoRun /\ Leftovers = {} /\ Stable
  /\ runs < MaxRuns /\ runs' = runs + 1
  /\ run' = [run EXCEPT ![p] = [pc |-> "look", saw |-> Absent, id |-> 0]]
  /\ UNCHANGED <<trees, moved, history, nextId, edits, upsets>>

Look(p) ==
  /\ run[p].pc = "look"
  /\ run' = [run EXCEPT ![p] =
       IF Exists(root) /\ root.bytes # {} /\ ~Owned(root) THEN NoRun ELSE [@ EXCEPT !.pc = "mkdir", !.saw = root]]
  /\ UNCHANGED <<trees, moved, history, pubCounts>>

MakeStage(p) ==
  /\ run[p].pc = "mkdir"
  /\ stage' = [stage EXCEPT ![p] = [id |-> nextId, bytes |-> {}]]
  /\ nextId' = nextId + 1
  /\ run' = [run EXCEPT ![p].pc = "write", ![p].id = nextId]
  /\ UNCHANGED <<root, backup, moved, history, runs, edits, upsets>>

WriteStage(p) ==
  /\ run[p].pc = "write"
  /\ IF stage[p].bytes = Owner(p)
     THEN Go(p, "recheck") /\ UNCHANGED stage
     ELSE /\ \E b \in Owner(p) \ stage[p].bytes : stage' = [stage EXCEPT ![p].bytes = @ \cup {b}]
          /\ UNCHANGED run
  /\ UNCHANGED <<root, backup, moved, history, pubCounts>>

\* Mutant: the bytes are not compared
SameIdentity(p) == Exists(root) = Exists(run[p].saw) /\ (Exists(root) => root.id = run[p].saw.id)

\* sameRootState; a root that was absent must still be
SameRootState(p) == root = run[p].saw

Recheck(p) ==
  /\ run[p].pc = "recheck"
  /\ Go(p, IF ~SameRootState(p) \/ (Exists(root) /\ ~Stable) THEN "unstage"
           ELSE IF Exists(root) THEN "moveOld" ELSE "beforeSwap")
  /\ UNCHANGED <<trees, moved, history, pubCounts>>

MoveOld(p) ==
  /\ run[p].pc = "moveOld"
  /\ IF Exists(root)
     THEN root' = Absent /\ backup' = [backup EXCEPT ![p] = root] /\ Go(p, "afterMove")
     ELSE UNCHANGED <<root, backup>> /\ Go(p, "unstage")
  /\ Windows
  /\ UNCHANGED <<stage, moved, crossed, answered, pubCounts>>

\* The old tree goes back, unless another tree has taken its place.
PutBack(p) ==
  IF Exists(backup[p]) /\ Vacant(root)
  THEN root' = backup[p] /\ backup' = [backup EXCEPT ![p] = Absent]
  ELSE UNCHANGED <<root, backup>>

AfterMove(p) ==
  /\ run[p].pc = "afterMove"
  /\ IF Stable THEN Go(p, "beforeSwap") /\ UNCHANGED <<root, backup>>
     ELSE Go(p, "unstage") /\ PutBack(p)
  /\ Windows
  /\ UNCHANGED <<stage, moved, crossed, answered, pubCounts>>

\* Only the stage is cleaned up here, not the move before it.
BeforeSwap(p) ==
  /\ run[p].pc = "beforeSwap"
  /\ Go(p, IF Stable THEN "swap" ELSE "unstage")
  /\ UNCHANGED <<trees, moved, history, pubCounts>>

\* Mutant: the rename replaces whatever is there
SwapAnyway(p) ==
  /\ run[p].pc = "swap"
  /\ root' = stage[p] /\ stage' = [stage EXCEPT ![p] = Absent]
  /\ Go(p, "afterSwap") /\ UNCHANGED backup
  /\ Windows
  /\ UNCHANGED <<moved, crossed, answered, pubCounts>>

Swap(p) ==
  /\ run[p].pc = "swap"
  /\ IF Vacant(root)
     THEN /\ root' = stage[p] /\ stage' = [stage EXCEPT ![p] = Absent]
          /\ Go(p, "afterSwap") /\ UNCHANGED backup
     ELSE Go(p, "unstage") /\ PutBack(p) /\ UNCHANGED stage
  /\ Windows
  /\ UNCHANGED <<moved, crossed, answered, pubCounts>>

AfterSwap(p) ==
  /\ run[p].pc = "afterSwap"
  /\ IF ~Stable THEN Go(p, "undo") /\ UNCHANGED answered
     ELSE IF Exists(backup[p]) THEN Go(p, "beforeClean") /\ UNCHANGED answered
     ELSE Return(p) /\ answered' = TRUE
  /\ UNCHANGED <<trees, moved, windowed, crossed, pubCounts>>

\* A moved parent leaves the backup and a CommittedPublicationError.
BeforeClean(p) ==
  /\ run[p].pc = "beforeClean"
  /\ IF Stable THEN Go(p, "clean") /\ UNCHANGED answered ELSE Return(p) /\ answered' = TRUE
  /\ UNCHANGED <<trees, moved, windowed, crossed, pubCounts>>

\* removeEntry: the files one by one, then the directory
Emptied(t) == IF t.bytes = {} THEN {Absent} ELSE {[t EXCEPT !.bytes = @ \ {b}] : b \in t.bytes}

Unstage(p) ==
  /\ run[p].pc = "unstage"
  /\ IF Exists(stage[p])
     THEN (\E t \in Emptied(stage[p]) : stage' = [stage EXCEPT ![p] = t]) /\ UNCHANGED run
     ELSE Return(p) /\ UNCHANGED stage
  /\ UNCHANGED <<root, backup, moved, history, pubCounts>>

\* Mutant: the backup goes before the stage is in place
CleanEarly == {"clean", "swap"}

CleanAt == {"clean"}

Clean(p) ==
  /\ run[p].pc \in CleanAt
  /\ IF Exists(backup[p])
     THEN (\E t \in Emptied(backup[p]) : backup' = [backup EXCEPT ![p] = t]) /\ UNCHANGED <<run, answered>>
     ELSE Return(p) /\ answered' = TRUE /\ UNCHANGED backup
  /\ UNCHANGED <<root, stage, moved, windowed, crossed, pubCounts>>

\* The new tree is taken back: whichever tree is at the output by now.
Undo(p) ==
  /\ run[p].pc = "undo"
  /\ IF Exists(root)
     THEN /\ run' = [run EXCEPT ![p].pc = "remove", ![p].id = root.id]
          /\ crossed' = (crossed \/ root.id # run[p].id)
          /\ UNCHANGED <<root, backup>>
     ELSE PutBack(p) /\ Return(p) /\ UNCHANGED crossed
  /\ Windows
  /\ UNCHANGED <<stage, moved, answered, pubCounts>>

\* The open directory loses its files wherever it is by now, then its entry.
Without(t, id, b) == IF Exists(t) /\ t.id = id THEN [t EXCEPT !.bytes = @ \ {b}] ELSE t
Opened(id) == {t \in {root} \cup {backup[q] : q \in Publisher} : Exists(t) /\ t.id = id}

RemoveNew(p) ==
  /\ run[p].pc = "remove"
  /\ \/ \E t \in Opened(run[p].id) : \E b \in t.bytes :
          /\ root' = Without(root, run[p].id, b)
          /\ backup' = [q \in Publisher |-> Without(backup[q], run[p].id, b)]
          /\ crossed' = (crossed \/ b \notin Owner(p))
          /\ UNCHANGED run
     \/ /\ \A t \in Opened(run[p].id) : t.bytes = {}
        /\ UNCHANGED crossed
        /\ IF Exists(root) /\ root.id = run[p].id
           THEN root' = Absent /\ Go(p, "undo") /\ UNCHANGED backup
           ELSE PutBack(p) /\ Return(p)
  /\ Windows
  /\ UNCHANGED <<stage, moved, answered, pubCounts>>

\* A call fails: a removal is given up with what it has removed, a move or
\* the swap is taken back (unless that fails too), everything before them
\* cleans up the stage.
CallFails(p) ==
  /\ Upset
  /\ LET pc == run[p].pc
     IN  \/ pc \in {"look", "mkdir", "unstage"} /\ Return(p) /\ UNCHANGED <<root, backup, answered>>
         \/ pc \in {"beforeClean", "clean"} /\ Return(p) /\ answered' = TRUE /\ UNCHANGED <<root, backup>>
         \/ pc \in {"write", "recheck", "moveOld", "beforeSwap"} /\ Go(p, "unstage") /\ UNCHANGED <<root, backup, answered>>
         \/ pc \in {"afterMove", "swap"} /\ Go(p, "unstage") /\ UNCHANGED answered
            /\ (PutBack(p) \/ UNCHANGED <<root, backup>>)
         \/ pc = "afterSwap" /\ Go(p, "undo") /\ UNCHANGED <<root, backup, answered>>
         \/ pc \in {"undo", "remove"} /\ Return(p) /\ UNCHANGED answered
            /\ (PutBack(p) \/ UNCHANGED <<root, backup>>)
  /\ Windows
  /\ UNCHANGED <<stage, moved, crossed>>

Stops(p) == p \in Underway /\ Upset /\ Return(p) /\ UNCHANGED <<trees, moved, history>>

-----------------------------------------------------------------------------
(* Others *)

ParentMoves == Stable /\ moved' = TRUE /\ Upset /\ UNCHANGED <<trees, run, history>>

\* The operator edits the output, or puts an own tree where there is none.
Edits ==
  /\ edits < MaxEdits /\ edits' = edits + 1
  /\ IF Exists(root) THEN root' = [root EXCEPT !.bytes = @ \cup {Edit}] /\ UNCHANGED nextId
     ELSE root' = [id |-> nextId, bytes |-> {Edit}] /\ nextId' = nextId + 1
  /\ UNCHANGED <<stage, backup, moved, run, crossed, answered, runs, upsets>>
  /\ Windows

\* "remove it only after inspection": with no run underway, the operator puts a
\* backup back where the output is missing or not whole, and removes the rest.
Whole(t) == Exists(t) /\ (t.bytes = {Edit} \/ \E bytes \in {OldBytes} \cup {Bundle[p] : p \in Publisher} :
                            bytes \cup {Marker} \subseteq t.bytes)

Inspect ==
  /\ Underway = {} /\ Leftovers # {}
  /\ root' = IF Whole(root) \/ ~\E p \in Publisher : Whole(backup[p]) THEN root
             ELSE backup[CHOOSE p \in Publisher : Whole(backup[p])]
  /\ stage' = [p \in Publisher |-> Absent] /\ backup' = [p \in Publisher |-> Absent]
  /\ UNCHANGED <<moved, run, history, pubCounts>>

PubInit ==
  /\ root \in {Absent, [id |-> 0, bytes |-> OldBytes \cup {Marker}]}
  /\ stage = [p \in Publisher |-> Absent] /\ backup = [p \in Publisher |-> Absent]
  /\ moved = FALSE /\ run = [p \in Publisher |-> NoRun] /\ windowed = FALSE /\ crossed = FALSE /\ answered = Exists(root)
  /\ nextId = 1 /\ runs = 0 /\ edits = 0 /\ upsets = 0

PubNext ==
  \/ ParentMoves \/ Edits \/ Inspect
  \/ \E p \in Publisher :
       \/ Begin(p) \/ Look(p) \/ MakeStage(p) \/ WriteStage(p) \/ Recheck(p) \/ MoveOld(p)
       \/ AfterMove(p) \/ BeforeSwap(p) \/ Swap(p) \/ AfterSwap(p) \/ BeforeClean(p)
       \/ Unstage(p) \/ Clean(p) \/ Undo(p) \/ RemoveNew(p) \/ CallFails(p) \/ Stops(p)

PubSpec == PubInit /\ [][PubNext]_pubVars

-----------------------------------------------------------------------------
(* Properties *)

Tree == {Absent} \cup AnyTree

\* Type invariant of the publication.
PubTypeOK ==
  /\ root \in Tree /\ stage \in [Publisher -> Tree] /\ backup \in [Publisher -> Tree]
  /\ moved \in BOOLEAN /\ windowed \in BOOLEAN /\ crossed \in BOOLEAN /\ answered \in BOOLEAN

\* Once something is published a whole tree exists, as the output or as a
\* backup, at every moment: also when a run stops or a call fails between the
\* two renames, and whatever two runs do to each other (Publish, "attempting
\* rollback here could silently lose bytes from the old publication").
WholeTreeExists ==
  answered /\ ~crossed => Whole(root) \/ \E p \in Publisher : Whole(backup[p])

\* An output that is missing or not whole is never met in silence: a run is
\* underway or a leftover makes the next one refuse (CommittedPublicationError:
\* "let the next invocation refuse the interrupted transaction").
MissingIsReported ==
  answered /\ ~crossed /\ ~Whole(root) => Underway # {} \/ Leftovers # {}

PublicationIsSound == PubTypeOK /\ WholeTreeExists /\ MissingIsReported

\* What the operator put into the output goes only with an owned tree a run
\* had seen it in, or when the output changed after that run's second look
\* (sameRootState: "publication must not replace that edit").
AllBytes == UNION ({t.bytes : t \in {root} \ {Absent}} \cup {backup[p].bytes : p \in {q \in Publisher : Exists(backup[q])}})

EditTakenAway == Edit \in AllBytes /\ Edit \notin AllBytes'

EditsSurvive ==
  [][EditTakenAway =>
       \/ windowed \/ crossed' \/ Inspect
       \/ \E p \in Underway : Exists(run[p].saw) /\ {Edit, Marker} \subseteq run[p].saw.bytes]_pubVars
=============================================================================
