---------------------------- MODULE Persistence ----------------------------
(***************************************************************************)
(* The Store's memory, its SQLite database and the index of the rows it    *)
(* believes are there (internal/league/store.go, sqlstore.go). A mutator   *)
(* changes memory, marks collections dirty and writes the difference       *)
(* between memory and the index in one transaction. The transaction may    *)
(* fail before the commit, or the commit may report an error with the      *)
(* rows stored or not. Identity operations and a league reset then read    *)
(* the database again; the other mutators do not.                          *)
(***************************************************************************)
EXTENDS Integers, FiniteSets

CONSTANTS
  Holder,              \* teams that may hold a badge or avatar, numbered in order
  Motif, Ref,          \* badge motifs, avatar objects
  Plain, Scalars,      \* the other collections, one row each; the kv table
  Value, Blank,        \* their contents; what a league reset leaves
  None,
  MaxFaults            \* bound: failed writes and restarts

Row    == Plain \cup ({"badge", "avatar"} \X Holder)
Col(r) == IF r \in Plain THEN r ELSE r[1]

ASSUME RowAssumption ==
  /\ Holder \subseteq Nat /\ Scalars \in Plain /\ Blank \in Value
  /\ Plain \cap ({"badge", "avatar"} \cup ({"badge", "avatar"} \X Holder)) = {}
  /\ None \notin Motif \cup Ref \cup [Row -> Value \cup Motif \cup Ref \cup {None}]

VARIABLES
  mem,                 \* Store.state
  index,               \* Store.shadow
  db,                  \* the database file
  dirty,               \* Store.dirty, as a set of collections
  failed,              \* Store.persistenceWriteError is set
  poison,              \* Store.persistencePoison, with poisonedState and -Dirty
  answer,              \* what the last operation was told
  blind,               \* history: an ordinary commit landed and was reported failed
  faults

persistVars == <<mem, index, db, dirty, failed, poison, answer, blind, faults>>

Pair(t) == {<<"badge", t>>, <<"avatar", t>>}

NotPoisoned == [mem |-> None, dirty |-> {}]
Poisoned    == poison # NotPoisoned
Said(style, said) == [style |-> style, said |-> said]
Quiet == Said("none", "none")

-----------------------------------------------------------------------------
(* One transaction *)

Marked(cols)   == dirty \cup cols \cup {Scalars}
Changed(m, d)  == {r \in Row : Col(r) \in d /\ m[r] # index[r]}
Put(s, m, d)   == [r \in Row |-> IF r \in Changed(m, d) THEN m[r] ELSE s[r]]

\* Mutant: only the rows of the caller's own collections are written
CommitsOwn(m, cols, style) ==
  /\ mem' = m
  /\ db' = Put(db, m, cols)
  /\ index' = Put(index, m, cols)
  /\ dirty' = {}
  /\ failed' = (failed /\ Changed(m, cols) = {})
  /\ answer' = Said(style, "ok")
  /\ UNCHANGED <<poison, blind, faults>>

\* writeDirtyLocked succeeds; only a write of some row shows health again
Commits(m, cols, style) ==
  LET d == Marked(cols)
  IN  /\ mem' = m
      /\ db' = Put(db, m, d)
      /\ index' = Put(index, m, d)
      /\ dirty' = {}
      /\ failed' = (failed /\ Changed(m, d) = {})
      /\ answer' = Said(style, "ok")
      /\ UNCHANGED <<poison, blind, faults>>

\* The database after a commit that reports an error
Outcomes(m, cols) == {db, Put(db, m, Marked(cols))}

Fault == faults < MaxFaults /\ faults' = faults + 1

-----------------------------------------------------------------------------
(* Ordinary mutators *)

\* What becomes of the change in memory: "keep" leaves it (ArmClock, SetReady),
\* "undo" takes it back if the transaction surely failed (PublishPlayoffPreview),
\* "drop" always does (ClaimFantasySeatTransaction), "unmark" too, but leaves
\* the marks (MakePick, ResetDraft)
Styles == {"keep", "undo", "drop", "unmark"}

\* Mutant: a write that kept its change loses its marks
LeavesMarksCleared(style, known) == FALSE

LeavesMarks(style, known) == style \in {"keep", "unmark"} \/ (style = "undo" /\ ~known)

Keeps(style, known) == style = "keep" \/ (style = "undo" /\ ~known)

\* Mutant: only a transaction that surely failed shows in health
HealthAfterKnown(known) == failed \/ known

HealthAfter(known) == TRUE

FailsOrdinary(style, m, cols, known) ==
  /\ mem' = IF Keeps(style, known) THEN m ELSE mem
  /\ dirty' = IF LeavesMarks(style, known) THEN Marked(cols) ELSE dirty
  /\ failed' = HealthAfter(known)
  /\ answer' = Said(style, "failed")
  /\ UNCHANGED <<index, poison>>

Ordinary(style, m, cols) ==
  /\ ~Poisoned /\ m # mem
  /\ \/ Commits(m, cols, style)
     \/ Fault /\ FailsOrdinary(style, m, cols, TRUE) /\ UNCHANGED <<db, blind>>
     \/ /\ Fault /\ FailsOrdinary(style, m, cols, FALSE)
        /\ db' \in Outcomes(m, cols)
        /\ blind' = (blind \/ db' # db)

ChangePlain(style, rows) ==
  \E f \in [rows -> Value] :
    /\ \A r \in rows : f[r] # mem[r]
    /\ Ordinary(style, [r \in Row |-> IF r \in rows THEN f[r] ELSE mem[r]], rows)

WithIdentity(t, badge, avatar) == [mem EXCEPT ![<<"badge", t>>] = badge, ![<<"avatar", t>>] = avatar]

Free(t, motif) == \A u \in Holder \ {t} : mem[<<"badge", u>>] # motif

\* ClaimFantasySeatTransaction: the new seat's badge, and no avatar
ClaimSeat(t, motif) ==
  /\ Free(t, motif)
  /\ Ordinary("drop", WithIdentity(t, motif, None), {"badge", "avatar", Scalars})

-----------------------------------------------------------------------------
(* Operations that reconcile: identity and ResetLeague *)

Agree(s, m, scope) == \A r \in scope : s[r] = m[r]

Restores(style) ==
  /\ UNCHANGED <<mem, dirty, poison>>
  /\ failed' = TRUE
  /\ answer' = Said(style, "failed")

\* Mutant: health forgets why the store is closed
PoisonsQuietly(style) ==
  /\ poison' = [mem |-> mem, dirty |-> dirty]
  /\ answer' = Said(style, "indeterminate")
  /\ UNCHANGED <<mem, index, dirty, failed>>

Poisons(style) ==
  /\ poison' = [mem |-> mem, dirty |-> dirty]
  /\ failed' = TRUE
  /\ answer' = Said(style, "indeterminate")
  /\ UNCHANGED <<mem, index, dirty>>

Publishes(style) ==
  /\ mem' = db' /\ index' = db' /\ dirty' = {} /\ failed' = FALSE
  /\ answer' = Said(style, "ok")
  /\ UNCHANGED poison

\* Mutant: after an unknown commit memory goes back without a look
ReconcilesBlindly(style, m, scope) == Restores(style) /\ UNCHANGED index

\* repairIdentityRows, at every load: an avatar wins over a badge, and of two
\* holders of a motif the first one keeps it
Repaired(s) ==
  LET bare(t) == s[<<"avatar", t>>] = None
      shared(t) == \E u \in Holder : u < t /\ bare(u) /\ s[<<"badge", u>>] = s[<<"badge", t>>]
  IN  [r \in Row |->
        IF r \notin Plain /\ r[1] = "badge" /\ (~bare(r[2]) \/ shared(r[2])) THEN None ELSE s[r]]

\* The database is read again
Reconciles(style, m, scope) ==
  IF Agree(db', m, scope) THEN Publishes(style)
  ELSE IF Agree(db', mem, scope) THEN Restores(style) /\ index' = db'
  ELSE Poisons(style)

\* mutateAvatarIdentity compares one seat's pair, reconcileResetPersistLocked
\* the whole state
Strict(style, m, cols, scope) ==
  /\ ~Poisoned /\ m # mem
  /\ \/ Commits(m, cols, style)
     \/ Fault /\ Restores(style) /\ UNCHANGED <<index, db, blind>>
     \/ /\ Fault
        /\ \/ /\ db' \in {Repaired(s) : s \in Outcomes(m, cols)}
              /\ Reconciles(style, m, scope)
           \/ db' \in Outcomes(m, cols) /\ Poisons(style)
        /\ blind' = (blind /\ answer'.said # "ok")

Identity(t, m) == Strict("identity", m, {"badge", "avatar"}, Pair(t))

\* claimBadgeForActor
ClaimBadge(t, motif) == Free(t, motif) /\ Identity(t, WithIdentity(t, motif, None))

\* Mutant: the avatar leaves the badge claimed
ActivateBesideBadge(t, ref) == Identity(t, [mem EXCEPT ![<<"avatar", t>>] = ref])

ActivateAvatar(t, ref) == Identity(t, WithIdentity(t, None, ref))

ClearAvatar(t) == mem[<<"avatar", t>>] # None /\ Identity(t, [mem EXCEPT ![<<"avatar", t>>] = None])

ReleaseBadge(t) == mem[<<"badge", t>>] # None /\ Identity(t, [mem EXCEPT ![<<"badge", t>>] = None])

ResetLeague ==
  Strict("reset", [r \in Row |-> IF r \in Plain THEN Blank ELSE None],
         Plain \cup {"badge", "avatar"}, Row)

-----------------------------------------------------------------------------

\* Mutant: a poisoned store fails the write but keeps the change
RefusesKeeping(m) == mem' = m /\ UNCHANGED dirty

\* persistLocked puts the poisoned baseline back
Refuses(m) == mem' = poison.mem /\ dirty' = poison.dirty

PoisonedWrite ==
  /\ Poisoned /\ faults < MaxFaults
  /\ \E r \in Plain : \E v \in Value \ {mem[r]} :
       /\ Refuses([mem EXCEPT ![r] = v])
       /\ answer' = Said("keep", "failed")
  /\ UNCHANGED <<index, db, failed, poison, blind, faults>>

\* The process ends, perhaps inside a write, and openLocked loads the database
Restart ==
  /\ Fault
  /\ \/ db' = Repaired(db)
     \/ /\ ~Poisoned
        /\ \E r \in Plain, v \in Value : \E s \in Outcomes([mem EXCEPT ![r] = v], {r}) : db' = Repaired(s)
  /\ mem' = db' /\ index' = db' /\ dirty' = {} /\ failed' = FALSE
  /\ poison' = NotPoisoned /\ answer' = Quiet /\ blind' = FALSE

Start == [r \in Row |-> IF r \in Plain THEN Blank ELSE None]

PersistInit ==
  /\ mem = Start /\ index = Start /\ db = Start
  /\ dirty = {} /\ failed = FALSE /\ poison = NotPoisoned
  /\ answer = Quiet /\ blind = FALSE /\ faults = 0

PersistNext ==
  \/ \E style \in Styles, rows \in SUBSET Plain : rows # {} /\ ChangePlain(style, rows)
  \/ \E t \in Holder, motif \in Motif : ClaimSeat(t, motif) \/ ClaimBadge(t, motif)
  \/ \E t \in Holder, ref \in Ref : ActivateAvatar(t, ref)
  \/ \E t \in Holder : ClearAvatar(t) \/ ReleaseBadge(t)
  \/ ResetLeague \/ PoisonedWrite \/ Restart

PersistSpec == PersistInit /\ [][PersistNext]_persistVars

-----------------------------------------------------------------------------
(* Properties *)

\* Rows hold what their collection may hold.
PersistTypeOK ==
  /\ \A s \in {mem, index, db} :
       /\ \A r \in Plain : s[r] \in Value
       /\ \A t \in Holder : s[<<"badge", t>>] \in Motif \cup {None} /\ s[<<"avatar", t>>] \in Ref \cup {None}
  /\ dirty \subseteq Plain \cup {"badge", "avatar"}
  /\ Poisoned => failed

\* Every row memory and database disagree on is marked for the next write,
\* whatever mixture of kept, undone and dropped changes came before
\* (persistLocked), unless an ordinary commit landed and was reported failed or
\* an identity commit could not be settled.
PendingIsMarked ==
  ~blind /\ ~Poisoned => \A r \in Row : mem[r] # db[r] => Col(r) \in dirty

\* Readiness shows an error while memory holds what the database does not
\* (PersistenceError), with the same exception.
HealthIsHonest ==
  ~blind /\ ~failed /\ ~Poisoned => mem = db

\* A motif has one holder and a seat has a badge or an avatar, in memory and in
\* what a restart would load (claimBadgeForActor, activateAvatar).
OneIdentity ==
  ~blind => \A s \in {mem, db} : \A t \in Holder :
    /\ s[<<"badge", t>>] # None => s[<<"avatar", t>>] = None
    /\ \A u \in Holder \ {t} : s[<<"badge", t>>] # None => s[<<"badge", u>>] # s[<<"badge", t>>]

\* Badges and avatars are shown only as the database has them: an unknown
\* commit is settled by a reading or closes identity (mutateAvatarIdentity,
\* reconcileResetPersistLocked, identityHealthyLocked).
IdentityIsStored ==
  ~blind /\ ~Poisoned => \A t \in Holder : Agree(mem, db, Pair(t))

\* Who is told "ok" has everything in memory in the database, earlier failed
\* writes included; an identity operation told "failed" changed nothing.
AnswerIsTrue ==
  [][~blind' =>
       /\ answer'.said = "ok" => db' = mem'
       /\ answer'.style \in {"identity", "reset"} /\ answer'.said = "failed"
            => db' = db /\ mem' = mem]_persistVars

\* A poisoned store accepts nothing until it is restarted (writeErrorLocked).
PoisonIsClosed ==
  [][Poisoned /\ Poisoned' => mem' = mem /\ db' = db /\ poison' = poison]_persistVars

\* Memory, index and database: what memory holds beyond the database is marked
\* dirty and shown by readiness, and identity is never ahead of the database
\* (persistLocked, reconcileResetPersistLocked).
MemoryIsAccountedFor ==
  PersistTypeOK /\ PendingIsMarked /\ HealthIsHonest /\ OneIdentity /\ IdentityIsStored

\* What a writer is told is true, and a poisoned store changes nothing.
AnswersAreTrue == AnswerIsTrue /\ PoisonIsClosed
=============================================================================
