--------------------------- MODULE StorePartsProofs ---------------------------
(***************************************************************************)
(* What holds of four parts of the store's run for every value of their    *)
(* constants: of the write path, that memory is accounted for and what a   *)
(* writer is told is true; of the import of a legacy file, that a boot     *)
(* serves the league the file held, or stops where the next can go on; of  *)
(* the publication of the fleet's files, that a whole tree exists whatever *)
(* the runs do to each other, and that no edit of the operator is lost; of *)
(* the seats, that each has one holder and one board, that what hangs on   *)
(* them ends with the tenure, and that forms hit what they showed.         *)
(***************************************************************************)
EXTENDS MCStoreParts, FiniteSetTheorems, WellFoundedInduction, TLAPS

-----------------------------------------------------------------------------
(* The write path *)

Cell == Value \cup Motif \cup Ref \cup {None}

\* A state of the Store holds in each row what its collection may hold.
Typed(s) ==
  /\ s \in [Row -> Cell]
  /\ \A r \in Plain : s[r] \in Value
  /\ \A t \in Holder : s[<<"badge", t>>] \in Motif \cup {None} /\ s[<<"avatar", t>>] \in Ref \cup {None}

\* A badge has one holder, who shows no avatar.
Single(s) ==
  \A t \in Holder :
    /\ s[<<"badge", t>>] # None => s[<<"avatar", t>>] = None
    /\ \A u \in Holder \ {t} : s[<<"badge", t>>] # None => s[<<"badge", u>>] # s[<<"badge", t>>]

\* Two states that show the same badges and avatars
SameBadges(s, m) == \A t \in Holder : Agree(s, m, Pair(t))

\* Memory is ahead of the database only in rows that are marked
Ahead(m, s, d) == \A r \in Row : m[r] # s[r] => Col(r) \in d

Shapes ==
  /\ Typed(mem) /\ Typed(index) /\ Typed(db)
  /\ dirty \subseteq Plain \cup {"badge", "avatar"}
  /\ Poisoned => failed /\ poison = [mem |-> mem, dirty |-> dirty]

\* What holds while no ordinary commit was reported wrongly: the index is the
\* database unless the store is closed, and the marks cover the difference.
Books ==
  ~blind =>
    /\ Single(mem) /\ Single(db)
    /\ ~Poisoned => /\ index = db /\ Ahead(mem, db, dirty)
                    /\ SameBadges(mem, db) /\ (failed \/ mem = db)

PersistInv == Shapes /\ Books

-----------------------------------------------------------------------------
(* Rows, transactions and the repair at load *)

\* A row is a plain collection's, or the badge or the avatar of a seat.
LEMMA Rows ==
  /\ \A r \in Plain : r \in Row /\ Col(r) = r
  /\ \A t \in Holder : /\ <<"badge", t>> \in Row \ Plain /\ Col(<<"badge", t>>) = "badge"
                       /\ <<"avatar", t>> \in Row \ Plain /\ Col(<<"avatar", t>>) = "avatar"
  /\ \A r \in Row \ Plain : \E t \in Holder : r = <<"badge", t>> \/ r = <<"avatar", t>>
  /\ \A r \in Row : Col(r) \in Plain \cup {"badge", "avatar"}
BY RowAssumption DEF Row, Col

\* Writing some rows of one state into another gives a state.
LEMMA PutType ==
  ASSUME NEW s, NEW m, NEW d, Typed(s), Typed(m)
  PROVE  Typed(Put(s, m, d))
<1> DEFINE p == Put(s, m, d)
<1>1. \A r \in Row : p[r] \in {s[r], m[r]}
  BY DEF Put
<1>2. p \in [Row -> Cell]
  BY DEF Put, Typed
<1> HIDE DEF p
<1>3. Typed(p)
  BY <1>1, <1>2, Rows DEF Typed
<1> QED
  BY <1>3 DEF p

\* A transaction whose marks cover the difference writes all of it.
LEMMA PutAll ==
  ASSUME NEW m, NEW d, Typed(m), Typed(db), index = db, Ahead(m, db, d)
  PROVE  Put(db, m, d) = m
<1>1. \A r \in Row : Put(db, m, d)[r] = m[r]
  BY DEF Put, Changed, Ahead
<1> QED
  BY <1>1 DEF Put, Typed

\* What a load repairs is a state with one holder a badge.
LEMMA RepairType ==
  ASSUME NEW s, Typed(s)
  PROVE  Typed(Repaired(s)) /\ Single(Repaired(s))
<1> DEFINE p == Repaired(s)
           bare(t) == s[<<"avatar", t>>] = None
           shared(t) == \E u \in Holder : u < t /\ bare(u) /\ s[<<"badge", u>>] = s[<<"badge", t>>]
<1>1. \A t \in Holder : /\ p[<<"avatar", t>>] = s[<<"avatar", t>>]
                        /\ p[<<"badge", t>>] = IF ~bare(t) \/ shared(t) THEN None ELSE s[<<"badge", t>>]
  BY Rows DEF Repaired
<1>2. \A r \in Plain : p[r] = s[r]
  BY Rows DEF Repaired
<1>3. p \in [Row -> Cell]
  BY DEF Repaired, Typed, Cell
<1>4. Typed(p)
  BY <1>1, <1>2, <1>3 DEF Typed
<1>5. ASSUME NEW t \in Holder, NEW u \in Holder \ {t}, p[<<"badge", t>>] # None
      PROVE  p[<<"badge", u>>] # p[<<"badge", t>>]
  <2>1. t \in Nat /\ u \in Nat
    BY RowAssumption
  <2>2. CASE t < u
    BY <1>1, <1>5, <2>2
  <2>3. CASE u < t
    BY <1>1, <1>5, <2>3
  <2> QED
    BY <2>1, <2>2, <2>3
<1> HIDE DEF p
<1>6. Single(p)
  BY <1>1, <1>5 DEF Single
<1> QED
  BY <1>4, <1>6 DEF p

\* A state with one holder a badge needs no repair.
LEMMA RepairNothing ==
  ASSUME NEW s, Typed(s), Single(s)
  PROVE  Repaired(s) = s
<1> DEFINE p == Repaired(s)
<1>1. ASSUME NEW t \in Holder PROVE p[<<"badge", t>>] = s[<<"badge", t>>]
  <2>1. CASE s[<<"badge", t>>] = None
    BY <2>1, Rows DEF Repaired
  <2>2. CASE s[<<"badge", t>>] # None
    <3>a. \A u \in Holder : u < t => u # t
      BY RowAssumption
    <3>1. s[<<"avatar", t>>] = None /\ \A u \in Holder : u < t => s[<<"badge", u>>] # s[<<"badge", t>>]
      BY <2>2, <3>a DEF Single
    <3> QED
      BY <3>1, Rows DEF Repaired
  <2> QED
    BY <2>1, <2>2
<1>2. \A r \in Row : p[r] = s[r]
  <2>1. \A r \in Plain : p[r] = s[r]
    BY Rows DEF Repaired
  <2>2. \A t \in Holder : p[<<"avatar", t>>] = s[<<"avatar", t>>]
    BY Rows DEF Repaired
  <2> HIDE DEF p
  <2> QED
    BY <1>1, <2>1, <2>2, Rows
<1>3. p = [r \in Row |-> p[r]]
  BY DEF Repaired
<1> HIDE DEF p
<1>4. p = s
  BY <1>2, <1>3 DEF Typed
<1> QED
  BY <1>4 DEF p

-----------------------------------------------------------------------------
(* A write *)

\* A change an operation is about to write: it differs from memory in the
\* caller's collections only, and keeps badges apart.
Change(m, cols) ==
  /\ Typed(m) /\ cols \subseteq Plain \cup {"badge", "avatar"}
  /\ \A r \in Row : Col(r) \notin cols => m[r] = mem[r]
  /\ Single(mem) => Single(m)

\* The answer of a step is true, if the commits before it were reported.
TrueAnswer ==
  ~blind' =>
    /\ answer'.said = "ok" => db' = mem'
    /\ answer'.style \in {"identity", "reset"} /\ answer'.said = "failed" => db' = db /\ mem' = mem

\* The marks a write is made with cover what memory would be ahead by.
LEMMA MarksCover ==
  ASSUME NEW m, NEW cols, PersistInv, Change(m, cols), ~blind, ~Poisoned
  PROVE  Ahead(m, db, Marked(cols)) /\ Ahead(mem, db, Marked(cols))
BY DEF PersistInv, Books, Ahead, Change, Marked

\* The marks are names of collections.
LEMMA MarksType ==
  ASSUME NEW m, NEW cols, Shapes, Change(m, cols)
  PROVE  Marked(cols) \subseteq Plain \cup {"badge", "avatar"}
BY RowAssumption DEF Shapes, Change, Marked

\* A closed Store is one that remembers a state.
LEMMA ClosedIsPoisoned ==
  ASSUME Typed(mem)
  PROVE  [mem |-> mem, dirty |-> dirty] # NotPoisoned
<1>1. mem # None
  BY RowAssumption DEF Typed, Cell
<1> QED
  BY <1>1 DEF NotPoisoned

\* A write that commits leaves memory, index and database equal.
LEMMA CommitStep ==
  ASSUME NEW m, NEW cols, NEW style, PersistInv, ~Poisoned, Change(m, cols), Commits(m, cols, style)
  PROVE  PersistInv' /\ TrueAnswer
<1>1. Typed(Put(db, m, Marked(cols))) /\ Typed(Put(index, m, Marked(cols)))
  BY PutType DEF PersistInv, Shapes, Change
<1>2. mem' = m /\ db' = Put(db, m, Marked(cols)) /\ index' = Put(index, m, Marked(cols))
      /\ dirty' = {} /\ poison' = poison /\ blind' = blind /\ answer' = [style |-> style, said |-> "ok"]
  BY DEF Commits, Said
<1>3. Shapes'
  BY <1>1, <1>2 DEF Shapes, Change, Poisoned, Typed
<1>4. ASSUME ~blind PROVE db' = m /\ index' = m /\ Single(m)
  <2>1. index = db /\ Typed(m) /\ Typed(db) /\ Single(mem)
    BY <1>4 DEF PersistInv, Books, Shapes, Change
  <2>2. Put(db, m, Marked(cols)) = m
    BY <1>4, <2>1, PutAll, MarksCover
  <2> QED
    BY <1>2, <2>1, <2>2 DEF Change
<1>5. Books'
  BY <1>2, <1>4 DEF Books, Ahead, SameBadges, Agree, Single
<1> QED
  BY <1>2, <1>3, <1>4, <1>5 DEF PersistInv, TrueAnswer

\* An ordinary write that fails keeps or drops its change, marked as needed.
LEMMA FailedOrdinaryStep ==
  ASSUME NEW m, NEW cols, NEW style \in Styles, NEW known \in BOOLEAN,
         PersistInv, ~Poisoned, Change(m, cols), SameBadges(m, mem) \/ style = "drop",
         FailsOrdinary(style, m, cols, known), db' \in Outcomes(m, cols),
         blind' <=> (blind \/ db' # db)
  PROVE  PersistInv' /\ TrueAnswer
<1>1. mem' \in {m, mem} /\ dirty' \in {Marked(cols), dirty} /\ index' = index /\ poison' = poison
      /\ failed' = TRUE /\ answer' = [style |-> style, said |-> "failed"]
  BY DEF FailsOrdinary, Said, HealthAfter
<1>2. Typed(db')
  BY PutType DEF Outcomes, PersistInv, Shapes, Change
<1>3. Shapes'
  <2>1. Typed(mem') /\ Typed(index') /\ dirty' \subseteq Plain \cup {"badge", "avatar"}
    BY <1>1, MarksType DEF PersistInv, Shapes, Change
  <2>2. ~Poisoned'
    BY <1>1 DEF Poisoned
  <2> QED
    BY <1>2, <2>1, <2>2 DEF Shapes
<1>4. ASSUME ~blind' PROVE Books'
  <2>1. ~blind /\ db' = db
    BY <1>4
  <2>2. Single(mem) /\ Single(db) /\ index = db /\ Ahead(mem, db, dirty) /\ SameBadges(mem, db)
    BY <2>1 DEF PersistInv, Books
  <2>3. Single(mem') /\ Single(db')
    BY <1>1, <2>1, <2>2 DEF Change
  <2>4. Ahead(mem', db, dirty')
    <3>1. CASE mem' = m /\ dirty' = Marked(cols)
      BY <2>1, <3>1, MarksCover
    <3>2. CASE mem' = mem
      BY <1>1, <2>1, <2>2, <3>2, MarksCover
    <3> QED
      BY <1>1, <3>1, <3>2 DEF FailsOrdinary, Keeps, LeavesMarks, Styles
  <2>5. SameBadges(mem', db)
    <3>1. CASE mem' = mem
      BY <2>2, <3>1
    <3>2. CASE mem' = m /\ SameBadges(m, mem)
      BY <2>2, <3>2 DEF SameBadges, Agree
    <3> QED
      BY <1>1, <3>1, <3>2 DEF FailsOrdinary, Keeps
  <2> QED
    BY <1>1, <2>1, <2>2, <2>3, <2>4, <2>5 DEF Books
<1>5. Books'
  BY <1>4 DEF Books
<1> QED
  BY <1>1, <1>3, <1>5 DEF PersistInv, TrueAnswer, Styles

\* An ordinary mutator keeps the books, whatever becomes of its transaction.
LEMMA OrdinaryStep ==
  ASSUME NEW m, NEW cols, NEW style \in Styles, PersistInv, Change(m, cols),
         SameBadges(m, mem) \/ style = "drop", Ordinary(style, m, cols)
  PROVE  PersistInv' /\ TrueAnswer /\ ~Poisoned
<1>0. ~Poisoned
  BY DEF Ordinary
<1>1. CASE Commits(m, cols, style)
  BY <1>0, <1>1, CommitStep
<1>2. CASE FailsOrdinary(style, m, cols, TRUE) /\ UNCHANGED <<db, blind>>
  <2>1. db' \in Outcomes(m, cols) /\ (blind' <=> (blind \/ db' # db))
    BY <1>2 DEF Outcomes, PersistInv
  <2> QED
    BY <1>0, <1>2, <2>1, FailedOrdinaryStep
<1>3. CASE FailsOrdinary(style, m, cols, FALSE) /\ db' \in Outcomes(m, cols) /\ blind' = (blind \/ db' # db)
  BY <1>0, <1>3, FailedOrdinaryStep
<1> QED
  BY <1>0, <1>1, <1>2, <1>3 DEF Ordinary

-----------------------------------------------------------------------------
(* An operation that reconciles *)

\* A write that reconciles publishes what the database has, takes its change
\* back, or closes the Store.
LEMMA StrictStep ==
  ASSUME NEW m, NEW cols, NEW scope, NEW style \in {"identity", "reset"}, PersistInv, Change(m, cols),
         scope \subseteq Row, \A r \in Row \ scope : m[r] = mem[r],
         Strict(style, m, cols, scope)
  PROVE  PersistInv' /\ TrueAnswer /\ ~Poisoned
<1>0. ~Poisoned /\ m # mem
  BY DEF Strict
<1>1. CASE Commits(m, cols, style)
  BY <1>0, <1>1, CommitStep
<1>2. CASE Restores(style) /\ UNCHANGED <<index, db, blind>>
  <2>1. Shapes'
    BY <1>0, <1>2 DEF Restores, PersistInv, Shapes, Poisoned, Typed
  <2>2. Books'
    BY <1>2 DEF Restores, PersistInv, Books, Poisoned, Ahead, SameBadges, Agree, Single
  <2> QED
    BY <1>0, <1>2, <2>1, <2>2 DEF Restores, PersistInv, TrueAnswer, Said
<1>3. CASE /\ db' \in {Repaired(s) : s \in Outcomes(m, cols)}
           /\ Reconciles(style, m, scope)
           /\ blind' <=> (blind /\ answer'.said # "ok")
  <2>1. PICK s \in Outcomes(m, cols) : db' = Repaired(s)
    BY <1>3
  <2>2. Typed(s)
    BY PutType DEF Outcomes, PersistInv, Shapes, Change
  <2>3. Typed(db') /\ Single(db')
    BY <2>1, <2>2, RepairType
  <2>4. ASSUME ~blind PROVE db' \in {m, db} /\ Single(mem) /\ SameBadges(mem, db) /\ index = db /\ Ahead(mem, db, dirty)
    <3>1. index = db /\ Single(db) /\ Single(m) /\ Single(mem) /\ Typed(m) /\ Typed(db)
      BY <1>0, <2>4 DEF PersistInv, Books, Shapes, Change
    <3>2. s \in {m, db}
      BY <1>0, <2>4, <3>1, PutAll, MarksCover DEF Outcomes
    <3> QED
      BY <1>0, <2>1, <2>4, <3>1, <3>2, RepairNothing DEF PersistInv, Books
  <2>5. CASE Publishes(style)
    <3>1. Shapes' /\ Books'
      BY <1>0, <2>3, <2>5 DEF Publishes, Shapes, Books, Poisoned, Ahead, SameBadges, Agree, Typed
    <3> QED
      BY <1>0, <2>5, <3>1 DEF Publishes, PersistInv, TrueAnswer, Said
  <2>6. CASE Agree(db', mem, scope) /\ Restores(style) /\ index' = db'
    <3>1. Shapes'
      BY <1>0, <2>3, <2>6 DEF Restores, PersistInv, Shapes, Poisoned, Typed
    <3>2. ASSUME ~blind PROVE db' = db
      <4>1. CASE db' = m
        <5>1. \A r \in Row : m[r] = mem[r]
          BY <2>6, <4>1 DEF Agree
        <5>2. m = mem
          BY <5>1 DEF PersistInv, Shapes, Change, Typed
        <5> QED
          BY <1>0, <5>2
      <4> QED
        BY <2>4, <3>2, <4>1
    <3>3. blind' => blind
      BY <1>3
    <3>4. ~blind' => ~blind
      BY <1>3, <2>6 DEF Restores, Said
    <3>5. Books'
      BY <1>0, <2>3, <2>4, <2>6, <3>2, <3>4 DEF Restores, Books, Poisoned
    <3> QED
      BY <1>0, <2>6, <3>1, <3>2, <3>4, <3>5 DEF Restores, PersistInv, TrueAnswer, Said
  <2>7. CASE Poisons(style)
    <3>1. Typed(mem)
      BY DEF PersistInv, Shapes
    <3>2. Poisoned'
      BY <2>7, <3>1, ClosedIsPoisoned DEF Poisons, Poisoned, NotPoisoned
    <3>3. Shapes'
      BY <2>3, <2>7 DEF Poisons, PersistInv, Shapes, Poisoned, Typed
    <3>4. ~blind' => ~blind
      BY <1>3, <2>7 DEF Poisons, Said
    <3>5. Books'
      BY <2>3, <2>4, <2>7, <3>2, <3>4 DEF Poisons, Books, Single
    <3> QED
      BY <1>0, <2>7, <3>3, <3>5 DEF Poisons, PersistInv, TrueAnswer, Said
  <2> QED
    BY <1>3, <2>5, <2>6, <2>7 DEF Reconciles
<1>4. CASE /\ db' \in Outcomes(m, cols) /\ Poisons(style)
           /\ blind' <=> (blind /\ answer'.said # "ok")
  <2>1. Typed(db') /\ Typed(mem)
    BY <1>4, PutType DEF Outcomes, PersistInv, Shapes, Change
  <2>2. Poisoned'
    BY <1>4, <2>1, ClosedIsPoisoned DEF Poisons, Poisoned, NotPoisoned
  <2>3. Shapes'
    BY <1>4, <2>1 DEF Poisons, PersistInv, Shapes, Poisoned, Typed
  <2>4. ~blind' => ~blind
    BY <1>4 DEF Poisons, Said
  <2>5. ASSUME ~blind PROVE Single(mem) /\ Single(db')
    <3>1. index = db /\ Single(db) /\ Single(m) /\ Single(mem) /\ Typed(m) /\ Typed(db)
      BY <1>0, <2>5 DEF PersistInv, Books, Shapes, Change
    <3>2. db' \in {m, db}
      BY <1>0, <1>4, <2>5, <3>1, PutAll, MarksCover DEF Outcomes
    <3> QED
      BY <3>1, <3>2
  <2>6. Books'
    BY <1>4, <2>2, <2>4, <2>5 DEF Poisons, Books, Single
  <2> QED
    BY <1>0, <1>4, <2>3, <2>6 DEF Poisons, PersistInv, TrueAnswer, Said
<1> QED
  BY <1>0, <1>1, <1>2, <1>3, <1>4 DEF Strict

-----------------------------------------------------------------------------
(* The operations *)

\* Who shows the same badges and avatars has one holder a badge as well.
LEMMA SameSingle ==
  ASSUME NEW m, NEW s, Single(s),
         \A t \in Holder : m[<<"badge", t>>] = s[<<"badge", t>>] /\ m[<<"avatar", t>>] = s[<<"avatar", t>>]
  PROVE  Single(m)
BY DEF Single

\* A change of plain rows touches no badge and no avatar.
LEMMA PlainChange ==
  ASSUME NEW rows \in SUBSET Plain, NEW f \in [rows -> Value], Typed(mem),
         NEW m, m = [r \in Row |-> IF r \in rows THEN f[r] ELSE mem[r]]
  PROVE  Change(m, rows) /\ SameBadges(m, mem)
<1>1. \A r \in Row : m[r] = IF r \in rows THEN f[r] ELSE mem[r]
  OBVIOUS
<1>2. m \in [Row -> Cell]
  BY DEF Typed, Cell
<1>3. \A t \in Holder : m[<<"badge", t>>] = mem[<<"badge", t>>] /\ m[<<"avatar", t>>] = mem[<<"avatar", t>>]
  BY <1>1, Rows
<1>4. Typed(m)
  BY <1>1, <1>2, <1>3, Rows DEF Typed
<1>5. \A r \in Row : Col(r) \notin rows => m[r] = mem[r]
  BY <1>1, Rows
<1>6. SameBadges(m, mem)
  BY <1>3 DEF SameBadges, Agree, Pair
<1>7. Single(mem) => Single(m)
  BY <1>3, SameSingle
<1> QED
  BY <1>4, <1>5, <1>6, <1>7 DEF Change

\* A change of one seat's badge and avatar that leaves it at most one of them,
\* and no badge somebody else holds.
LEMMA IdentityChange ==
  ASSUME NEW t \in Holder, NEW badge \in Motif \cup {None}, NEW avatar \in Ref \cup {None}, Typed(mem),
         Single(mem) => /\ badge # None => avatar = None
                        /\ \A u \in Holder \ {t} : badge # None => mem[<<"badge", u>>] # badge,
         NEW m, m = WithIdentity(t, badge, avatar)
  PROVE  /\ Change(m, {"badge", "avatar"})
         /\ Pair(t) \subseteq Row /\ \A r \in Row \ Pair(t) : m[r] = mem[r]
<1>1. <<"badge", t>> \in Row /\ <<"avatar", t>> \in Row /\ <<"badge", t>> # <<"avatar", t>>
  BY Rows
<1>2. m[<<"badge", t>>] = badge /\ m[<<"avatar", t>>] = avatar
  BY <1>1 DEF WithIdentity, Typed
<1>3. \A r \in Row \ Pair(t) : m[r] = mem[r]
  BY <1>1 DEF WithIdentity, Typed, Pair
<1>4. m \in [Row -> Cell]
  BY <1>1 DEF WithIdentity, Typed, Cell
<1>5. \A r \in Plain : m[r] = mem[r]
  BY <1>3, Rows DEF Pair
<1>6. \A u \in Holder \ {t} : m[<<"badge", u>>] = mem[<<"badge", u>>] /\ m[<<"avatar", u>>] = mem[<<"avatar", u>>]
  BY <1>3, Rows DEF Pair
<1>7. Typed(m)
  BY <1>2, <1>4, <1>5, <1>6 DEF Typed
<1>8. Single(mem) => Single(m)
  <2> SUFFICES ASSUME Single(mem), NEW u \in Holder
               PROVE  /\ m[<<"badge", u>>] # None => m[<<"avatar", u>>] = None
                      /\ \A v \in Holder \ {u} : m[<<"badge", u>>] # None => m[<<"badge", v>>] # m[<<"badge", u>>]
    BY DEF Single
  <2>1. /\ badge # None => avatar = None
        /\ \A v \in Holder \ {t} : badge # None => mem[<<"badge", v>>] # badge
    OBVIOUS
  <2>2. CASE u = t
    BY <1>2, <1>6, <2>1, <2>2
  <2>3. CASE u # t
    <3>1. /\ mem[<<"badge", u>>] # None => mem[<<"avatar", u>>] = None
          /\ \A v \in Holder \ {u} : mem[<<"badge", u>>] # None => mem[<<"badge", v>>] # mem[<<"badge", u>>]
      BY DEF Single
    <3>2. m[<<"badge", u>>] # None => m[<<"badge", t>>] # m[<<"badge", u>>]
      BY <1>2, <1>6, <2>1, <2>3
    <3> QED
      BY <1>2, <1>6, <2>3, <3>1, <3>2
  <2> QED
    BY <2>2, <2>3
<1>9. \A r \in Row : Col(r) \notin {"badge", "avatar"} => m[r] = mem[r]
  <2>1. \A r \in Row : Col(r) \notin {"badge", "avatar"} => r \in Plain
    <3>1. \A r \in Row \ Plain : Col(r) \in {"badge", "avatar"}
      BY DEF Row, Col
    <3> QED
      BY <3>1
  <2> QED
    BY <1>5, <2>1
<1> QED
  BY <1>1, <1>3, <1>7, <1>8, <1>9 DEF Change, Pair

\* Every operation of one seat's identity keeps the books.
LEMMA IdentityStep ==
  ASSUME NEW t \in Holder, NEW badge \in Motif \cup {None}, NEW avatar \in Ref \cup {None}, PersistInv,
         Single(mem) => /\ badge # None => avatar = None
                        /\ \A u \in Holder \ {t} : badge # None => mem[<<"badge", u>>] # badge,
         Identity(t, WithIdentity(t, badge, avatar))
  PROVE  PersistInv' /\ TrueAnswer /\ ~Poisoned
<1> DEFINE m == WithIdentity(t, badge, avatar)
<1>1. Typed(mem)
  BY DEF PersistInv, Shapes
<1>2. /\ Change(m, {"badge", "avatar"})
      /\ Pair(t) \subseteq Row /\ \A r \in Row \ Pair(t) : m[r] = mem[r]
  BY <1>1, IdentityChange
<1>3. Strict("identity", m, {"badge", "avatar"}, Pair(t))
  BY DEF Identity
<1> HIDE DEF m
<1> QED
  BY <1>2, <1>3, StrictStep

\* A change of the badge alone, or of the avatar alone, in the same terms
LEMMA OneOfPair ==
  ASSUME NEW t \in Holder, Typed(mem), NEW x
  PROVE  /\ [mem EXCEPT ![<<"badge", t>>] = x] = WithIdentity(t, x, mem[<<"avatar", t>>])
         /\ [mem EXCEPT ![<<"avatar", t>>] = x] = WithIdentity(t, mem[<<"badge", t>>], x)
<1>1. <<"badge", t>> \in Row /\ <<"avatar", t>> \in Row /\ <<"badge", t>> # <<"avatar", t>>
  BY Rows
<1> DEFINE b == <<"badge", t>>
           a == <<"avatar", t>>
<1>2. mem = [r \in Row |-> mem[r]]
  BY DEF Typed
<1> HIDE DEF a, b
<1>3. a \in Row /\ b \in Row /\ a # b
  BY <1>1 DEF a, b
<1>4. [mem EXCEPT ![b] = x] = [mem EXCEPT ![b] = x, ![a] = mem[a]]
  <2>1. [mem EXCEPT ![b] = x, ![a] = mem[a]] = [r \in Row |-> IF r = a THEN mem[a] ELSE [mem EXCEPT ![b] = x][r]]
    BY <1>2, <1>3
  <2>2. [mem EXCEPT ![b] = x] = [r \in Row |-> [mem EXCEPT ![b] = x][r]]
    BY <1>2, <1>3
  <2>3. [mem EXCEPT ![b] = x][a] = mem[a]
    BY <1>2, <1>3
  <2> QED
    BY <2>1, <2>2, <2>3
<1>5. [mem EXCEPT ![a] = x] = [mem EXCEPT ![b] = mem[b], ![a] = x]
  <2>1. [mem EXCEPT ![b] = mem[b]] = mem
    BY <1>2, <1>3
  <2> QED
    BY <2>1
<1> QED
  BY <1>4, <1>5 DEF WithIdentity, a, b

\* Every step keeps the invariant, answers truly and leaves a closed Store closed.
LEMMA PersistStep ==
  ASSUME PersistInv, PersistNext
  PROVE  PersistInv' /\ TrueAnswer /\ (Poisoned /\ Poisoned' => mem' = mem /\ db' = db /\ poison' = poison)
<1>1. ASSUME NEW style \in Styles, NEW rows \in SUBSET Plain, ChangePlain(style, rows)
      PROVE  PersistInv' /\ TrueAnswer /\ ~Poisoned
  <2>1. PICK f \in [rows -> Value] :
          Ordinary(style, [r \in Row |-> IF r \in rows THEN f[r] ELSE mem[r]], rows)
    BY <1>1 DEF ChangePlain
  <2> DEFINE m == [r \in Row |-> IF r \in rows THEN f[r] ELSE mem[r]]
  <2>2. Change(m, rows) /\ SameBadges(m, mem)
    BY PlainChange DEF PersistInv, Shapes
  <2>3. Ordinary(style, m, rows)
    BY <2>1
  <2> HIDE DEF m
  <2> QED
    BY <2>2, <2>3, OrdinaryStep
<1>2. ASSUME NEW t \in Holder, NEW motif \in Motif, ClaimSeat(t, motif)
      PROVE  PersistInv' /\ TrueAnswer /\ ~Poisoned
  <2> DEFINE m == WithIdentity(t, motif, None)
             cols == {"badge", "avatar", Scalars}
  <2>1. Change(m, {"badge", "avatar"})
    BY <1>2, IdentityChange DEF ClaimSeat, Free, PersistInv, Shapes
  <2>2. Ordinary("drop", m, cols)
    BY <1>2 DEF ClaimSeat
  <2> HIDE DEF m
  <2>3. Change(m, cols)
    BY <2>1, RowAssumption DEF Change
  <2> HIDE DEF cols
  <2> QED
    BY <2>2, <2>3, OrdinaryStep DEF Styles
<1>3. ASSUME NEW t \in Holder, NEW motif \in Motif, ClaimBadge(t, motif)
      PROVE  PersistInv' /\ TrueAnswer /\ ~Poisoned
  BY <1>3, IdentityStep DEF ClaimBadge, Free
<1>4. ASSUME NEW t \in Holder, NEW ref \in Ref, ActivateAvatar(t, ref)
      PROVE  PersistInv' /\ TrueAnswer /\ ~Poisoned
  BY <1>4, IdentityStep DEF ActivateAvatar
<1>5. ASSUME NEW t \in Holder, ClearAvatar(t)
      PROVE  PersistInv' /\ TrueAnswer /\ ~Poisoned
  <2>1. Typed(mem) /\ mem[<<"badge", t>>] \in Motif \cup {None} /\ mem[<<"avatar", t>>] # None
    BY <1>5 DEF PersistInv, Shapes, Typed, ClearAvatar
  <2>2. Identity(t, WithIdentity(t, mem[<<"badge", t>>], None))
    BY <1>5, <2>1, OneOfPair DEF ClearAvatar
  <2>3. Single(mem) => mem[<<"badge", t>>] = None
    BY <2>1 DEF Single
  <2> QED
    BY <2>1, <2>2, <2>3, IdentityStep
<1>6. ASSUME NEW t \in Holder, ReleaseBadge(t)
      PROVE  PersistInv' /\ TrueAnswer /\ ~Poisoned
  <2>1. Typed(mem) /\ mem[<<"avatar", t>>] \in Ref \cup {None}
    BY DEF PersistInv, Shapes, Typed
  <2>2. Identity(t, WithIdentity(t, None, mem[<<"avatar", t>>]))
    BY <1>6, <2>1, OneOfPair DEF ReleaseBadge
  <2> QED
    BY <2>1, <2>2, IdentityStep
<1>7. CASE ResetLeague
  <2> DEFINE m == [r \in Row |-> IF r \in Plain THEN Blank ELSE None]
             cols == Plain \cup {"badge", "avatar"}
  <2>1. \A r \in Row : m[r] = IF r \in Plain THEN Blank ELSE None
    OBVIOUS
  <2>2. m \in [Row -> Cell]
    BY RowAssumption DEF Cell
  <2>3. Strict("reset", m, cols, Row)
    BY <1>7 DEF ResetLeague
  <2> HIDE DEF m
  <2>4. Typed(m) /\ Single(m)
    BY <2>1, <2>2, Rows, RowAssumption DEF Typed, Single
  <2>5. Change(m, cols)
    BY <2>4, Rows DEF Change
  <2> HIDE DEF cols
  <2> QED
    BY <2>3, <2>5, StrictStep
<1>8. CASE PoisonedWrite
  <2>1. /\ Poisoned /\ mem' = poison.mem /\ dirty' = poison.dirty /\ answer' = [style |-> "keep", said |-> "failed"]
        /\ UNCHANGED <<index, db, failed, poison, blind, faults>>
    BY <1>8 DEF PoisonedWrite, Refuses, Said
  <2>2. mem' = mem /\ dirty' = dirty
    BY <2>1 DEF PersistInv, Shapes
  <2> QED
    <3>1. UNCHANGED <<mem, dirty, index, db, failed, poison, blind, faults>>
      BY <2>1, <2>2
    <3>2. PersistInv'
      BY <3>1, ZenonT(60) DEF PersistInv, Shapes, Books, Poisoned, Typed, Single, Ahead, SameBadges, Agree, Pair
    <3>3. answer'.style = "keep" /\ answer'.said = "failed"
      BY <2>1
    <3>4. TrueAnswer
      BY <3>3 DEF TrueAnswer
    <3> QED
      BY <3>1, <3>2, <3>4
<1>9. CASE Restart
  <2>1. PICK s : /\ db' = Repaired(s)
                 /\ s = db \/ \E r \in Plain, v \in Value : s \in Outcomes([mem EXCEPT ![r] = v], {r})
    BY <1>9 DEF Restart
  <2>2. Typed(s)
    <3>1. ASSUME NEW r \in Plain, NEW v \in Value PROVE Typed([mem EXCEPT ![r] = v])
      <4>1. Typed(mem) /\ r \in Row
        BY Rows DEF PersistInv, Shapes
      <4>2. [mem EXCEPT ![r] = v] \in [Row -> Cell]
        BY <4>1 DEF Typed, Cell
      <4>3. \A q \in Row : [mem EXCEPT ![r] = v][q] = IF q = r THEN v ELSE mem[q]
        BY <4>1 DEF Typed
      <4> QED
        BY <4>1, <4>2, <4>3, Rows DEF Typed
    <3>2. Typed(db)
      BY DEF PersistInv, Shapes
    <3>3. ASSUME NEW r \in Plain, NEW v \in Value, s \in Outcomes([mem EXCEPT ![r] = v], {r})
          PROVE  Typed(s)
      <4> DEFINE m == [mem EXCEPT ![r] = v]
      <4>1. Typed(m) /\ s \in {db, Put(db, m, Marked({r}))}
        BY <3>1, <3>3 DEF Outcomes
      <4> HIDE DEF m
      <4>2. Typed(Put(db, m, Marked({r})))
        BY <3>2, <4>1, PutType
      <4> QED
        BY <3>2, <4>1, <4>2
    <3> QED
      BY <2>1, <3>2, <3>3
  <2>3. Typed(db') /\ Single(db')
    BY <2>1, <2>2, RepairType
  <2>4. mem' = db' /\ index' = db' /\ dirty' = {} /\ failed' = FALSE /\ ~Poisoned' /\ answer'.said = "none"
    BY <1>9 DEF Restart, Poisoned, Quiet, Said
  <2>5. Shapes'
    BY <2>3, <2>4 DEF Shapes
  <2>6. Books'
    BY <2>3, <2>4 DEF Books, Ahead, SameBadges, Agree
  <2> QED
    BY <2>4, <2>5, <2>6 DEF PersistInv, TrueAnswer
<1> QED
  BY <1>1, <1>2, <1>3, <1>4, <1>5, <1>6, <1>7, <1>8, <1>9 DEF PersistNext

-----------------------------------------------------------------------------
(* The theorems *)

\* The Store starts with memory, index and database equal.
LEMMA PersistStart == PersistInit => PersistInv
<1> SUFFICES ASSUME PersistInit PROVE PersistInv
  OBVIOUS
<1>1. \A r \in Row : Start[r] = IF r \in Plain THEN Blank ELSE None
  BY DEF Start
<1>2. Start \in [Row -> Cell]
  BY RowAssumption DEF Start, Cell
<1>3. Typed(Start) /\ Single(Start)
  BY <1>1, <1>2, Rows, RowAssumption DEF Typed, Single
<1> QED
  BY <1>3 DEF PersistInit, PersistInv, Shapes, Books, Poisoned, Ahead, SameBadges, Agree

\* The invariant of the write path holds in every reachable state.
LEMMA PersistAlways == PersistSpec => []PersistInv
<1>1. ASSUME PersistInv, [PersistNext]_persistVars PROVE PersistInv'
  <2>1. CASE PersistNext
    BY <1>1, <2>1, PersistStep
  <2>2. CASE UNCHANGED persistVars
    BY <1>1, <2>2 DEF persistVars, PersistInv, Shapes, Books, Poisoned, Typed, Single, Ahead,
                      SameBadges, Agree, Pair
  <2> QED
    BY <1>1, <2>1, <2>2
<1> QED
  BY <1>1, PersistStart, PTL DEF PersistSpec

\* Whatever fails, memory is accounted for: what it holds beyond the database
\* is marked for the next write and shown by readiness, badges and avatars are
\* never ahead of the database, and a badge has one holder (persistLocked,
\* mutateAvatarIdentity, reconcileResetPersistLocked).
THEOREM MemoryStaysAccountedFor == PersistSpec => []MemoryIsAccountedFor
<1>1. PersistInv => MemoryIsAccountedFor
  <2> SUFFICES ASSUME PersistInv PROVE MemoryIsAccountedFor
    OBVIOUS
  <2>1. PersistTypeOK
    BY DEF PersistInv, Shapes, Typed, PersistTypeOK
  <2>2. PendingIsMarked /\ HealthIsHonest
    BY DEF PersistInv, Books, Ahead, PendingIsMarked, HealthIsHonest
  <2>3. OneIdentity /\ IdentityIsStored
    BY DEF PersistInv, Books, Single, SameBadges, OneIdentity, IdentityIsStored
  <2> QED
    BY <2>1, <2>2, <2>3 DEF MemoryIsAccountedFor
<1> QED
  BY <1>1, PersistAlways, PTL

\* Whoever is told "ok" has everything in memory in the database, a reconciling
\* operation told "failed" has changed nothing, and a closed Store takes no
\* change until it is restarted (writeErrorLocked).
THEOREM AnswersStayTrue == PersistSpec => AnswersAreTrue
<1>1. PersistInv /\ [PersistNext]_persistVars
        => [/\ ~blind' =>
                 /\ answer'.said = "ok" => db' = mem'
                 /\ answer'.style \in {"identity", "reset"} /\ answer'.said = "failed"
                      => db' = db /\ mem' = mem]_persistVars
  BY PersistStep DEF TrueAnswer
<1>2. PersistInv /\ [PersistNext]_persistVars
        => [Poisoned /\ Poisoned' => mem' = mem /\ db' = db /\ poison' = poison]_persistVars
  BY PersistStep
<1> QED
  BY <1>1, <1>2, PersistAlways, PTL DEF PersistSpec, AnswersAreTrue, AnswerIsTrue, PoisonIsClosed

-----------------------------------------------------------------------------
(* The import of a legacy file *)

\* The league the database should hold, and the mark it should come to bear.
Rightful == IF original = Nothing THEN Empty ELSE original
RightMark == IF original = Nothing THEN Native ELSE original

\* An unmarked database: the file is where it was, and a league of the old
\* importer has one beside it.
BeforeMark ==
  Mark = NoMark =>
    /\ json = original /\ unsynced = Nothing
    /\ HasRows => json # Nothing /\ league.of \in Bytes

\* A marked database vouches for the league it should.
AfterMark == Mark # NoMark => league.mark = RightMark /\ league.of = Rightful

\* What a boot decided stays true until it acts.
PhaseFacts ==
  /\ phase = "import" => Mark = NoMark /\ ~HasRows /\ json # Nothing
  /\ phase = "native" => Mark = NoMark /\ json = Nothing
  /\ phase = "mark"   => Mark = NoMark /\ HasRows /\ league.of = json /\ json # Nothing
  /\ phase = "finish" => Mark \in Bytes
  /\ phase \in {"sync", "serve"} => Mark # NoMark

\* What a lost rename would bring back are bytes that were there, under both
\* names at most.
Forgotten ==
  unsynced # Nothing =>
    /\ unsynced.json \in Bytes /\ unsynced.kept \in Bytes \cup {Nothing}
    /\ kept = unsynced.json
    /\ puts = 0 => unsynced.json = original

ImportShape ==
  /\ json \in Bytes \cup {Nothing} /\ kept \in Bytes \cup {Nothing} /\ original \in Bytes \cup {Nothing}
  /\ phase \in {"open", "decide", "import", "native", "mark", "finish", "sync", "serve", "failed"}
  /\ league \in {NoDatabase, SchemaOnly} \cup {League(m, b) : m \in Bytes \cup {Native, NoMark}, b \in Bytes \cup {Empty}}
  /\ puts \in Nat /\ (puts = 0 => json \in {Nothing, original})

ImportInv == ImportShape /\ BeforeMark /\ AfterMark /\ PhaseFacts /\ Forgotten

LEMMA LeagueParts ==
  /\ \A m, b : League(m, b).is = "league" /\ League(m, b).mark = m /\ League(m, b).of = b
  /\ NoDatabase.is = "absent" /\ SchemaOnly.is = "schema"
BY DEF League, NoDatabase, SchemaOnly

LEMMA ImportStarts ==
  ASSUME ImportInit
  PROVE  ImportInv
<1>1. Mark = NoMark
  BY LeagueParts DEF ImportInit, Mark, HasRows
<1>2. ImportShape
  BY DEF ImportInit, ImportShape
<1>3. BeforeMark
  BY <1>1, LeagueParts DEF ImportInit, BeforeMark, HasRows
<1> QED
  BY <1>1, <1>2, <1>3 DEF ImportInit, ImportInv, AfterMark, PhaseFacts, Forgotten

\* A boot that stops leaves the files, and of the database all but one it made.
LEMMA FailStep ==
  ASSUME ImportInv, Fail
  PROVE  ImportInv'
<1>1. CASE league' = league
  BY <1>1 DEF Fail, ImportInv, ImportShape, BeforeMark, AfterMark, PhaseFacts, Forgotten, Mark, HasRows, Rightful, RightMark
<1>2. CASE DropsDatabase /\ league' = NoDatabase
  <2>1. Mark = NoMark /\ Mark' = NoMark /\ ~HasRows'
    BY <1>2, LeagueParts DEF DropsDatabase, Mark, HasRows
  <2> QED
    BY <1>2, <2>1 DEF Fail, ImportInv, ImportShape, BeforeMark, AfterMark, PhaseFacts, Forgotten
<1> QED
  BY <1>1, <1>2 DEF Fail

LEMMA OpenStep ==
  ASSUME ImportInv, Open
  PROVE  ImportInv'
<1>1. CASE league' = league
  BY <1>1 DEF Open, ImportInv, ImportShape, BeforeMark, AfterMark, PhaseFacts, Forgotten, Mark, HasRows, Rightful, RightMark
<1>2. CASE league = NoDatabase /\ league' = SchemaOnly
  <2>1. Mark = NoMark /\ Mark' = NoMark /\ ~HasRows'
    BY <1>2, LeagueParts DEF Mark, HasRows
  <2> QED
    BY <1>2, <2>1 DEF Open, ImportInv, ImportShape, BeforeMark, AfterMark, PhaseFacts, Forgotten
<1> QED
  BY <1>1, <1>2 DEF Open

\* A boot goes on only where the league it would serve is the right one.
LEMMA DecideIsRight ==
  ASSUME ImportInv, phase = "decide"
  PROVE  /\ Decide \in {"import", "native", "mark", "finish", "serve", "fail"}
         /\ Decide = "import" => Mark = NoMark /\ ~HasRows /\ json # Nothing
         /\ Decide = "native" => Mark = NoMark /\ json = Nothing
         /\ Decide = "mark"   => Mark = NoMark /\ HasRows /\ league.of = json /\ json # Nothing
         /\ Decide = "finish" => Mark \in Bytes
         /\ Decide = "serve"  => Mark # NoMark
<1>1. json = Mark /\ json # Nothing => Mark \in Bytes
  BY DEF ImportInv, ImportShape
<1>2. Mark = NoMark /\ HasRows => json # Nothing
  BY DEF ImportInv, BeforeMark
<1> QED
  BY <1>1, <1>2, ImportNames DEF Decide

LEMMA DecideKeeps ==
  ASSUME ImportInv, DecideStep
  PROVE  ImportInv'
<1>1. CASE Decide = "fail" /\ Fail
  BY <1>1, FailStep
<1>2. CASE Decide # "fail" /\ GoTo(Decide)
  <2>1. phase' = Decide /\ Decide \in {"import", "native", "mark", "finish", "serve"}
    BY <1>2, DecideIsRight DEF GoTo, DecideStep
  <2>2. UNCHANGED <<json, kept, league, fresh, unsynced, original, stops, puts>>
    BY <1>2 DEF GoTo
  <2>3. Mark' = Mark /\ (HasRows' <=> HasRows) /\ Rightful' = Rightful /\ RightMark' = RightMark
    BY <2>2 DEF Mark, HasRows, Rightful, RightMark
  <2>4. PhaseFacts'
    BY <2>1, <2>2, <2>3, DecideIsRight DEF PhaseFacts, DecideStep
  <2> QED
    BY <2>1, <2>2, <2>3, <2>4 DEF ImportInv, ImportShape, BeforeMark, AfterMark, Forgotten
<1> QED
  BY <1>1, <1>2 DEF DecideStep

\* The transaction writes the right league with its mark, or nothing.
LEMMA WriteStep ==
  ASSUME ImportInv, Import \/ InitNative \/ MarkOld
  PROVE  ImportInv'
<1>1. SUFFICES ASSUME ~Fail
               PROVE  ImportInv'
  BY FailStep
<1>2. league' = League(RightMark, Rightful) /\ Mark = NoMark /\ phase' \in {"finish", "serve", "failed"}
      /\ (phase' = "finish" => RightMark \in Bytes)
      /\ UNCHANGED <<json, kept, fresh, unsynced, original, stops, puts>>
  <2>1. Mark = NoMark /\ json = original
    BY DEF ImportInv, BeforeMark, PhaseFacts, Import, InitNative, MarkOld, WriteLeague
  <2>2. CASE Import
    BY <1>1, <2>1, <2>2 DEF Import, WriteLeague, RightMark, Rightful, ImportInv, ImportShape
  <2>3. CASE InitNative
    BY <1>1, <2>1, <2>3 DEF InitNative, WriteLeague, RightMark, Rightful, ImportInv, PhaseFacts
  <2>4. CASE MarkOld
    BY <1>1, <2>1, <2>4 DEF MarkOld, WriteLeague, RightMark, Rightful, ImportInv, PhaseFacts, ImportShape
  <2> QED
    BY <2>2, <2>3, <2>4
<1>3. RightMark \in Bytes \cup {Native} /\ Rightful \in Bytes \cup {Empty} /\ RightMark # NoMark
  BY ImportNames DEF RightMark, Rightful, ImportInv, ImportShape
<1>4. HasRows' /\ Mark' = RightMark /\ league'.mark = RightMark /\ league'.of = Rightful
      /\ RightMark' = RightMark /\ Rightful' = Rightful
  BY <1>2, LeagueParts DEF Mark, HasRows, RightMark, Rightful
<1>5. ImportShape'
  BY <1>2, <1>3 DEF ImportInv, ImportShape
<1>6. BeforeMark' /\ AfterMark'
  BY <1>3, <1>4 DEF BeforeMark, AfterMark
<1>7. PhaseFacts'
  BY <1>2, <1>3, <1>4 DEF PhaseFacts
<1>8. Forgotten'
  BY <1>2 DEF ImportInv, Forgotten
<1> QED
  BY <1>5, <1>6, <1>7, <1>8 DEF ImportInv

\* The file becomes the copy, which holds nothing else.
LEMMA FinishStep ==
  ASSUME ImportInv, Finish
  PROVE  ImportInv'
<1>1. CASE json = Nothing /\ GoTo("serve")
  <2>1. phase = "finish" /\ phase' = "serve" /\ UNCHANGED <<json, kept, league, fresh, unsynced, original, stops, puts>>
    BY <1>1 DEF Finish, GoTo
  <2>2. Mark' = Mark /\ (HasRows' <=> HasRows) /\ Rightful' = Rightful /\ RightMark' = RightMark
    BY <2>1 DEF Mark, HasRows, Rightful, RightMark
  <2> QED
    BY <2>1, <2>2, ImportNames DEF ImportInv, ImportShape, BeforeMark, AfterMark, Forgotten, PhaseFacts
<1>2. CASE Fail
  BY <1>2, FailStep
<1>3. CASE /\ json # Nothing /\ json = Mark /\ CopyAllows
           /\ kept' = json /\ json' = Nothing /\ unsynced' = Files /\ phase' = "sync"
           /\ UNCHANGED <<league, fresh, original, stops, puts>>
  <2>1. Mark' = Mark /\ (HasRows' <=> HasRows) /\ Rightful' = Rightful /\ RightMark' = RightMark
    BY <1>3 DEF Mark, HasRows, Rightful, RightMark
  <2>2. Mark \in Bytes /\ Mark # NoMark /\ json \in Bytes
    BY <1>3, ImportNames DEF Finish, ImportInv, PhaseFacts, ImportShape
  <2>3. unsynced'.json = json /\ unsynced'.kept = kept
    BY <1>3 DEF Files
  <2>4. ImportShape' /\ Forgotten'
    BY <1>3, <2>2, <2>3 DEF ImportInv, ImportShape, Forgotten
  <2> QED
    BY <1>3, <2>1, <2>2, <2>4 DEF ImportInv, BeforeMark, AfterMark, PhaseFacts
<1> QED
  BY <1>1, <1>2, <1>3 DEF Finish

LEMMA SyncStep ==
  ASSUME ImportInv, Sync
  PROVE  ImportInv'
<1>1. Mark # NoMark /\ league' = league
  BY DEF Sync, ImportInv, PhaseFacts, DropsDatabase
<1>2. Mark' = Mark /\ (HasRows' <=> HasRows) /\ Rightful' = Rightful /\ RightMark' = RightMark
  BY <1>1 DEF Sync, Mark, HasRows, Rightful, RightMark
<1> QED
  BY <1>1, <1>2 DEF Sync, ImportInv, ImportShape, BeforeMark, AfterMark, PhaseFacts, Forgotten

LEMMA StopStep ==
  ASSUME ImportInv, Stop
  PROVE  ImportInv'
<1>1. Mark' = Mark /\ (HasRows' <=> HasRows) /\ Rightful' = Rightful /\ RightMark' = RightMark
  BY DEF Stop, Mark, HasRows, Rightful, RightMark
<1>2. Mark = NoMark => json' = json
  BY DEF Stop, ImportInv, BeforeMark
<1>3. json' \in Bytes \cup {Nothing} /\ kept' \in Bytes \cup {Nothing} /\ (puts = 0 => json' \in {Nothing, original})
  BY DEF Stop, ImportInv, ImportShape, Forgotten
<1> QED
  BY <1>1, <1>2, <1>3 DEF Stop, ImportInv, ImportShape, BeforeMark, AfterMark, PhaseFacts, Forgotten

LEMMA PutStep ==
  ASSUME ImportInv, PutFile
  PROVE  ImportInv'
<1>1. Mark' = Mark /\ (HasRows' <=> HasRows) /\ Rightful' = Rightful /\ RightMark' = RightMark
  BY DEF PutFile, Mark, HasRows, Rightful, RightMark
<1>2. puts \in Nat /\ puts' = puts + 1 /\ puts' # 0
  BY DEF PutFile, ImportInv, ImportShape
<1> QED
  BY <1>1, <1>2 DEF PutFile, ImportInv, ImportShape, BeforeMark, AfterMark, PhaseFacts, Forgotten

LEMMA ImportSteps ==
  ASSUME ImportInv, [ImportNext]_importVars
  PROVE  ImportInv'
<1>1. CASE UNCHANGED importVars
  BY <1>1 DEF importVars, ImportInv, ImportShape, BeforeMark, AfterMark, PhaseFacts, Forgotten, Mark, HasRows, Rightful, RightMark
<1> QED
  BY <1>1, OpenStep, DecideKeeps, WriteStep, FinishStep, SyncStep, StopStep, PutStep DEF ImportNext

\* A boot serves the league the file held, or stops where the next can go on.
LEMMA ImportInvIsSafe ==
  ASSUME ImportInv
  PROVE  ImportIsSafe
<1>0. Mark # NoMark => HasRows /\ Mark = RightMark /\ league.of = Rightful
  BY DEF Mark, ImportInv, AfterMark
<1>1. ImportTypeOK
  <2>1. RightMark = Native => original = Nothing
    BY ImportNames DEF RightMark, ImportInv, ImportShape
  <2> QED
    BY <1>0, <2>1 DEF ImportInv, ImportShape, ImportTypeOK, Rightful, RightMark
<1>2. ServesTheOriginal
  BY <1>0 DEF ServesTheOriginal, Serving, ImportInv, PhaseFacts, Rightful
<1>3. ASSUME puts = 0, kept \in {Nothing, original}, HasRows => league.of \in {original, Empty}, phase = "decide"
      PROVE  Decide # "fail"
  <2>1. json \in {Nothing, original}
    BY <1>3 DEF ImportInv, ImportShape
  <2>2. CASE Mark # NoMark
    <3>1. CASE original = Nothing
      BY <1>0, <2>1, <2>2, <3>1 DEF RightMark, Decide
    <3>2. CASE original # Nothing
      <4>1. original # Native
        BY <3>2, ImportNames DEF ImportInv, ImportShape
      <4> QED
        BY <1>0, <2>1, <2>2, <3>2, <4>1 DEF RightMark, Decide
    <3> QED
      BY <3>1, <3>2
  <2>3. CASE Mark = NoMark /\ HasRows
    <3>1. json = original /\ json # Nothing /\ league.of = original
      BY <1>3, <2>3, ImportNames DEF ImportInv, BeforeMark
    <3> QED
      BY <2>3, <3>1, ImportNames DEF Decide
  <2>4. CASE Mark = NoMark /\ ~HasRows
    BY <2>4, ImportNames DEF Decide
  <2> QED
    BY <2>2, <2>3, <2>4
<1>4. ASSUME puts = 0, kept \in {Nothing, original}, phase = "finish", json # Nothing
      PROVE  json = Mark /\ CopyAllows
  <2>1. json = original /\ Mark \in Bytes /\ Mark # NoMark
    BY <1>4, ImportNames DEF ImportInv, ImportShape, PhaseFacts
  <2> QED
    BY <1>0, <1>4, <2>1 DEF RightMark, CopyAllows
<1>5. StopsNeverStrand
  BY <1>3, <1>4 DEF StopsNeverStrand
<1> QED
  BY <1>1, <1>2, <1>5 DEF ImportIsSafe

ImportAct ==
  /\ {json, kept} \ {Nothing} \subseteq {json', kept'}
  /\ Mark # NoMark => league' = league

LEMMA ImportActs ==
  ASSUME ImportInv, [ImportNext]_importVars
  PROVE  ImportAct
<1>1. CASE UNCHANGED <<json, kept, league>>
  BY <1>1 DEF ImportAct
<1>2. CASE Fail
  BY <1>2 DEF Fail, DropsDatabase, ImportAct
<1>3. CASE Open
  <2>1. Mark # NoMark => league # NoDatabase
    BY LeagueParts DEF Mark, HasRows
  <2> QED
    BY <1>3, <2>1 DEF Open, ImportAct
<1>4. CASE Import \/ InitNative \/ MarkOld
  <2>1. Mark = NoMark /\ UNCHANGED <<json, kept>>
    BY <1>4 DEF ImportInv, PhaseFacts, Import, InitNative, MarkOld, WriteLeague, Fail
  <2> QED
    BY <2>1 DEF ImportAct
<1>5. CASE Finish /\ ~Fail
  BY <1>5 DEF Finish, GoTo, CopyAllows, ImportAct
<1>6. CASE Sync
  BY <1>6 DEF Sync, DropsDatabase, ImportAct
<1>7. CASE Stop
  BY <1>7 DEF Stop, ImportInv, Forgotten, ImportAct
<1>8. CASE PutFile
  BY <1>8 DEF PutFile, ImportAct
<1> QED
  BY <1>1, <1>2, <1>3, <1>4, <1>5, <1>6, <1>7, <1>8 DEF ImportNext, DecideStep, GoTo, importVars

-----------------------------------------------------------------------------
(* The publication of the files *)

Before  == {"look", "mkdir", "write", "recheck", "moveOld"}
PastMove == {"afterMove", "beforeSwap", "swap", "afterSwap", "beforeClean", "clean"}
Filled  == {"recheck", "moveOld", "afterMove", "beforeSwap", "swap"}
Staged  == {"write"} \cup Filled
Steps   == Before \cup PastMove \cup {"unstage", "undo", "remove"}

Runs == [pc : Steps, saw : Tree, id : Nat]

PubShape ==
  /\ PubTypeOK
  /\ run \in [Publisher -> {NoRun} \cup Runs]
  /\ nextId \in Nat

\* What a run knows is true where it acts on it: it saw no tree, an empty one
\* or an owned one; it has no backup before its move; at the move the output is
\* the tree it saw and afterwards its backup has no more; its stage is its own.
Knows(q) ==
  /\ run[q].pc \in Steps => run[q].saw = Absent \/ run[q].saw.bytes = {} \/ Owned(run[q].saw)
  /\ run[q].pc \in Before => backup[q] = Absent
  /\ run[q].pc = "moveOld" => windowed \/ root = run[q].saw
  /\ run[q].pc \in PastMove =>
       windowed \/ backup[q] = Absent \/ (Exists(run[q].saw) /\ backup[q].bytes \subseteq run[q].saw.bytes)
  /\ run[q].pc \in Staged => Exists(stage[q]) /\ stage[q].id = run[q].id
  /\ run[q].pc \in Filled => stage[q].bytes = Owner(q)

\* A run that has made its stage
Named(q) == run[q].pc \in Steps \ {"look", "mkdir"}

IdsAreUsed ==
  /\ Exists(root) => root.id < nextId
  /\ \A q \in Publisher : /\ Exists(backup[q]) => backup[q].id < nextId
                          /\ Named(q) => run[q].id < nextId

\* No two runs publish one tree, and what is staged is not out yet.
IdsAreApart ==
  ~crossed =>
    /\ \A p, q \in Publisher : p # q /\ Named(p) /\ Named(q) => run[p].id # run[q].id
    /\ \A p \in Publisher : run[p].pc \in Staged =>
         /\ Exists(root) => root.id # run[p].id
         /\ \A q \in Publisher : Exists(backup[q]) => backup[q].id # run[p].id

Swapped  == {p \in Publisher : run[p].pc = "afterSwap"}
Cleaning == {p \in Publisher : run[p].pc \in {"beforeClean", "clean"}}
Undoing  == {p \in Publisher : run[p].pc \in {"undo", "remove"}}

\* Whichever of the swapped runs will clean up (those in X) and whichever will
\* undo, a whole tree is neither in a backup that goes nor one that is undone.
Spared(t, X) == Whole(t) /\ \A s \in (Swapped \ X) \cup Undoing : t.id # run[s].id
Remains(X) == Spared(root, X) \/ \E r \in Publisher \ (Cleaning \cup X) : Spared(backup[r], X)

TreeRemains ==
  ~crossed => \A X \in SUBSET Swapped : answered \/ X # {} \/ Cleaning # {} => Remains(X)

PubInv == PubShape /\ (\A q \in Publisher : Knows(q)) /\ IdsAreUsed /\ IdsAreApart /\ TreeRemains

-----------------------------------------------------------------------------
(* Trees and runs *)

LEMMA TreeParts ==
  /\ Absent \notin AnyTree
  /\ \A t \in Tree : Exists(t) <=> t \in AnyTree
  /\ \A t \in AnyTree : t.id \in Nat /\ t.bytes \subseteq AnyFile
  /\ \A n \in Nat : \A b \in SUBSET AnyFile : [id |-> n, bytes |-> b] \in AnyTree
BY PublicationBounds DEF Tree, AnyTree, Exists

LEMMA WholeParts ==
  /\ \A t : Whole(t) => Exists(t) /\ t.bytes # {}
  /\ \A t : Whole(t) => ~Vacant(t)
BY DEF Whole, Vacant, Exists

LEMMA RunParts ==
  ASSUME PubShape, NEW p \in Publisher
  PROVE  /\ run[p].pc \in Steps \cup {"off"}
         /\ run[p].pc # "off" <=> run[p] \in Runs
         /\ run[p].pc # "off" <=> p \in Underway
         /\ run[p] = NoRun <=> run[p].pc = "off"
         /\ run[p] \in Runs => run[p].saw \in Tree /\ run[p].id \in Nat
         /\ root \in Tree /\ stage[p] \in Tree /\ backup[p] \in Tree
BY DEF PubShape, PubTypeOK, Runs, NoRun, Steps, Before, PastMove, Underway

LEMMA GoParts ==
  ASSUME PubShape, NEW p \in Publisher, run[p].pc # "off", NEW c \in Steps, Go(p, c)
  PROVE  /\ run' \in [Publisher -> {NoRun} \cup Runs]
         /\ run'[p] \in Runs /\ run'[p].pc = c /\ run'[p].saw = run[p].saw /\ run'[p].id = run[p].id
         /\ \A q \in Publisher \ {p} : run'[q] = run[q]
BY RunParts DEF PubShape, Go, Runs

LEMMA ReturnParts ==
  ASSUME PubShape, NEW p \in Publisher, Return(p)
  PROVE  /\ run' \in [Publisher -> {NoRun} \cup Runs]
         /\ run'[p] = NoRun /\ run'[p].pc = "off"
         /\ \A q \in Publisher \ {p} : run'[q] = run[q]
BY DEF PubShape, Return, NoRun

\* A run that does nothing knows what it knew.
LEMMA OthersKnow ==
  ASSUME NEW q \in Publisher, Knows(q), run'[q] = run[q], stage'[q] = stage[q], backup'[q] = backup[q],
         windowed => windowed', run[q].pc = "moveOld" /\ root' # root => windowed'
  PROVE  Knows(q)'
BY DEF Knows

\* At a step that moves no tree, a run goes on, is told, or gives up.
LEMMA ClassStep ==
  ASSUME TreeRemains, NEW p \in Publisher, UNCHANGED <<root, backup, crossed>>,
         \A q \in Publisher \ {p} : run'[q] = run[q],
         p \in Swapped' \cup Undoing' => run'[p].id = run[p].id,
         p \in Swapped' => p \in Swapped,
         p \in Cleaning' => p \in Cleaning \cup Swapped,
         p \in Undoing' => p \in Undoing \cup Swapped,
         answered' => answered \/ p \in Cleaning \/ (p \in Swapped /\ backup[p] = Absent /\ p \notin Swapped' \cup Undoing')
  PROVE  TreeRemains'
<1>1. SUFFICES ASSUME ~crossed, NEW Y \in SUBSET Swapped', answered' \/ Y # {} \/ Cleaning' # {}
               PROVE  Remains(Y)'
  BY DEF TreeRemains
<1>2. /\ \A q \in Publisher \ {p} : (q \in Swapped' <=> q \in Swapped) /\ (q \in Cleaning' <=> q \in Cleaning) /\ (q \in Undoing' <=> q \in Undoing)
      /\ Swapped \cup Cleaning \cup Undoing \cup Swapped' \cup Cleaning' \cup Undoing' \subseteq Publisher
      /\ Swapped \cap Cleaning = {} /\ Swapped \cap Undoing = {} /\ Cleaning \cap Undoing = {}
      /\ Swapped' \cap Cleaning' = {} /\ Swapped' \cap Undoing' = {} /\ Cleaning' \cap Undoing' = {}
  BY DEF Swapped, Cleaning, Undoing
<1>3. ASSUME NEW X \in SUBSET Swapped, answered \/ X # {} \/ Cleaning # {}, Y \subseteq X, X \subseteq Y \cup {p},
             Cleaning' \subseteq Cleaning \cup X, p \in X \ Y => p \notin Swapped' \cup Undoing',
             p \in X => p \in Y \/ p \in Cleaning' \/ backup[p] = Absent
      PROVE  Remains(Y)'
  <2>1. Remains(X)
    BY <1>1, <1>3 DEF TreeRemains
  <2>2. \A s \in (Swapped' \ Y) \cup Undoing' : s \in (Swapped \ X) \cup Undoing /\ run'[s].id = run[s].id
    BY <1>2, <1>3
  <2>3. \A t : Spared(t, X) => Whole(t) /\ \A s \in (Swapped' \ Y) \cup Undoing' : t.id # run'[s].id
    BY <2>2 DEF Spared
  <2>4. \A r \in Publisher \ (Cleaning \cup X) : r \notin Cleaning' \cup Y
    BY <1>2, <1>3
  <2> QED
    BY <2>1, <2>3, <2>4 DEF Remains, Spared
<1>4. CASE p \in Swapped /\ (p \in Cleaning' \/ (answered' /\ ~answered /\ p \notin Cleaning))
  <2>1. Y \cup {p} \in SUBSET Swapped /\ p \notin Swapped' /\ p \notin Undoing' /\ p \notin Y
        /\ Cleaning' \subseteq Cleaning \cup (Y \cup {p})
    BY <1>2, <1>4
  <2>2. p \in Cleaning' \/ backup[p] = Absent
    BY <1>4
  <2> QED
    BY <1>3, <2>1, <2>2
<1>5. CASE ~(p \in Swapped /\ (p \in Cleaning' \/ (answered' /\ ~answered /\ p \notin Cleaning)))
  <2>1. Y \in SUBSET Swapped /\ Cleaning' \subseteq Cleaning
    BY <1>2, <1>5
  <2>2. answered \/ Y # {} \/ Cleaning # {}
    BY <1>1, <1>5, <2>1
  <2> QED
    BY <1>3, <2>1, <2>2
<1> QED
  BY <1>4, <1>5

\* A step of one run that moves no tree of the output or of a backup.
LEMMA RunStep ==
  ASSUME PubInv, NEW p \in Publisher, UNCHANGED <<root, backup, crossed, windowed>>, (PubShape)',
         \A q \in Publisher \ {p} : run'[q] = run[q] /\ stage'[q] = stage[q],
         Knows(p)', nextId' = nextId,
         Named(p)' => Named(p) /\ run'[p].id = run[p].id,
         run'[p].pc \in Staged => run[p].pc \in Staged,
         p \in Swapped' => p \in Swapped,
         p \in Cleaning' => p \in Cleaning \cup Swapped,
         p \in Undoing' => p \in Undoing \cup Swapped,
         answered' => answered \/ p \in Cleaning \/ (p \in Swapped /\ backup[p] = Absent /\ p \notin Swapped' \cup Undoing')
  PROVE  PubInv'
<1>1. \A q \in Publisher : Knows(q)'
  BY OthersKnow DEF PubInv
<1>2. \A q \in Publisher : Named(q)' => Named(q) /\ run'[q].id = run[q].id
  BY DEF Named
<1>3. IdsAreUsed'
  BY <1>2 DEF PubInv, IdsAreUsed
<1>4. IdsAreApart'
  <2>1. \A q \in Publisher : run'[q].pc \in Staged => run[q].pc \in Staged /\ run'[q].id = run[q].id
    BY <1>2 DEF Named, Staged, Filled, Steps, Before, PastMove
  <2> QED
    BY <1>2, <2>1 DEF PubInv, IdsAreApart
<1>5. p \in Swapped' \cup Undoing' => run'[p].id = run[p].id
  BY DEF Swapped, Undoing, Named, Steps, PastMove, Before
<1>6. TreeRemains'
  BY <1>5, ClassStep DEF PubInv
<1> QED
  BY <1>1, <1>3, <1>4, <1>6 DEF PubInv

\* A run without a class gains no place among those that have one.
LEMMA Classes ==
  \A q \in Publisher :
    /\ q \in Swapped <=> run[q].pc = "afterSwap"
    /\ q \in Cleaning <=> run[q].pc \in {"beforeClean", "clean"}
    /\ q \in Undoing <=> run[q].pc \in {"undo", "remove"}
BY DEF Swapped, Cleaning, Undoing

\* A run that gives up and leaves the trees where they are.
LEMMA GiveUpStep ==
  ASSUME PubInv, NEW p \in Publisher, run[p].pc # "off", Return(p),
         UNCHANGED <<root, stage, backup, crossed, windowed, nextId>>, moved' \in BOOLEAN, answered' \in BOOLEAN,
         answered' => answered \/ p \in Cleaning \/ (p \in Swapped /\ backup[p] = Absent)
  PROVE  PubInv'
<1>1. PubShape'
  BY ReturnParts DEF PubInv, PubShape, PubTypeOK
<1>2. run'[p].pc = "off" /\ \A q \in Publisher \ {p} : run'[q] = run[q]
  BY ReturnParts DEF PubInv
<1>3. Knows(p)' /\ ~Named(p)' /\ p \notin Swapped' \cup Undoing' \cup Cleaning' /\ run'[p].pc \notin Staged
  BY <1>2 DEF Knows, Named, Swapped, Undoing, Cleaning, Staged, Filled, Steps, Before, PastMove
<1> QED
  BY <1>1, <1>2, <1>3, RunStep

\* A run that takes its next step with the trees where they are: the step
\* follows in the order of the steps, or leads to the removal of the stage.
Follows(c, d) ==
  \/ c \in Staged /\ d = "unstage"
  \/ c = "write" /\ d = "recheck"
  \/ c = "recheck" /\ d \in {"moveOld", "beforeSwap"}
  \/ c = "afterMove" /\ d = "beforeSwap"
  \/ c = "beforeSwap" /\ d = "swap"
  \/ c = "afterSwap" /\ d \in {"undo", "beforeClean"}
  \/ c = "beforeClean" /\ d = "clean"

LEMMA GoStep ==
  ASSUME PubInv, NEW p \in Publisher, run[p].pc # "off", NEW c \in Steps, Go(p, c), Follows(run[p].pc, c),
         UNCHANGED <<root, stage, backup, crossed, windowed, nextId>>, moved' \in BOOLEAN, answered' = answered,
         c = "moveOld" => root = run[p].saw,
         run[p].pc = "write" /\ c = "recheck" => stage[p].bytes = Owner(p)
  PROVE  PubInv'
<1>1. /\ run' \in [Publisher -> {NoRun} \cup Runs]
      /\ run'[p].pc = c /\ run'[p].saw = run[p].saw /\ run'[p].id = run[p].id
      /\ \A q \in Publisher \ {p} : run'[q] = run[q]
  BY GoParts DEF PubInv
<1>2. PubShape'
  BY <1>1 DEF PubInv, PubShape, PubTypeOK
<1>3. run[p].pc \in Steps
  BY RunParts DEF PubInv
<1>4. Knows(p)'
  BY <1>1, <1>3 DEF PubInv, Knows, Follows, Staged, Filled, Before, PastMove
<1>5. /\ Named(p)' => Named(p)
      /\ c \in Staged => run[p].pc \in Staged
      /\ p \in Swapped' => p \in Swapped
      /\ p \in Cleaning' => p \in Cleaning \cup Swapped
      /\ p \in Undoing' => p \in Undoing \cup Swapped
  BY <1>1, <1>3 DEF Follows, Named, Swapped, Cleaning, Undoing, Staged, Filled, Steps, Before, PastMove
<1> QED
  BY <1>1, <1>2, <1>4, <1>5, RunStep DEF PubInv

-----------------------------------------------------------------------------
(* A run, until its move *)

LEMMA BeginStep ==
  ASSUME PubInv, NEW p \in Publisher, Begin(p)
  PROVE  PubInv'
<1>1. run'[p] = [pc |-> "look", saw |-> Absent, id |-> 0] /\ run' \in [Publisher -> {NoRun} \cup Runs]
      /\ \A q \in Publisher \ {p} : run'[q] = run[q]
  BY TreeParts DEF Begin, PubInv, PubShape, Runs, Steps, Before, Tree
<1>2. PubShape'
  BY <1>1 DEF Begin, trees, history, PubInv, PubShape, PubTypeOK
<1>3. backup[p] = Absent
  BY DEF Begin, Leftovers, Exists
<1>4. Knows(p)' /\ ~Named(p)' /\ p \notin Swapped' \cup Undoing' \cup Cleaning' /\ run'[p].pc \notin Staged
  BY <1>1, <1>3 DEF Begin, trees, Knows, Named, Swapped, Undoing, Cleaning, Staged, Filled, Steps, Before, PastMove
<1> QED
  BY <1>1, <1>2, <1>4, RunStep DEF Begin, trees, history

LEMMA LookStep ==
  ASSUME PubInv, NEW p \in Publisher, Look(p)
  PROVE  PubInv'
<1>1. UNCHANGED <<root, stage, backup, moved, windowed, crossed, answered, nextId, runs, edits, upsets>>
  BY DEF Look, trees, history, pubCounts
<1>2. CASE Return(p)
  BY <1>1, <1>2, GiveUpStep DEF Look, PubInv, PubShape, PubTypeOK
<1>3. CASE /\ run' = [run EXCEPT ![p] = [@ EXCEPT !.pc = "mkdir", !.saw = root]]
           /\ ~(Exists(root) /\ root.bytes # {} /\ ~Owned(root))
  <2>1. run[p] \in Runs /\ run[p].pc = "look" /\ root \in Tree
    BY RunParts DEF Look, PubInv
  <2>2. run'[p].pc = "mkdir" /\ run'[p].saw = root /\ run'[p] \in Runs /\ run' \in [Publisher -> {NoRun} \cup Runs]
        /\ \A q \in Publisher \ {p} : run'[q] = run[q]
    BY <1>3, <2>1 DEF PubInv, PubShape, Runs, Steps, Before
  <2>3. PubShape'
    BY <1>1, <2>2 DEF PubInv, PubShape, PubTypeOK
  <2>4. Knows(p)' /\ ~Named(p)' /\ p \notin Swapped' \cup Undoing' \cup Cleaning' /\ run'[p].pc \notin Staged
    BY <1>1, <1>3, <2>1, <2>2 DEF PubInv, Exists, Owned, Knows, Named, Swapped, Undoing, Cleaning, Staged, Filled, Steps, Before, PastMove
  <2> QED
    BY <1>1, <2>2, <2>3, <2>4, RunStep
<1> QED
  BY <1>2, <1>3 DEF Look, Return

LEMMA MakeStageStep ==
  ASSUME PubInv, NEW p \in Publisher, MakeStage(p)
  PROVE  PubInv'
<1>1. UNCHANGED <<root, backup, moved, windowed, crossed, answered>> /\ nextId' = nextId + 1 /\ nextId \in Nat
      /\ run[p].pc = "mkdir"
  BY DEF MakeStage, history, PubInv, PubShape
<1>2. run[p] \in Runs
  BY <1>1, RunParts DEF PubInv
<1>3. run'[p].pc = "write" /\ run'[p].saw = run[p].saw /\ run'[p].id = nextId /\ run' \in [Publisher -> {NoRun} \cup Runs]
      /\ \A q \in Publisher \ {p} : run'[q] = run[q]
  BY <1>1, <1>2 DEF MakeStage, PubInv, PubShape, Runs, Steps, Before
<1>4. stage'[p] = [id |-> nextId, bytes |-> {}] /\ stage'[p] \in AnyTree /\ stage' \in [Publisher -> Tree]
      /\ \A q \in Publisher \ {p} : stage'[q] = stage[q]
  BY <1>1, TreeParts DEF MakeStage, PubInv, PubShape, PubTypeOK, Tree
<1>5. PubShape'
  BY <1>1, <1>3, <1>4 DEF PubInv, PubShape, PubTypeOK
<1>6. \A q \in Publisher \ {p} : Knows(q)'
  BY <1>1, <1>3, <1>4, OthersKnow DEF PubInv
<1>7. Knows(p)'
  BY <1>1, <1>3, <1>4, TreeParts DEF PubInv, Knows, Exists, Staged, Filled, Steps, Before, PastMove
<1>8. \A q \in Publisher \ {p} : Named(q)' => Named(q) /\ run'[q].id = run[q].id
  BY <1>3 DEF Named
<1>9. \A q \in Publisher : Named(q) => run[q].id \in Nat /\ run[q].id < nextId
  BY RunParts DEF PubInv, IdsAreUsed, Named, Steps, Before, PastMove
<1>10. (Exists(root) => root.id \in Nat /\ root.id < nextId) /\ \A q \in Publisher : Exists(backup[q]) => backup[q].id \in Nat /\ backup[q].id < nextId
  BY RunParts, TreeParts DEF PubInv, IdsAreUsed
<1>11. IdsAreUsed'
  BY <1>1, <1>3, <1>8, <1>9, <1>10 DEF IdsAreUsed
<1>12. IdsAreApart'
  <2>1. ASSUME ~crossed PROVE \A a, b \in Publisher : a # b /\ Named(a)' /\ Named(b)' => run'[a].id # run'[b].id
    BY <1>1, <1>3, <1>8, <1>9, <2>1 DEF PubInv, IdsAreApart
  <2>2. ASSUME ~crossed, NEW a \in Publisher, run'[a].pc \in Staged
        PROVE  (Exists(root) => root.id # run'[a].id) /\ \A q \in Publisher : Exists(backup[q]) => backup[q].id # run'[a].id
    BY <1>1, <1>3, <1>10, <2>2 DEF PubInv, IdsAreApart
  <2> QED
    BY <1>1, <2>1, <2>2 DEF IdsAreApart
<1>13. TreeRemains'
  BY <1>1, <1>3, Classes, ClassStep DEF PubInv, Swapped, Cleaning, Undoing
<1> QED
  BY <1>5, <1>6, <1>7, <1>11, <1>12, <1>13 DEF PubInv

LEMMA WriteStageStep ==
  ASSUME PubInv, NEW p \in Publisher, WriteStage(p)
  PROVE  PubInv'
<1>1. UNCHANGED <<root, backup, moved, windowed, crossed, answered, nextId>> /\ run[p].pc = "write"
  BY DEF WriteStage, history, pubCounts
<1>2. CASE stage[p].bytes = Owner(p) /\ Go(p, "recheck") /\ UNCHANGED stage
  BY <1>1, <1>2, GoStep DEF PubInv, PubShape, PubTypeOK, Follows, Steps, Before
<1>3. ASSUME NEW b \in Owner(p) \ stage[p].bytes, stage' = [stage EXCEPT ![p].bytes = @ \cup {b}], UNCHANGED run
      PROVE  PubInv'
  <2>1. Exists(stage[p]) /\ stage[p].id = run[p].id /\ stage[p] \in AnyTree
    BY <1>1, RunParts, TreeParts DEF PubInv, Knows, Staged
  <2>2. b \in AnyFile
    BY DEF Owner, AnyFile
  <2>3. stage'[p] \in AnyTree /\ stage'[p].id = stage[p].id
    BY <1>3, <2>1, <2>2 DEF AnyTree, PubInv, PubShape, PubTypeOK
  <2>4. stage' \in [Publisher -> Tree] /\ \A q \in Publisher \ {p} : stage'[q] = stage[q]
    BY <1>3, <2>3 DEF PubInv, PubShape, PubTypeOK, Tree
  <2>5. PubShape'
    BY <1>1, <1>3, <2>4 DEF PubInv, PubShape, PubTypeOK
  <2>6. Knows(p)'
    BY <1>1, <1>3, <2>1, <2>3, TreeParts DEF PubInv, Knows, Exists, Staged, Filled, Before, PastMove
  <2> QED
    BY <1>1, <1>3, <2>4, <2>5, <2>6, RunStep DEF Named, Swapped, Cleaning, Undoing
<1> QED
  BY <1>2, <1>3 DEF WriteStage

LEMMA RecheckStep ==
  ASSUME PubInv, NEW p \in Publisher, Recheck(p)
  PROVE  PubInv'
<1>1. UNCHANGED <<root, stage, backup, moved, windowed, crossed, answered, nextId>> /\ run[p].pc = "recheck" /\ moved \in BOOLEAN
  BY DEF Recheck, trees, history, pubCounts, PubInv, PubShape, PubTypeOK
<1>2. \/ Go(p, "unstage") \/ Go(p, "beforeSwap") \/ (Go(p, "moveOld") /\ root = run[p].saw)
  BY DEF Recheck, SameRootState
<1> QED
  BY <1>1, <1>2, GoStep DEF Follows, Staged, Filled, Steps, Before, PastMove

LEMMA BeforeSwapStep ==
  ASSUME PubInv, NEW p \in Publisher, BeforeSwap(p)
  PROVE  PubInv'
<1>1. UNCHANGED <<root, stage, backup, moved, windowed, crossed, answered, nextId>> /\ run[p].pc = "beforeSwap" /\ moved \in BOOLEAN
  BY DEF BeforeSwap, trees, history, pubCounts, PubInv, PubShape, PubTypeOK
<1>2. Go(p, "unstage") \/ Go(p, "swap")
  BY DEF BeforeSwap
<1> QED
  BY <1>1, <1>2, GoStep DEF Follows, Staged, Filled, Steps, Before, PastMove

LEMMA AfterSwapStep ==
  ASSUME PubInv, NEW p \in Publisher, AfterSwap(p)
  PROVE  PubInv'
<1>1. UNCHANGED <<root, stage, backup, moved, windowed, crossed, nextId>> /\ run[p].pc = "afterSwap" /\ moved \in BOOLEAN
  BY DEF AfterSwap, trees, pubCounts, PubInv, PubShape, PubTypeOK
<1>2. \/ (Go(p, "undo") \/ Go(p, "beforeClean")) /\ answered' = answered
      \/ Return(p) /\ answered' = TRUE /\ backup[p] = Absent
  BY DEF AfterSwap, Exists
<1> QED
  BY <1>1, <1>2, GoStep, GiveUpStep DEF Swapped, Follows, Staged, Filled, Steps, Before, PastMove

LEMMA BeforeCleanStep ==
  ASSUME PubInv, NEW p \in Publisher, BeforeClean(p)
  PROVE  PubInv'
<1>1. UNCHANGED <<root, stage, backup, moved, windowed, crossed, nextId>> /\ run[p].pc = "beforeClean" /\ moved \in BOOLEAN
  BY DEF BeforeClean, trees, pubCounts, PubInv, PubShape, PubTypeOK
<1>2. \/ Go(p, "clean") /\ answered' = answered
      \/ Return(p) /\ answered' = TRUE
  BY DEF BeforeClean
<1> QED
  BY <1>1, <1>2, GoStep, GiveUpStep DEF Cleaning, Follows, Staged, Filled, Steps, Before, PastMove

LEMMA StopsStep ==
  ASSUME PubInv, NEW p \in Publisher, Stops(p)
  PROVE  PubInv'
BY RunParts, GiveUpStep DEF Stops, Upset, trees, history, PubInv, PubShape, PubTypeOK

LEMMA ParentMovesStep ==
  ASSUME PubInv, ParentMoves
  PROVE  PubInv'
<1>1. UNCHANGED <<root, stage, backup, run, windowed, crossed, answered, nextId>> /\ moved' = TRUE
  BY DEF ParentMoves, Upset, trees, history
<1>2. PubShape'
  BY <1>1 DEF PubInv, PubShape, PubTypeOK
<1>3. \A q \in Publisher : Knows(q)'
  BY <1>1 DEF PubInv, Knows
<1>4. IdsAreUsed' /\ IdsAreApart' /\ TreeRemains'
  BY <1>1 DEF PubInv, IdsAreUsed, IdsAreApart, TreeRemains, Remains, Spared, Swapped, Cleaning, Undoing, Named
<1> QED
  BY <1>2, <1>3, <1>4 DEF PubInv

-----------------------------------------------------------------------------
(* Steps that move a tree *)

LEMMA WindowParts ==
  ASSUME PubShape, Windows
  PROVE  /\ windowed' \in BOOLEAN /\ (windowed => windowed') /\ (root' = root => windowed' = windowed)
         /\ \A q \in Publisher : run[q].pc = "moveOld" /\ run'[q] = run[q] /\ root' # root => windowed'
BY RunParts DEF Windows, PubShape, PubTypeOK

\* A tree is found again, with its identity and whole.
Found(t, u) == Whole(u) /\ u.id = t.id

\* A step that loses no whole tree but one that is cleaned up or undone.
LEMMA TreeStep ==
  ASSUME TreeRemains, ~crossed' => ~crossed, answered' => answered,
         Swapped' \subseteq Swapped, Cleaning' \subseteq Cleaning, Undoing' \subseteq Undoing,
         ~crossed' => \A q \in Swapped' \cup Undoing' : run'[q].id = run[q].id,
         ~crossed' /\ Whole(root) /\ (\A s \in Undoing : root.id # run[s].id) =>
           Found(root, root') \/ \E r \in Publisher \ (Cleaning' \cup Swapped') : Found(root, backup'[r]),
         \A r \in Publisher \ Cleaning :
           ~crossed' /\ Whole(backup[r]) /\ (\A s \in Undoing : backup[r].id # run[s].id) =>
             Found(backup[r], root') \/ Found(backup[r], backup'[r])
  PROVE  TreeRemains'
<1>1. SUFFICES ASSUME ~crossed', NEW Y \in SUBSET Swapped', answered' \/ Y # {} \/ Cleaning' # {}
               PROVE  Remains(Y)'
  BY DEF TreeRemains
<1>2. Remains(Y)
  BY <1>1 DEF TreeRemains
<1>3. \A s \in (Swapped' \ Y) \cup Undoing' : s \in (Swapped \ Y) \cup Undoing /\ run'[s].id = run[s].id
  BY <1>1
<1>4. ASSUME NEW t, NEW u, Spared(t, Y), Found(t, u)
      PROVE  Spared(u, Y)'
  BY <1>3, <1>4 DEF Spared, Found
<1>5. \A t : Spared(t, Y) => Whole(t) /\ \A s \in Undoing : t.id # run[s].id
  BY DEF Spared
<1>6. CASE Spared(root, Y)
  <2>1. \/ Found(root, root')
        \/ \E r \in Publisher \ (Cleaning' \cup Swapped') : Found(root, backup'[r])
    BY <1>1, <1>5, <1>6
  <2>2. Found(root, root') => Spared(root, Y)'
    BY <1>4, <1>6
  <2>3. \A r \in Publisher : Found(root, backup'[r]) => Spared(backup[r], Y)'
    BY <1>4, <1>6
  <2> QED
    BY <2>1, <2>2, <2>3 DEF Remains
<1>7. ASSUME NEW r \in Publisher \ (Cleaning \cup Y), Spared(backup[r], Y)
      PROVE  Remains(Y)'
  <2>1. Found(backup[r], root') \/ Found(backup[r], backup'[r])
    BY <1>1, <1>5, <1>7
  <2>2. Found(backup[r], root') => Spared(root, Y)'
    BY <1>4, <1>7
  <2>3. Found(backup[r], backup'[r]) => Spared(backup[r], Y)'
    BY <1>4, <1>7
  <2>4. r \in Publisher \ (Cleaning' \cup Y)
    OBVIOUS
  <2> QED
    BY <2>1, <2>2, <2>3, <2>4 DEF Remains
<1> QED
  BY <1>2, <1>6, <1>7 DEF Remains

LEMMA MoveOldStep ==
  ASSUME PubInv, NEW p \in Publisher, MoveOld(p)
  PROVE  PubInv'
<1>1. UNCHANGED <<stage, moved, crossed, answered, nextId>> /\ run[p].pc = "moveOld" /\ Windows /\ PubShape
      /\ (moved \in BOOLEAN) /\ (answered \in BOOLEAN) /\ (crossed \in BOOLEAN)
  BY DEF MoveOld, pubCounts, PubInv, PubShape, PubTypeOK
<1>2. CASE UNCHANGED <<root, backup>> /\ Go(p, "unstage")
  <2>1. windowed' = windowed
    BY <1>1, <1>2, WindowParts
  <2> QED
    BY <1>1, <1>2, <2>1, GoStep DEF Follows, Staged, Filled, Steps, Before, PastMove
<1>3. CASE Exists(root) /\ root' = Absent /\ backup' = [backup EXCEPT ![p] = root] /\ Go(p, "afterMove")
  <2>1. /\ run' \in [Publisher -> {NoRun} \cup Runs]
        /\ run'[p].pc = "afterMove" /\ run'[p].saw = run[p].saw /\ run'[p].id = run[p].id
        /\ \A q \in Publisher \ {p} : run'[q] = run[q]
    BY <1>1, <1>3, GoParts DEF Steps, PastMove
  <2>2. backup[p] = Absent /\ (windowed \/ root = run[p].saw)
        /\ (run[p].saw = Absent \/ run[p].saw.bytes = {} \/ Owned(run[p].saw))
        /\ Exists(stage[p]) /\ stage[p].id = run[p].id /\ stage[p].bytes = Owner(p)
    BY <1>1 DEF PubInv, Knows, Steps, Before, PastMove, Staged, Filled
  <2>3. backup' \in [Publisher -> Tree] /\ backup'[p] = root /\ \A q \in Publisher \ {p} : backup'[q] = backup[q]
    BY <1>1, <1>3 DEF PubShape, PubTypeOK
  <2>4. PubShape'
    BY <1>1, <1>3, <2>1, <2>3, WindowParts DEF PubShape, PubTypeOK, Tree
  <2>5. \A q \in Publisher \ {p} : Knows(q)'
    BY <1>1, <2>1, <2>3, WindowParts, OthersKnow DEF PubInv
  <2>6. Knows(p)'
    BY <1>1, <1>3, <2>1, <2>2, <2>3, WindowParts DEF Knows, Steps, Before, PastMove, Staged, Filled
  <2>7. \A q \in Publisher : (Named(q)' => Named(q)) /\ run'[q].id = run[q].id /\ (run'[q].pc \in Staged => run[q].pc \in Staged)
    BY <1>1, <2>1 DEF Named, Steps, Before, PastMove, Staged, Filled
  <2>8. IdsAreUsed'
    BY <1>1, <1>3, <2>3, <2>7 DEF PubInv, IdsAreUsed, Exists
  <2>9. IdsAreApart'
    BY <1>1, <1>3, <2>3, <2>7 DEF PubInv, IdsAreApart, Exists
  <2>10. Swapped' = Swapped /\ Cleaning' = Cleaning /\ Undoing' = Undoing /\ p \notin Swapped \cup Cleaning
    BY <1>1, <2>1 DEF Swapped, Cleaning, Undoing
  <2>11. ~Whole(backup[p])
    BY <2>2, WholeParts DEF Exists
  <2>12. Whole(root) => Found(root, backup'[p])
    BY <2>3 DEF Found
  <2>13. \A r \in Publisher : Whole(backup[r]) => Found(backup[r], backup'[r])
    BY <2>3, <2>11 DEF Found
  <2>14. Swapped \cup Undoing \subseteq Publisher
    BY DEF Swapped, Undoing
  <2>15. TreeRemains'
    BY <1>1, <2>7, <2>10, <2>12, <2>13, <2>14, TreeStep DEF PubInv
  <2> QED
    BY <2>4, <2>5, <2>6, <2>8, <2>9, <2>15 DEF PubInv
<1> QED
  BY <1>2, <1>3 DEF MoveOld

\* Whatever put the run back, the tree it had moved is the output again, where
\* nothing else is; the run is over but for its stage.
LEMMA PutBackStep ==
  ASSUME PubInv, NEW p \in Publisher, run[p].pc \in {"afterMove", "swap", "undo", "remove"},
         PutBack(p) \/ UNCHANGED <<root, backup>>, Windows,
         UNCHANGED <<stage, moved, crossed, answered, nextId>>,
         Go(p, "unstage") \/ Return(p)
  PROVE  PubInv'
<1>1. /\ run' \in [Publisher -> {NoRun} \cup Runs]
      /\ run'[p].pc \in {"unstage", "off"}
      /\ run'[p].pc = "unstage" => run'[p].saw = run[p].saw /\ run'[p].id = run[p].id /\ run[p].pc \in Steps
      /\ \A q \in Publisher \ {p} : run'[q] = run[q]
  <2>1. PubShape /\ run[p].pc # "off" /\ run[p].pc \in Steps
    BY DEF PubInv, Steps, PastMove
  <2> QED
    BY <2>1, GoParts, ReturnParts DEF Steps
<1>2. /\ root' = root \/ (Vacant(root) /\ Exists(backup[p]) /\ root' = backup[p])
      /\ backup'[p] = backup[p] \/ (Vacant(root) /\ root' = backup[p] /\ backup'[p] = Absent)
      /\ backup' \in [Publisher -> Tree] /\ \A q \in Publisher \ {p} : backup'[q] = backup[q]
  BY DEF PutBack, PubInv, PubShape, PubTypeOK, Tree
<1>3. PubShape'
  <2>1. PubShape /\ root' \in Tree
    BY <1>2 DEF PubInv, PubShape, PubTypeOK
  <2> QED
    BY <1>1, <1>2, <2>1, WindowParts DEF PubShape, PubTypeOK
<1>4. \A q \in Publisher \ {p} : Knows(q)'
  BY <1>1, <1>2, WindowParts, OthersKnow DEF PubInv
<1>5. Knows(p)'
  BY <1>1 DEF PubInv, Knows, Steps, Before, PastMove, Staged, Filled
<1>6. \A q \in Publisher : /\ Named(q)' => Named(q) /\ run'[q].id = run[q].id
                           /\ run'[q].pc \in Staged => run[q].pc \in Staged /\ run'[q].id = run[q].id
  BY <1>1 DEF Named, Steps, Before, PastMove, Staged, Filled
<1>7. IdsAreUsed'
  BY <1>2, <1>6 DEF PubInv, IdsAreUsed, Exists
<1>8. IdsAreApart'
  BY <1>2, <1>6 DEF PubInv, IdsAreApart, Exists
<1>9. Swapped' = Swapped /\ Cleaning' = Cleaning /\ Undoing' \subseteq Undoing /\ p \notin Swapped' \cup Undoing'
      /\ Swapped \cup Undoing \subseteq Publisher
  BY <1>1 DEF Swapped, Cleaning, Undoing
<1>10. Whole(root) => Found(root, root')
  BY <1>2, WholeParts DEF Found
<1>11. \A r \in Publisher : Whole(backup[r]) => Found(backup[r], root') \/ Found(backup[r], backup'[r])
  BY <1>2 DEF Found
<1>12. TreeRemains'
  BY <1>1, <1>9, <1>10, <1>11, TreeStep DEF PubInv
<1> QED
  BY <1>3, <1>4, <1>5, <1>7, <1>8, <1>12 DEF PubInv

LEMMA AfterMoveStep ==
  ASSUME PubInv, NEW p \in Publisher, AfterMove(p)
  PROVE  PubInv'
<1>1. UNCHANGED <<stage, moved, crossed, answered, nextId>> /\ run[p].pc = "afterMove" /\ Windows /\ PubShape /\ (moved \in BOOLEAN)
  BY DEF AfterMove, pubCounts, PubInv, PubShape, PubTypeOK
<1>2. CASE Go(p, "beforeSwap") /\ UNCHANGED <<root, backup>>
  BY <1>1, <1>2, WindowParts, GoStep DEF Follows, Staged, Filled, Steps, Before, PastMove
<1>3. CASE Go(p, "unstage") /\ PutBack(p)
  BY <1>1, <1>3, PutBackStep
<1> QED
  BY <1>2, <1>3 DEF AfterMove

\* The stage of a run is a whole tree by the time it is renamed.
LEMMA StagedIsWhole ==
  ASSUME NEW p \in Publisher, NEW t, Exists(t), t.bytes = Owner(p)
  PROVE  Whole(t)
BY DEF Whole, Owner

LEMMA SwapStep ==
  ASSUME PubInv, NEW p \in Publisher, Swap(p)
  PROVE  PubInv'
<1>1. UNCHANGED <<moved, crossed, answered, nextId>> /\ run[p].pc = "swap" /\ Windows /\ PubShape
      /\ (moved \in BOOLEAN) /\ (answered \in BOOLEAN) /\ (crossed \in BOOLEAN)
  BY DEF Swap, pubCounts, PubInv, PubShape, PubTypeOK
<1>2. CASE Go(p, "unstage") /\ PutBack(p) /\ UNCHANGED stage
  BY <1>1, <1>2, PutBackStep
<1>3. CASE /\ Vacant(root) /\ root' = stage[p] /\ stage' = [stage EXCEPT ![p] = Absent]
           /\ Go(p, "afterSwap") /\ UNCHANGED backup
  <2>1. /\ run' \in [Publisher -> {NoRun} \cup Runs]
        /\ run'[p].pc = "afterSwap" /\ run'[p].saw = run[p].saw /\ run'[p].id = run[p].id
        /\ \A q \in Publisher \ {p} : run'[q] = run[q]
    BY <1>1, <1>3, GoParts DEF Steps, PastMove
  <2>2. Exists(root') /\ root'.id = run[p].id /\ root'.bytes = Owner(p)
    BY <1>1, <1>3 DEF PubInv, Knows, Staged, Filled
  <2>3. stage' \in [Publisher -> Tree] /\ root' \in Tree /\ \A q \in Publisher \ {p} : stage'[q] = stage[q]
    BY <1>1, <1>3 DEF PubShape, PubTypeOK, Tree
  <2>4. PubShape'
    BY <1>1, <1>3, <2>1, <2>3, WindowParts DEF PubShape, PubTypeOK
  <2>5. \A q \in Publisher \ {p} : Knows(q)'
    BY <1>1, <1>3, <2>1, <2>3, WindowParts, OthersKnow DEF PubInv
  <2>6. Knows(p)'
    BY <1>1, <1>3, <2>1, WindowParts DEF PubInv, Knows, Steps, Before, PastMove, Staged, Filled
  <2>7. \A q \in Publisher : /\ Named(q)' <=> Named(q)
                             /\ run'[q].id = run[q].id
                             /\ run'[q].pc \in Staged => run[q].pc \in Staged /\ q # p
    BY <1>1, <2>1 DEF Named, Steps, Before, PastMove, Staged, Filled
  <2>8. Named(p) /\ run[p].pc \in Staged
    BY <1>1 DEF Named, Steps, Before, PastMove, Staged, Filled
  <2>9. IdsAreUsed'
    BY <1>1, <1>3, <2>2, <2>7, <2>8 DEF PubInv, IdsAreUsed
  <2>10. IdsAreApart'
    <3>1. \A q \in Publisher : run[q].pc \in Staged => Named(q)
      BY DEF Named, Steps, Before, PastMove, Staged, Filled
    <3> QED
      BY <1>1, <1>3, <2>2, <2>7, <2>8, <3>1 DEF PubInv, IdsAreApart
  <2>11. Swapped' = Swapped \cup {p} /\ Cleaning' = Cleaning /\ Undoing' = Undoing /\ p \notin Swapped \cup Cleaning \cup Undoing
         /\ Swapped \cup Undoing \subseteq Publisher
    BY <1>1, <2>1 DEF Swapped, Cleaning, Undoing
  <2>12. Whole(root') /\ ~Whole(root)
    BY <1>3, <2>2, StagedIsWhole, WholeParts
  <2>13. TreeRemains'
    <3>1. SUFFICES ASSUME ~crossed, NEW Y \in SUBSET Swapped', answered \/ Y # {} \/ Cleaning # {}
                   PROVE  Remains(Y)'
      BY <1>1, <2>11 DEF TreeRemains
    <3>2. \A q \in Publisher : q \in Swapped \cup Undoing => Named(q)
      BY DEF Named, Swapped, Undoing, Steps, Before, PastMove
    <3>3. CASE p \in Y
      <4>1. \A s \in (Swapped' \ Y) \cup Undoing' : run'[s].id # run[p].id
        BY <2>7, <2>8, <2>11, <3>1, <3>2, <3>3 DEF PubInv, IdsAreApart
      <4> QED
        BY <2>2, <2>12, <4>1 DEF Remains, Spared
    <3>4. CASE p \notin Y
      <4>1. Y \in SUBSET Swapped
        BY <2>11, <3>1, <3>4
      <4>2. Remains(Y)
        BY <3>1, <4>1 DEF PubInv, TreeRemains
      <4>3. PICK r \in Publisher \ (Cleaning \cup Y) : Spared(backup[r], Y)
        BY <2>12, <4>2 DEF Remains, Spared
      <4>4. backup[r].id # run[p].id
        BY <2>8, <3>1, <4>3, WholeParts DEF PubInv, IdsAreApart, Spared
      <4>5. Spared(backup[r], Y)'
        BY <1>3, <2>7, <2>11, <4>3, <4>4 DEF Spared
      <4> QED
        BY <2>11, <4>3, <4>5 DEF Remains
    <3> QED
      BY <3>3, <3>4
  <2> QED
    BY <2>4, <2>5, <2>6, <2>9, <2>10, <2>13 DEF PubInv
<1> QED
  BY <1>2, <1>3 DEF Swap

\* A tree that loses one of its files, or its directory.
LEMMA EmptiedParts ==
  ASSUME NEW t \in AnyTree, NEW u \in Emptied(t)
  PROVE  /\ u \in Tree
         /\ u = Absent \/ (u.id = t.id /\ u.bytes \subseteq t.bytes)
         /\ t.bytes = {} <=> u = Absent
<1>1. CASE t.bytes = {}
  BY <1>1 DEF Emptied, Tree
<1>2. CASE t.bytes # {}
  <2>1. PICK b \in t.bytes : u = [t EXCEPT !.bytes = @ \ {b}]
    BY <1>2 DEF Emptied
  <2>2. u \in AnyTree /\ u.id = t.id /\ u.bytes \subseteq t.bytes
    BY <2>1 DEF AnyTree
  <2> QED
    BY <1>2, <2>2, TreeParts DEF Tree
<1> QED
  BY <1>1, <1>2

LEMMA UnstageStep ==
  ASSUME PubInv, NEW p \in Publisher, Unstage(p)
  PROVE  PubInv'
<1>1. UNCHANGED <<root, backup, moved, windowed, crossed, answered, nextId>> /\ run[p].pc = "unstage" /\ PubShape
      /\ (moved \in BOOLEAN) /\ (answered \in BOOLEAN)
  BY DEF Unstage, history, pubCounts, PubInv, PubShape, PubTypeOK
<1>2. CASE Return(p) /\ UNCHANGED stage
  BY <1>1, <1>2, GiveUpStep
<1>3. ASSUME Exists(stage[p]), NEW t \in Emptied(stage[p]), stage' = [stage EXCEPT ![p] = t], UNCHANGED run
      PROVE  PubInv'
  <2>1. t \in Tree
    BY <1>1, <1>3, EmptiedParts, TreeParts DEF PubShape, PubTypeOK
  <2>2. stage' \in [Publisher -> Tree] /\ \A q \in Publisher \ {p} : stage'[q] = stage[q]
    BY <1>1, <1>3, <2>1 DEF PubShape, PubTypeOK
  <2>3. PubShape'
    BY <1>1, <1>3, <2>2 DEF PubShape, PubTypeOK
  <2>4. Knows(p)'
    BY <1>1, <1>3 DEF PubInv, Knows, Steps, Before, PastMove, Staged, Filled
  <2> QED
    BY <1>1, <1>3, <2>2, <2>3, <2>4, RunStep DEF Named, Swapped, Cleaning, Undoing
<1> QED
  BY <1>2, <1>3 DEF Unstage

LEMMA CleanStep ==
  ASSUME PubInv, NEW p \in Publisher, Clean(p)
  PROVE  PubInv'
<1>1. UNCHANGED <<root, stage, moved, windowed, crossed, nextId>> /\ run[p].pc = "clean" /\ PubShape
      /\ (moved \in BOOLEAN) /\ (answered \in BOOLEAN)
  BY DEF Clean, CleanAt, pubCounts, PubInv, PubShape, PubTypeOK
<1>2. CASE Return(p) /\ answered' = TRUE /\ UNCHANGED backup
  BY <1>1, <1>2, GiveUpStep DEF Cleaning
<1>3. ASSUME Exists(backup[p]), NEW t \in Emptied(backup[p]), backup' = [backup EXCEPT ![p] = t], UNCHANGED <<run, answered>>
      PROVE  PubInv'
  <2>1. t \in Tree /\ (t = Absent \/ (t.id = backup[p].id /\ t.bytes \subseteq backup[p].bytes))
    BY <1>1, <1>3, EmptiedParts, TreeParts DEF PubShape, PubTypeOK
  <2>2. backup' \in [Publisher -> Tree] /\ backup'[p] = t /\ \A q \in Publisher \ {p} : backup'[q] = backup[q]
    BY <1>1, <1>3, <2>1 DEF PubShape, PubTypeOK
  <2>3. PubShape'
    BY <1>1, <1>3, <2>2 DEF PubShape, PubTypeOK
  <2>4. \A q \in Publisher \ {p} : Knows(q)'
    BY <1>1, <1>3, <2>2, OthersKnow DEF PubInv
  <2>5. Knows(p)'
    <3>1. windowed \/ backup[p] = Absent \/ (Exists(run[p].saw) /\ backup[p].bytes \subseteq run[p].saw.bytes)
      BY <1>1 DEF PubInv, Knows, PastMove
    <3>2. run[p].saw = Absent \/ run[p].saw.bytes = {} \/ Owned(run[p].saw)
      BY <1>1 DEF PubInv, Knows, Steps, PastMove
    <3>3. windowed \/ t = Absent \/ (Exists(run[p].saw) /\ t.bytes \subseteq run[p].saw.bytes)
      BY <1>3, <2>1, <3>1 DEF Exists
    <3> QED
      BY <1>1, <1>3, <2>2, <3>2, <3>3 DEF Knows, Steps, Before, PastMove, Staged, Filled
  <2>6. IdsAreUsed'
    BY <1>1, <1>3, <2>1, <2>2 DEF PubInv, IdsAreUsed, Named, Exists
  <2>7. IdsAreApart'
    BY <1>1, <1>3, <2>1, <2>2 DEF PubInv, IdsAreApart, Named, Exists
  <2>8. p \in Cleaning /\ Swapped' = Swapped /\ Cleaning' = Cleaning /\ Undoing' = Undoing
    BY <1>1, <1>3 DEF Swapped, Cleaning, Undoing
  <2>9. Whole(root) => Found(root, root')
    BY <1>1 DEF Found
  <2>10. \A r \in Publisher \ Cleaning : Whole(backup[r]) => Found(backup[r], backup'[r])
    BY <2>2, <2>8 DEF Found
  <2>11. TreeRemains'
    BY <1>1, <1>3, <2>8, <2>9, <2>10, TreeStep DEF PubInv
  <2> QED
    BY <2>3, <2>4, <2>5, <2>6, <2>7, <2>11 DEF PubInv
<1> QED
  BY <1>2, <1>3 DEF Clean

LEMMA UndoStep ==
  ASSUME PubInv, NEW p \in Publisher, Undo(p)
  PROVE  PubInv'
<1>1. UNCHANGED <<stage, moved, answered, nextId>> /\ run[p].pc = "undo" /\ Windows /\ PubShape /\ (crossed \in BOOLEAN)
  BY DEF Undo, pubCounts, PubInv, PubShape, PubTypeOK
<1>2. CASE PutBack(p) /\ Return(p) /\ UNCHANGED crossed
  BY <1>1, <1>2, PutBackStep
<1>3. CASE /\ Exists(root) /\ run' = [run EXCEPT ![p].pc = "remove", ![p].id = root.id]
           /\ crossed' = (crossed \/ root.id # run[p].id) /\ UNCHANGED <<root, backup>>
  <2>1. run[p] \in Runs /\ root.id \in Nat
    BY <1>1, <1>3, RunParts, TreeParts DEF PubShape, PubTypeOK
  <2>2. /\ run' \in [Publisher -> {NoRun} \cup Runs]
        /\ run'[p].pc = "remove" /\ run'[p].saw = run[p].saw /\ run'[p].id = root.id
        /\ \A q \in Publisher \ {p} : run'[q] = run[q]
    BY <1>1, <1>3, <2>1 DEF PubShape, Runs, Steps
  <2>3. windowed' = windowed /\ (~crossed' => ~crossed /\ root.id = run[p].id)
    BY <1>1, <1>3, WindowParts
  <2>4. PubShape'
    BY <1>1, <1>3, <2>2, <2>3 DEF PubShape, PubTypeOK
  <2>5. \A q \in Publisher \ {p} : Knows(q)'
    BY <1>1, <1>3, <2>2, <2>3, OthersKnow DEF PubInv
  <2>6. Knows(p)'
    BY <1>1, <2>2 DEF PubInv, Knows, Steps, Before, PastMove, Staged, Filled
  <2>7. \A q \in Publisher : /\ Named(q)' => Named(q)
                             /\ ~crossed' => run'[q].id = run[q].id
                             /\ run'[q].pc \in Staged => run[q].pc \in Staged
    BY <1>1, <2>2, <2>3 DEF Named, Steps, Before, PastMove, Staged, Filled
  <2>8. IdsAreUsed'
    BY <1>1, <1>3, <2>2, <2>7 DEF PubInv, IdsAreUsed
  <2>9. IdsAreApart'
    <3>1. ASSUME ~crossed'
          PROVE  /\ \A a, b \in Publisher : a # b /\ Named(a)' /\ Named(b)' => run'[a].id # run'[b].id
                 /\ \A a \in Publisher : run'[a].pc \in Staged =>
                      /\ Exists(root) => root.id # run'[a].id
                      /\ \A q \in Publisher : Exists(backup[q]) => backup[q].id # run'[a].id
      BY <2>3, <2>7, <3>1 DEF PubInv, IdsAreApart
    <3> QED
      BY <1>3, <3>1 DEF IdsAreApart
  <2>10. Swapped' = Swapped /\ Cleaning' = Cleaning /\ Undoing' = Undoing /\ Swapped \cup Undoing \subseteq Publisher
    BY <1>1, <2>2 DEF Swapped, Cleaning, Undoing
  <2>11. TreeRemains'
    BY <1>1, <1>3, <2>3, <2>7, <2>10, TreeStep DEF PubInv, Found
  <2> QED
    BY <2>4, <2>5, <2>6, <2>8, <2>9, <2>11 DEF PubInv
<1> QED
  BY <1>2, <1>3 DEF Undo

LEMMA WithoutParts ==
  ASSUME NEW t \in Tree, NEW i, NEW b
  PROVE  /\ Without(t, i, b) \in Tree
         /\ Exists(Without(t, i, b)) <=> Exists(t)
         /\ Exists(t) => /\ Without(t, i, b).id = t.id /\ Without(t, i, b).bytes \subseteq t.bytes
                         /\ t.bytes \ {b} \subseteq Without(t, i, b).bytes
         /\ ~Exists(t) => Without(t, i, b) = t
         /\ Exists(t) /\ t.id # i => Without(t, i, b) = t
<1>1. CASE Exists(t) /\ t.id = i
  <2>1. t \in AnyTree
    BY <1>1, TreeParts
  <2>2. [t EXCEPT !.bytes = @ \ {b}] \in AnyTree /\ [t EXCEPT !.bytes = @ \ {b}].id = t.id
        /\ [t EXCEPT !.bytes = @ \ {b}].bytes = t.bytes \ {b}
    BY <2>1 DEF AnyTree
  <2> QED
    BY <1>1, <2>2, TreeParts DEF Without, Exists, Tree
<1>2. CASE ~(Exists(t) /\ t.id = i)
  BY <1>2 DEF Without
<1> QED
  BY <1>1, <1>2

\* Files go from the tree a run has opened, wherever it is by now.
LEMMA RemoveFileStep ==
  ASSUME PubInv, NEW p \in Publisher, run[p].pc = "remove", NEW b,
         root' = Without(root, run[p].id, b),
         backup' = [q \in Publisher |-> Without(backup[q], run[p].id, b)],
         crossed' \in BOOLEAN, ~crossed' => ~crossed, UNCHANGED run, Windows,
         UNCHANGED <<stage, moved, answered, nextId>>
  PROVE  PubInv'
<1>1. PubShape /\ root \in Tree /\ (\A q \in Publisher : backup[q] \in Tree)
  BY DEF PubInv, PubShape, PubTypeOK
<1>2. \A q \in Publisher : backup'[q] = Without(backup[q], run[p].id, b)
  OBVIOUS
<1>3. \A q \in Publisher : /\ Exists(backup'[q]) <=> Exists(backup[q])
                           /\ ~Exists(backup[q]) => backup'[q] = backup[q]
                           /\ Exists(backup[q]) => backup'[q].id = backup[q].id /\ backup'[q].bytes \subseteq backup[q].bytes
                           /\ Exists(backup[q]) /\ backup[q].id # run[p].id => backup'[q] = backup[q]
  BY <1>1, <1>2, WithoutParts
<1>4. (Exists(root') <=> Exists(root)) /\ (Exists(root) => root'.id = root.id)
      /\ (Exists(root) /\ root.id # run[p].id => root' = root)
  BY <1>1, WithoutParts
<1>5. root' \in Tree /\ backup' \in [Publisher -> Tree]
  BY <1>1, WithoutParts
<1>6. PubShape'
  BY <1>1, <1>5, WindowParts DEF PubShape, PubTypeOK
<1>7. \A q \in Publisher : Knows(q)'
  <2>1. ASSUME NEW q \in Publisher PROVE Knows(q)'
    <3>1. Knows(q)
      BY DEF PubInv
    <3>2. run[q].pc \in Before => backup'[q] = Absent
      BY <1>3, <3>1 DEF Knows, Exists
    <3>3. run[q].pc = "moveOld" => windowed' \/ root' = run[q].saw
      BY <1>1, <3>1, WindowParts DEF Knows
    <3>4. run[q].pc \in PastMove =>
            windowed' \/ backup'[q] = Absent \/ (Exists(run[q].saw) /\ backup'[q].bytes \subseteq run[q].saw.bytes)
      BY <1>1, <1>3, <3>1, WindowParts DEF Knows, Exists
    <3> QED
      BY <3>1, <3>2, <3>3, <3>4 DEF Knows
  <2> QED
    BY <2>1
<1>8. IdsAreUsed'
  BY <1>3, <1>4 DEF PubInv, IdsAreUsed, Named
<1>9. IdsAreApart'
  BY <1>3, <1>4 DEF PubInv, IdsAreApart, Named
<1>10. Swapped' = Swapped /\ Cleaning' = Cleaning /\ Undoing' = Undoing /\ p \in Undoing
  BY DEF Swapped, Cleaning, Undoing
<1>11. Whole(root) /\ root.id # run[p].id => Found(root, root')
  BY <1>4, WholeParts DEF Found
<1>12. \A r \in Publisher : Whole(backup[r]) /\ backup[r].id # run[p].id => Found(backup[r], backup'[r])
  BY <1>3, WholeParts DEF Found
<1>13. TreeRemains'
  BY <1>10, <1>11, <1>12, TreeStep DEF PubInv
<1> QED
  BY <1>6, <1>7, <1>8, <1>9, <1>13 DEF PubInv

LEMMA RemoveNewStep ==
  ASSUME PubInv, NEW p \in Publisher, RemoveNew(p)
  PROVE  PubInv'
<1>1. UNCHANGED <<stage, moved, answered, nextId>> /\ run[p].pc = "remove" /\ Windows /\ PubShape /\ (crossed \in BOOLEAN)
  BY DEF RemoveNew, pubCounts, PubInv, PubShape, PubTypeOK
<1>2. ASSUME NEW t \in Opened(run[p].id), NEW b \in t.bytes,
             root' = Without(root, run[p].id, b),
             backup' = [q \in Publisher |-> Without(backup[q], run[p].id, b)],
             crossed' = (crossed \/ b \notin Owner(p)), UNCHANGED run
      PROVE  PubInv'
  <2>1. crossed' \in BOOLEAN /\ (~crossed' => ~crossed)
    BY <1>1, <1>2
  <2> QED
    BY <1>1, <1>2, <2>1, RemoveFileStep
<1>3. CASE /\ \A t \in Opened(run[p].id) : t.bytes = {}
           /\ Exists(root) /\ root.id = run[p].id
           /\ root' = Absent /\ Go(p, "undo") /\ UNCHANGED <<crossed, backup>>
  <2>1. /\ run' \in [Publisher -> {NoRun} \cup Runs]
        /\ run'[p].pc = "undo" /\ run'[p].saw = run[p].saw /\ run'[p].id = run[p].id
        /\ \A q \in Publisher \ {p} : run'[q] = run[q]
    BY <1>1, <1>3, GoParts DEF Steps
  <2>2. PubShape'
    BY <1>1, <1>3, <2>1, WindowParts DEF PubShape, PubTypeOK, Tree
  <2>3. \A q \in Publisher \ {p} : Knows(q)'
    BY <1>1, <1>3, <2>1, WindowParts, OthersKnow DEF PubInv
  <2>4. Knows(p)'
    BY <1>1, <2>1 DEF PubInv, Knows, Steps, Before, PastMove, Staged, Filled
  <2>5. \A q \in Publisher : /\ Named(q)' => Named(q)
                             /\ run'[q].id = run[q].id
                             /\ run'[q].pc \in Staged => run[q].pc \in Staged
    BY <1>1, <2>1 DEF Named, Steps, Before, PastMove, Staged, Filled
  <2>6. IdsAreUsed' /\ IdsAreApart'
    BY <1>1, <1>3, <2>5 DEF PubInv, IdsAreUsed, IdsAreApart, Exists
  <2>7. Swapped' = Swapped /\ Cleaning' = Cleaning /\ Undoing' = Undoing /\ Swapped \cup Undoing \subseteq Publisher
    BY <1>1, <2>1 DEF Swapped, Cleaning, Undoing
  <2>8. ~Whole(root)
    BY <1>3, WholeParts DEF Opened
  <2>9. TreeRemains'
    BY <1>1, <1>3, <2>5, <2>7, <2>8, TreeStep DEF PubInv, Found
  <2> QED
    BY <2>2, <2>3, <2>4, <2>6, <2>9 DEF PubInv
<1>4. CASE PutBack(p) /\ Return(p) /\ UNCHANGED crossed
  BY <1>1, <1>4, PutBackStep
<1> QED
  BY <1>2, <1>3, <1>4 DEF RemoveNew

LEMMA CallFailsStep ==
  ASSUME PubInv, NEW p \in Publisher, CallFails(p)
  PROVE  PubInv'
<1>1. UNCHANGED <<stage, moved, crossed, nextId>> /\ Windows /\ PubShape /\ (moved \in BOOLEAN) /\ (answered \in BOOLEAN)
  BY DEF CallFails, Upset, PubInv, PubShape, PubTypeOK
<1>2. UNCHANGED root => windowed' = windowed
  BY <1>1, WindowParts
<1>3. CASE run[p].pc \in {"look", "mkdir", "unstage"} /\ Return(p) /\ UNCHANGED <<root, backup, answered>>
  BY <1>1, <1>2, <1>3, GiveUpStep
<1>4. CASE run[p].pc \in {"beforeClean", "clean"} /\ Return(p) /\ answered' = TRUE /\ UNCHANGED <<root, backup>>
  BY <1>1, <1>2, <1>4, GiveUpStep DEF Cleaning
<1>5. CASE run[p].pc \in {"write", "recheck", "moveOld", "beforeSwap"} /\ Go(p, "unstage") /\ UNCHANGED <<root, backup, answered>>
  BY <1>1, <1>2, <1>5, GoStep DEF Follows, Staged, Filled, Steps, Before, PastMove
<1>6. CASE run[p].pc = "afterSwap" /\ Go(p, "undo") /\ UNCHANGED <<root, backup, answered>>
  BY <1>1, <1>2, <1>6, GoStep DEF Follows, Staged, Filled, Steps, Before, PastMove
<1>7. CASE run[p].pc \in {"afterMove", "swap"} /\ Go(p, "unstage") /\ UNCHANGED answered /\ (PutBack(p) \/ UNCHANGED <<root, backup>>)
  BY <1>1, <1>7, PutBackStep
<1>8. CASE run[p].pc \in {"undo", "remove"} /\ Return(p) /\ UNCHANGED answered /\ (PutBack(p) \/ UNCHANGED <<root, backup>>)
  BY <1>1, <1>8, PutBackStep
<1> QED
  BY <1>3, <1>4, <1>5, <1>6, <1>7, <1>8 DEF CallFails

-----------------------------------------------------------------------------
(* The operator *)

LEMMA WholeGrows ==
  ASSUME NEW t \in AnyTree, NEW u, u = [t EXCEPT !.bytes = @ \cup {Edit}]
  PROVE  u \in AnyTree /\ u.id = t.id /\ (Whole(t) => Whole(u))
<1>1. u \in AnyTree /\ u.id = t.id /\ u.bytes = t.bytes \cup {Edit}
  BY DEF AnyTree, AnyFile
<1>2. Exists(u)
  BY <1>1, TreeParts DEF Exists
<1>3. CASE t.bytes = {Edit}
  BY <1>1, <1>2, <1>3 DEF Whole
<1>4. ASSUME NEW b \in {OldBytes} \cup {Bundle[p] : p \in Publisher}, b \cup {Marker} \subseteq t.bytes
      PROVE  Whole(u)
  BY <1>1, <1>2, <1>4 DEF Whole
<1> QED
  BY <1>1, <1>3, <1>4 DEF Whole

LEMMA EditsStep ==
  ASSUME PubInv, Edits
  PROVE  PubInv'
<1>1. UNCHANGED <<stage, backup, moved, run, crossed, answered>> /\ Windows /\ PubShape /\ nextId \in Nat /\ root \in Tree
  BY DEF Edits, PubInv, PubShape, PubTypeOK
<1>2. /\ nextId' \in Nat /\ nextId <= nextId'
      /\ root' \in AnyTree /\ root'.id < nextId'
      /\ Exists(root) => root'.id = root.id
      /\ ~Exists(root) => root'.id = nextId
      /\ Whole(root) => Whole(root')
  <2>1. CASE Exists(root)
    <3>1. root \in AnyTree /\ root.id \in Nat /\ root.id < nextId
      BY <1>1, <2>1, TreeParts DEF PubInv, IdsAreUsed
    <3> QED
      BY <1>1, <2>1, <3>1, WholeGrows DEF Edits
  <2>2. CASE ~Exists(root)
    <3>1. root' = [id |-> nextId, bytes |-> {Edit}] /\ nextId' = nextId + 1
      BY <2>2 DEF Edits
    <3>2. {Edit} \in SUBSET AnyFile
      BY DEF AnyFile
    <3>3. root' \in AnyTree /\ root'.id = nextId
      BY <1>1, <3>1, <3>2 DEF AnyTree
    <3> QED
      BY <1>1, <2>2, <3>1, <3>3, WholeParts
  <2> QED
    BY <2>1, <2>2
<1>3. PubShape'
  BY <1>1, <1>2, WindowParts DEF PubShape, PubTypeOK, Tree
<1>4. \A q \in Publisher : Knows(q)'
  BY <1>1, WindowParts, OthersKnow DEF PubInv
<1>5. \A q \in Publisher : Named(q) => run[q].id \in Nat /\ run[q].id < nextId
  BY <1>1, RunParts DEF PubInv, IdsAreUsed, Named, Steps, Before, PastMove
<1>6. \A q \in Publisher : Exists(backup[q]) => backup[q].id \in Nat /\ backup[q].id < nextId
  BY <1>1, TreeParts DEF PubInv, IdsAreUsed, PubShape, PubTypeOK
<1>7. IdsAreUsed'
  BY <1>1, <1>2, <1>5, <1>6 DEF IdsAreUsed, Named
<1>8. IdsAreApart'
  <2>1. \A q \in Publisher : run[q].pc \in Staged => Named(q)
    BY DEF Named, Steps, Before, PastMove, Staged, Filled
  <2>2. ASSUME ~crossed, NEW q \in Publisher, run[q].pc \in Staged PROVE root'.id # run[q].id
    BY <1>1, <1>2, <1>5, <2>1, <2>2 DEF PubInv, IdsAreApart
  <2> QED
    BY <1>1, <2>2 DEF PubInv, IdsAreApart, Named
<1>9. Swapped' = Swapped /\ Cleaning' = Cleaning /\ Undoing' = Undoing /\ Swapped \cup Undoing \subseteq Publisher
  BY <1>1 DEF Swapped, Cleaning, Undoing
<1>10. TreeRemains'
  <2>1. Whole(root) => Found(root, root')
    BY <1>2, WholeParts DEF Found
  <2> QED
    BY <1>1, <1>9, <2>1, TreeStep DEF PubInv, Found
<1> QED
  BY <1>3, <1>4, <1>7, <1>8, <1>10 DEF PubInv

LEMMA InspectStep ==
  ASSUME PubInv, Inspect
  PROVE  PubInv'
<1>1. UNCHANGED <<moved, run, windowed, crossed, answered, nextId>> /\ PubShape
      /\ stage' = [p \in Publisher |-> Absent] /\ backup' = [p \in Publisher |-> Absent]
  BY DEF Inspect, history, pubCounts, PubInv
<1>2. \A q \in Publisher : run[q].pc = "off" /\ ~Named(q)
  BY DEF Inspect, Underway, Named, Steps, Before, PastMove
<1>3. Swapped = {} /\ Cleaning = {} /\ Undoing = {} /\ Swapped' = {} /\ Cleaning' = {} /\ Undoing' = {}
  BY <1>1, <1>2 DEF Swapped, Cleaning, Undoing
<1>4. (root' = root \/ \E q \in Publisher : root' = backup[q])
      /\ (Whole(root) \/ (\E q \in Publisher : Whole(backup[q])) => Whole(root'))
  <2>1. CASE Whole(root) \/ ~\E p \in Publisher : Whole(backup[p])
    BY <2>1 DEF Inspect
  <2>2. CASE ~Whole(root) /\ \E p \in Publisher : Whole(backup[p])
    <3> DEFINE q == CHOOSE p \in Publisher : Whole(backup[p])
    <3>1. q \in Publisher /\ Whole(backup[q])
      BY <2>2
    <3>2. root' = backup[q]
      BY <2>2 DEF Inspect
    <3> HIDE DEF q
    <3> QED
      BY <3>1, <3>2
  <2> QED
    BY <2>1, <2>2
<1>5. PubShape'
  BY <1>1, <1>4 DEF PubShape, PubTypeOK, Tree
<1>6. \A q \in Publisher : Knows(q)'
  BY <1>1, <1>2 DEF Knows, Steps, Before, PastMove, Staged, Filled
<1>7. IdsAreUsed'
  BY <1>1, <1>2, <1>4 DEF PubInv, IdsAreUsed, Named, Exists
<1>8. IdsAreApart'
  BY <1>1, <1>2 DEF IdsAreApart, Named, Staged, Filled
<1>9. TreeRemains'
  <2>1. ASSUME ~crossed, answered PROVE Whole(root')
    <3>1. Remains({})
      BY <2>1 DEF PubInv, TreeRemains
    <3> QED
      BY <1>4, <3>1 DEF Remains, Spared
  <2>2. ASSUME ~crossed, answered, NEW X \in SUBSET Swapped' PROVE Remains(X)'
    BY <1>3, <2>1, <2>2 DEF Remains, Spared
  <2> QED
    BY <1>1, <1>3, <2>2 DEF TreeRemains
<1> QED
  BY <1>5, <1>6, <1>7, <1>8, <1>9 DEF PubInv

-----------------------------------------------------------------------------
(* The publication *)

LEMMA PubStarts ==
  ASSUME PubInit
  PROVE  PubInv
<1>1. \A q \in Publisher : run[q].pc = "off" /\ backup[q] = Absent /\ ~Named(q)
  BY DEF PubInit, NoRun, Named, Steps, Before, PastMove
<1>2. [id |-> 0, bytes |-> OldBytes \cup {Marker}] \in AnyTree
  <2>1. OldBytes \cup {Marker} \in SUBSET AnyFile
    BY DEF AnyFile
  <2> QED
    BY <2>1 DEF AnyTree
<1>3. PubShape
  BY <1>2 DEF PubInit, PubShape, PubTypeOK, Tree, Exists
<1>4. (\A q \in Publisher : Knows(q)) /\ IdsAreUsed /\ IdsAreApart
  BY <1>1 DEF PubInit, Knows, IdsAreUsed, IdsAreApart, Exists, Steps, Before, PastMove, Staged, Filled
<1>5. Exists(root) => Whole(root)
  BY DEF PubInit, Exists, Whole
<1>6. TreeRemains
  <2>1. Swapped = {} /\ Cleaning = {} /\ Undoing = {}
    BY <1>1 DEF Swapped, Cleaning, Undoing
  <2> QED
    BY <1>5, <2>1 DEF PubInit, TreeRemains, Remains, Spared
<1> QED
  BY <1>3, <1>4, <1>6 DEF PubInv

LEMMA PubSteps ==
  ASSUME PubInv, [PubNext]_pubVars
  PROVE  PubInv'
<1>1. CASE UNCHANGED pubVars
  <2>1. PubShape'
    BY <1>1 DEF pubVars, trees, history, pubCounts, PubInv, PubShape, PubTypeOK
  <2>2. \A q \in Publisher : Knows(q)'
    BY <1>1 DEF pubVars, trees, history, PubInv, Knows
  <2>3. IdsAreUsed' /\ IdsAreApart' /\ TreeRemains'
    BY <1>1 DEF pubVars, trees, history, pubCounts, PubInv, IdsAreUsed, IdsAreApart, TreeRemains, Remains, Spared, Swapped,
                Cleaning, Undoing, Named
  <2> QED
    BY <2>1, <2>2, <2>3 DEF PubInv
<1>2. CASE ParentMoves \/ Edits \/ Inspect
  BY <1>2, ParentMovesStep, EditsStep, InspectStep
<1>3. ASSUME NEW p \in Publisher, Begin(p) \/ Look(p) \/ MakeStage(p) \/ WriteStage(p) \/ Recheck(p)
      PROVE  PubInv'
  BY <1>3, BeginStep, LookStep, MakeStageStep, WriteStageStep, RecheckStep
<1>4. ASSUME NEW p \in Publisher, MoveOld(p) \/ AfterMove(p) \/ BeforeSwap(p) \/ Swap(p) \/ AfterSwap(p) \/ BeforeClean(p)
      PROVE  PubInv'
  BY <1>4, MoveOldStep, AfterMoveStep, BeforeSwapStep, SwapStep, AfterSwapStep, BeforeCleanStep
<1>5. ASSUME NEW p \in Publisher, Unstage(p) \/ Clean(p) \/ Undo(p) \/ RemoveNew(p) \/ CallFails(p) \/ Stops(p)
      PROVE  PubInv'
  BY <1>5, UnstageStep, CleanStep, UndoStep, RemoveNewStep, CallFailsStep, StopsStep
<1> QED
  BY <1>1, <1>2, <1>3, <1>4, <1>5 DEF PubNext

LEMMA PubInvIsSound ==
  ASSUME PubInv
  PROVE  PublicationIsSound
<1>1. ASSUME answered, ~crossed
      PROVE  Whole(root) \/ \E p \in Publisher : Whole(backup[p])
  <2>1. Remains({})
    BY <1>1 DEF PubInv, TreeRemains
  <2> QED
    BY <2>1 DEF Remains, Spared
<1>2. WholeTreeExists
  BY <1>1 DEF WholeTreeExists
<1>3. MissingIsReported
  BY <1>1, WholeParts DEF MissingIsReported, Leftovers
<1> QED
  BY <1>2, <1>3 DEF PubInv, PubShape, PublicationIsSound

-----------------------------------------------------------------------------
(* What the operator put there *)

EditKept ==
  EditTakenAway =>
    \/ windowed \/ crossed' \/ Inspect
    \/ \E p \in Underway : Exists(run[p].saw) /\ {Edit, Marker} \subseteq run[p].saw.bytes

\* Where the operator's bytes are
Holds(t) == Exists(t) /\ Edit \in t.bytes

LEMMA EditPlaces ==
  /\ Edit \in AllBytes <=> Holds(root) \/ \E q \in Publisher : Holds(backup[q])
  /\ Edit \in AllBytes' <=> Holds(root') \/ \E q \in Publisher : Holds(backup'[q])
BY DEF AllBytes, Holds, Exists

\* Putting the old tree back loses nothing.
LEMMA PutBackKeeps ==
  ASSUME PubShape, NEW p \in Publisher, PutBack(p) \/ UNCHANGED <<root, backup>>
  PROVE  /\ Holds(root) => Holds(root')
         /\ \A q \in Publisher : Holds(backup[q]) => Holds(root') \/ Holds(backup'[q])
BY SMTT(60) DEF PutBack, Holds, Vacant, Exists, PubShape, PubTypeOK

LEMMA EditSteps ==
  ASSUME PubInv, [PubNext]_pubVars
  PROVE  EditKept
<1>0. PubShape
  BY DEF PubInv
<1>1. SUFFICES ASSUME EditTakenAway, ~windowed, ~crossed', ~Inspect
               PROVE  \E p \in Underway : Exists(run[p].saw) /\ {Edit, Marker} \subseteq run[p].saw.bytes
  BY DEF EditKept
<1>2. SUFFICES ASSUME ~(/\ Holds(root) => Holds(root') \/ \E q \in Publisher : Holds(backup'[q])
                        /\ \A q \in Publisher : Holds(backup[q]) => Holds(root') \/ \E r \in Publisher : Holds(backup'[r]))
               PROVE  \E p \in Underway : Exists(run[p].saw) /\ {Edit, Marker} \subseteq run[p].saw.bytes
  BY <1>1, EditPlaces DEF EditTakenAway
<1>3. CASE UNCHANGED <<root, backup>>
  BY <1>2, <1>3
<1>4. CASE Edits
  <2>1. root \in Tree /\ UNCHANGED backup
    BY <1>0, <1>4 DEF Edits, PubShape, PubTypeOK
  <2>2. Holds(root) => Holds(root')
    <3>1. ASSUME Holds(root) PROVE Holds(root')
      <4>1. root \in AnyTree /\ root' = [root EXCEPT !.bytes = @ \cup {Edit}]
        BY <1>4, <2>1, <3>1, TreeParts DEF Edits, Holds
      <4>2. root' \in AnyTree /\ Edit \in root'.bytes
        BY <4>1, WholeGrows DEF AnyTree
      <4> QED
        BY <4>2, TreeParts DEF Holds, Exists
    <3> QED
      BY <3>1
  <2> QED
    BY <1>2, <2>1, <2>2
<1>5. ASSUME NEW p \in Publisher, MoveOld(p)
      PROVE  FALSE
  <2>1. backup[p] = Absent
    BY <1>5 DEF MoveOld, PubInv, Knows, Before
  <2>2. Exists(root) /\ backup' = [backup EXCEPT ![p] = root]
    BY <1>2, <1>5 DEF MoveOld
  <2>3. backup'[p] = root /\ \A q \in Publisher \ {p} : backup'[q] = backup[q]
    BY <1>0, <2>2 DEF PubShape, PubTypeOK
  <2> QED
    BY <1>2, <2>1, <2>3 DEF Holds, Exists
<1>6. ASSUME NEW p \in Publisher, PutBack(p)
      PROVE  FALSE
  BY <1>0, <1>2, <1>6, PutBackKeeps
<1>7. ASSUME NEW p \in Publisher, Vacant(root), UNCHANGED backup
      PROVE  FALSE
  BY <1>2, <1>7 DEF Vacant, Holds, Exists
<1>8. ASSUME NEW p \in Publisher, Clean(p)
      PROVE  \E q \in Underway : Exists(run[q].saw) /\ {Edit, Marker} \subseteq run[q].saw.bytes
  <2>1. PICK t \in Emptied(backup[p]) : Exists(backup[p]) /\ backup' = [backup EXCEPT ![p] = t] /\ UNCHANGED root
    BY <1>2, <1>8 DEF Clean
  <2>2. Holds(backup[p]) /\ \A q \in Publisher \ {p} : backup'[q] = backup[q]
    BY <1>0, <1>2, <2>1 DEF PubShape, PubTypeOK
  <2>3. /\ run[p].pc = "clean" /\ p \in Underway
        /\ run[p].saw = Absent \/ run[p].saw.bytes = {} \/ Owned(run[p].saw)
        /\ Exists(run[p].saw) /\ backup[p].bytes \subseteq run[p].saw.bytes
    BY <1>1, <1>8, <2>2 DEF Clean, CleanAt, Underway, PubInv, Knows, Steps, PastMove, Holds, Exists
  <2> QED
    BY <2>2, <2>3 DEF Holds, Exists, Owned
<1>9. ASSUME NEW p \in Publisher, RemoveNew(p)
      PROVE  FALSE
  <2>1. CASE PutBack(p)
    BY <1>6, <2>1
  <2>2. CASE (\A t \in Opened(run[p].id) : t.bytes = {}) /\ Exists(root) /\ root.id = run[p].id /\ UNCHANGED backup
    BY <1>7, <2>2 DEF Opened, Vacant
  <2>3. ASSUME NEW b, root' = Without(root, run[p].id, b), b \in Owner(p),
               backup' = [q \in Publisher |-> Without(backup[q], run[p].id, b)]
        PROVE  FALSE
    <3>1. b # Edit
      BY <2>3, PublicationBounds DEF Owner
    <3>2. \A t \in Tree : Holds(t) => Holds(Without(t, run[p].id, b))
      BY <3>1, WithoutParts DEF Holds
    <3>3. root \in Tree /\ \A q \in Publisher : backup[q] \in Tree
      BY <1>0 DEF PubShape, PubTypeOK
    <3> QED
      BY <1>2, <2>3, <3>2, <3>3
  <2> QED
    BY <1>1, <1>9, <2>1, <2>2, <2>3 DEF RemoveNew
<1>10. ASSUME NEW p \in Publisher, AfterMove(p) \/ Swap(p) \/ Undo(p) \/ CallFails(p)
       PROVE  FALSE
  BY <1>3, <1>6, <1>7, <1>10, <1>2 DEF AfterMove, Swap, Undo, CallFails
<1> QED
  BY <1>1, <1>2, <1>3, <1>4, <1>5, <1>8, <1>9, <1>10
     DEF PubNext, ParentMoves, pubVars, trees, Begin, Look, MakeStage, WriteStage, Recheck, BeforeSwap, AfterSwap,
         BeforeClean, Unstage, Stops

-----------------------------------------------------------------------------
(* The theorems on the files *)

LEMMA ImportAlways == ImportSpec => []ImportInv
BY ImportStarts, ImportSteps, PTL DEF ImportSpec

LEMMA PubAlways == PubSpec => []PubInv
BY PubStarts, PubSteps, PTL DEF PubSpec

\* Wherever a boot stops, the next one serves the league the file held or
\* refuses, and with no other file there it never has to refuse (openLocked).
THEOREM ImportStaysSafe == ImportSpec => []ImportIsSafe
BY ImportAlways, ImportInvIsSafe, PTL

\* However runs, failed calls, stops and the operator interleave, a whole tree
\* exists from the first publication on, until a run takes back the tree of
\* another (Publish, rollbackPublication).
THEOREM PublicationStaysSound == PubSpec => []PublicationIsSound
BY PubAlways, PubInvIsSound, PTL

\* A step of the whole run is a step of each part, or leaves it alone.
LEMMA StepsOfParts ==
  ASSUME [StoreNext]_StoreParts
  PROVE  [ImportNext]_importVars /\ [PubNext]_pubVars
BY DEF StoreNext, StoreParts, MCPubNext

\* Both hold together in the run that explores them.
THEOREM FilesStaySound == StoreSpec => []FilesAreSound
<1>1. StoreInit => ImportInv /\ PubInv
  BY ImportStarts, PubStarts DEF StoreInit
<1>2. ImportInv /\ PubInv /\ [StoreNext]_StoreParts => ImportInv' /\ PubInv'
  BY StepsOfParts, ImportSteps, PubSteps
<1>3. ImportInv /\ PubInv => FilesAreSound
  BY ImportInvIsSafe, PubInvIsSound DEF FilesAreSound
<1> QED
  BY <1>1, <1>2, <1>3, PTL DEF StoreSpec

\* No step destroys a state file's bytes or a mark once written, nor what the
\* operator put into the output, but for an owned tree a run had seen it in
\* (finishLegacyImportFile, abandonLocked, sameRootState).
THEOREM FilesStaySafe == StoreSpec => FilesSurvive
<1>1. StoreInit => ImportInv /\ PubInv
  BY ImportStarts, PubStarts DEF StoreInit
<1>2. ImportInv /\ PubInv /\ [StoreNext]_StoreParts => ImportInv' /\ PubInv'
  BY StepsOfParts, ImportSteps, PubSteps
<1>3. ImportInv /\ PubInv /\ [StoreNext]_StoreParts
        => /\ [{json, kept} \ {Nothing} \subseteq {json', kept'}]_importVars
           /\ [Mark # NoMark => league' = league]_importVars
           /\ [EditKept]_pubVars
  BY StepsOfParts, ImportActs, EditSteps DEF ImportAct
<1> QED
  BY <1>1, <1>2, <1>3, PTL DEF StoreSpec, FilesSurvive, EvidenceSurvives, BytesSurvive, MarkIsFinal, EditsSurvive, EditKept

-----------------------------------------------------------------------------
(* The seats: boards *)

\* Induction up to a number, over a set instead of a predicate: of the numbers
\* outside the set there is no least one.
LEMMA CountingUp ==
  ASSUME NEW n \in Nat, NEW S, 0 \in S, \A i \in 0..n : i # n /\ i \in S => i + 1 \in S
  PROVE  0..n \subseteq S
<1> DEFINE Bad == {i \in 0..n : i \notin S}
           T   == {0..i : i \in Bad}
<1>1. SUFFICES ASSUME Bad # {} PROVE FALSE
  OBVIOUS
<1>2. T \subseteq FiniteSubsetsOf(Nat) /\ T # {}
  <2>1. \A i \in Bad : IsFiniteSet(0..i) /\ 0..i \subseteq Nat
    BY FS_Interval
  <2> QED
    BY <1>1, <2>1 DEF FiniteSubsetsOf
<1>3. IsWellFoundedOn(StrictSubsetOrdering(Nat), FiniteSubsetsOf(Nat))
  BY FS_StrictSubsetOrderingWellFounded
<1> HIDE DEF T
<1>4. PICK x \in T : \A y \in T : ~(<<y, x>> \in StrictSubsetOrdering(Nat))
  BY <1>2, <1>3, WFMin
<1>5. PICK i \in Bad : x = 0..i
  BY <1>4 DEF T
<1>6. i \in 1..n /\ i - 1 \in Bad
  BY <1>5
<1>7. 0..(i - 1) \in T
  BY <1>6 DEF T
<1>8. <<0..(i - 1), 0..i>> \in StrictSubsetOrdering(Nat)
  BY <1>6 DEF StrictSubsetOrdering
<1> QED
  BY <1>4, <1>5, <1>7, <1>8

\* Of a set of numbers there is a least one.
LEMMA LeastExists ==
  ASSUME NEW T \in SUBSET Nat, T # {}
  PROVE  \E u \in T : \A w \in T : u <= w
<1>1. SUFFICES ASSUME \A u \in T : \E w \in T : w < u PROVE FALSE
  OBVIOUS
<1>2. PICK n \in Nat : n \in T
  OBVIOUS
<1> DEFINE S == {i \in Nat : \A j \in 0..i : j \notin T}
<1>3. 0 \in S
  BY <1>1
<1>4. \A i \in 0..n : i # n /\ i \in S => i + 1 \in S
  <2> SUFFICES ASSUME NEW i \in 0..n, i \in S, NEW j \in 0..(i + 1) PROVE j \notin T
    OBVIOUS
  <2>1. CASE j \in 0..i
    BY <2>1
  <2>2. CASE j = i + 1
    BY <1>1, <2>2
  <2> QED
    BY <2>1, <2>2
<1> HIDE DEF S
<1>5. 0..n \subseteq S
  BY <1>3, <1>4, CountingUp
<1> QED
  BY <1>2, <1>5 DEF S

Orders == {s \in Seq(Ranked) : IsInjective(s)}

\* The merge of two orders of a board goes on from the first and has what is in
\* either, each entry once.
LEMMA MergeIs ==
  ASSUME NEW a \in Orders, NEW b \in Orders
  PROVE  /\ Merge(a, b) \in Orders
         /\ Range(Merge(a, b)) = Range(a) \cup Range(b)
<1> DEFINE V == Orders
           n == Len(b)
           Step(q, i) == IF Contains(q, b[i]) THEN q ELSE Append(q, b[i])
           W(i) == {q \in V : Range(q) = Range(a) \cup {b[j] : j \in 1..i}}
           Merges(f, k) == f \in [0..k -> V] /\ f[0] = a /\ (\A i \in 0..k : f[i] \in W(i))
                             /\ \A i \in 1..k : f[i] = Step(f[i - 1], i)
           S == {k \in 0..n : \E f \in [0..k -> V] : Merges(f, k)}
<1>1. n \in Nat /\ b \in Seq(Ranked) /\ \A i \in 1..n : b[i] \in Ranked
  BY DEF Orders
<1>2. a \in V /\ a \in W(0)
  OBVIOUS
<1>3. ASSUME NEW i \in 0..n, i # n, NEW q \in W(i) PROVE Step(q, i + 1) \in W(i + 1)
  <2>1. i + 1 \in 1..n /\ b[i + 1] \in Ranked
    BY <1>1, <1>3
  <2>2. q \in Seq(Ranked) /\ IsInjective(q) /\ Range(q) = Range(a) \cup {b[j] : j \in 1..i}
    BY <1>3 DEF Orders
  <2>3. {b[j] : j \in 1..(i + 1)} = {b[j] : j \in 1..i} \cup {b[i + 1]}
    BY <1>3
  <2>4. CASE Contains(q, b[i + 1])
    <3>1. b[i + 1] \in Range(q)
      BY <2>2, <2>4 DEF Contains, Range
    <3>2. Step(q, i + 1) = q
      BY <2>4
    <3> QED
      BY <1>3, <2>2, <2>3, <3>1, <3>2
  <2>5. CASE ~Contains(q, b[i + 1])
    <3> DEFINE x == b[i + 1]
               r == Append(q, x)
    <3>1. r \in Seq(Ranked) /\ DOMAIN r = DOMAIN q \cup {Len(q) + 1} /\ r[Len(q) + 1] = x
          /\ (\A j \in DOMAIN q : r[j] = q[j]) /\ \A j \in DOMAIN q : q[j] # x
      BY <2>1, <2>2, <2>5 DEF Contains
    <3> HIDE DEF r, x
    <3>2. IsInjective(r)
      BY <2>2, <3>1 DEF IsInjective
    <3>3. Range(r) = Range(q) \cup {x}
      BY <3>1 DEF Range
    <3>4. Step(q, i + 1) = r
      BY <2>5 DEF r, x
    <3> HIDE DEF Step
    <3> QED
      BY <2>2, <2>3, <3>1, <3>2, <3>3, <3>4 DEF Orders, x
  <2> QED
    BY <2>4, <2>5
<1>4. \A i : W(i) \subseteq V
  OBVIOUS
<1> HIDE DEF V, Step, n, W
<1>5. n \in S
  <2>1. 0 \in S
    <3>1. Merges([i \in 0..0 |-> a], 0)
      BY <1>2
    <3>2. 0 \in 0..n /\ [i \in 0..0 |-> a] \in [0..0 -> V]
      BY <1>1, <1>2
    <3> QED
      BY <3>1, <3>2
  <2>2. \A k \in 0..n : k # n /\ k \in S => k + 1 \in S
    <3> SUFFICES ASSUME NEW k \in 0..n, k # n, k \in S PROVE k + 1 \in S
      OBVIOUS
    <3>1. PICK f \in [0..k -> V] : Merges(f, k)
      OBVIOUS
    <3> DEFINE g == [i \in 0..(k + 1) |-> IF i = k + 1 THEN Step(f[k], k + 1) ELSE f[i]]
    <3>2. k + 1 \in 1..n /\ Step(f[k], k + 1) \in W(k + 1) /\ k \in Nat
      BY <1>1, <1>3, <3>1
    <3>3. Step(f[k], k + 1) \in V
      BY <1>4, <3>2
    <3>4. g \in [0..(k + 1) -> V]
      BY <1>1, <3>1, <3>2, <3>3
    <3>5. g[0] = a /\ \A i \in 1..(k + 1) : g[i] = Step(g[i - 1], i)
      BY <1>1, <3>1, <3>2
    <3>6. \A i \in 0..(k + 1) : g[i] \in W(i)
      BY <1>1, <3>1, <3>2
    <3>7. Merges(g, k + 1)
      BY <3>4, <3>5, <3>6
    <3>8. k + 1 \in 0..n
      BY <1>1
    <3> QED
      BY <3>4, <3>7, <3>8
  <2> HIDE DEF S
  <2>3. 0..n \subseteq S
    BY <1>1, <2>1, <2>2, CountingUp
  <2> QED
    BY <1>1, <2>3
<1>6. PICK f \in [0..n -> V] : Merges(f, n)
  BY <1>5
<1> DEFINE merged[i \in 0..n] == IF i = 0 THEN a ELSE Step(merged[i - 1], i)
<1>7. f = [i \in 0..n |-> IF i = 0 THEN a ELSE Step(f[i - 1], i)]
  BY <1>1, <1>6
<1>8. merged = [i \in 0..n |-> IF i = 0 THEN a ELSE Step(merged[i - 1], i)]
  BY <1>7
<1> HIDE DEF merged
<1>9. 0..n \subseteq {i \in 0..n : merged[i] \in W(i)}
  <2>1. 0 \in {i \in 0..n : merged[i] \in W(i)}
    BY <1>1, <1>2, <1>8
  <2>2. \A i \in 0..n : i # n /\ i \in {j \in 0..n : merged[j] \in W(j)}
                          => i + 1 \in {j \in 0..n : merged[j] \in W(j)}
    BY <1>1, <1>3, <1>8
  <2> QED
    BY <1>1, <2>1, <2>2, CountingUp
<1>10. Merge(a, b) = merged[n]
  BY DEF Merge, merged, Step, n
<1>11. merged[n] \in W(n)
  BY <1>1, <1>9
<1>12. {b[j] : j \in 1..n} = Range(b)
  BY <1>1 DEF Range, n
<1> QED
  BY <1>10, <1>11, <1>12 DEF W, V

-----------------------------------------------------------------------------
(* The invariant *)

Roles    == {"primary", "co"}
Seatings == {NoMember, Unseated} \cup [team : Seat, role : Roles]
Boards   == {s \in Orders : Fits(s)}

SeatsShape ==
  /\ member \in [Person -> Seatings] /\ coInvite \in [Person -> Seat \cup {NoSeat}]
  /\ board \in [Person -> Boards] /\ escrow \in [Seat -> Boards]
  /\ revision \in [Seat -> Nat]
  /\ ready \subseteq Seat /\ auto \subseteq Seat /\ trimmed \subseteq Seat

Primary(t, p) == member[p] = Seated(t, "primary")
Co(t, p)      == member[p] = Seated(t, "co")
Bound(t, p)   == Co(t, p) \/ coInvite[p] = t

HoldersAlone ==
  \A t \in Seat, p, q \in Person :
    (Primary(t, p) /\ Primary(t, q)) \/ (Bound(t, p) /\ Bound(t, q)) => p = q

TenureKept ==
  \A t \in Seat :
    \/ t \in stray \/ \E p \in Person : Primary(t, p)
    \/ t \notin ready /\ t \notin auto /\ \A p \in Person : ~Bound(t, p)

BoardsKept ==
  \A t \in Seat, p \in Person :
    /\ Co(t, p) /\ p \notin stray /\ t \notin stray => board[p] = <<>>
    /\ Primary(t, p) => escrow[t] = <<>>

TrimKept ==
  /\ \A t \in trimmed, p \in Person : t \notin stray => ~Primary(t, p) /\ ~Co(t, p)
  /\ draftOrder \in {{}, Seat \ trimmed} /\ schedule \in {{}, Seat \ trimmed}

\* A request in the tenure it was made in is of a seat somebody holds, and its
\* board is the holder's; a seat late requests have reached is excepted.
InTenure(r) == r.rev = revision[r.seat] /\ r.seat \notin stray

CallIsSound(r) ==
  /\ r.op # "claim" =>
       /\ r.seat \in Seat /\ r.rev \in Nat /\ r.rev <= revision[r.seat]
       /\ InTenure(r) => \E q \in Person : Primary(r.seat, q)
  /\ r.op = "board" =>
       /\ r.arg \in Ranked /\ r.key \in Person
       /\ InTenure(r) => Primary(r.seat, r.key)
  /\ r.op = "invite" => r.arg \in Person

CallsSound ==
  /\ request = [p \in Person |-> request[p]]
  /\ \A p \in Person : request[p] # NoRequest => CallIsSound(request[p])

FormsSound ==
  /\ releaseForm = [t \in Seat |-> releaseForm[t]]
  /\ \A t \in Seat : releaseForm[t] # NoForm => releaseForm[t].token.revision = releaseForm[t].tenure
  /\ trimForm # NoForm => trimForm.token.seats = trimForm.seats

TenureSound == SeatsShape /\ HoldersAlone /\ TenureKept /\ BoardsKept /\ TrimKept

SeatsInv == TenureSound /\ CallsSound /\ FormsSound

\* Different seatings are different, and not the lack of one.
LEMMA SeatedAre ==
  /\ \A t \in Seat, r \in Roles :
       /\ Seated(t, r) \in Seatings /\ Seated(t, r).team = t /\ Seated(t, r).role = r
       /\ Seated(t, r) # NoMember /\ Seated(t, r) # Unseated
  /\ \A t, u \in Seat : Seated(t, "primary") # Seated(u, "co")
  /\ \A t, u \in Seat, r \in Roles : Seated(t, r) = Seated(u, r) => t = u
  BY SeatAssumption DEF Seated, Seatings, Roles, Unseated

\* What the sets of people on a seat are.
LEMMA HoldersAre ==
  ASSUME SeatsShape
  PROVE  /\ \A p \in Person : HasSeat(p) <=> \E t \in Seat : Primary(t, p) \/ Co(t, p)
         /\ \A t \in Seat, p \in Person :
              /\ p \in Holding(t, "primary") <=> Primary(t, p)
              /\ p \in Holding(t, "co") <=> Co(t, p)
              /\ p \in Members(t) <=> Primary(t, p) \/ Co(t, p)
              /\ p \in Pending(t) <=> coInvite[p] = t
         /\ \A t \in Seat :
              /\ Holding(t, "primary") \subseteq Person /\ Holding(t, "co") \subseteq Person
              /\ Members(t) \subseteq Person /\ Pending(t) \subseteq Person
<1>1. \A p \in Person : HasSeat(p) => \E t \in Seat : Primary(t, p) \/ Co(t, p)
  <2> SUFFICES ASSUME NEW p \in Person, HasSeat(p) PROVE \E t \in Seat : Primary(t, p) \/ Co(t, p)
    OBVIOUS
  <2>1. member[p] \in [team : Seat, role : Roles]
    BY DEF SeatsShape, Seatings, HasSeat
  <2>2. member[p].team \in Seat /\ member[p] = [team |-> member[p].team, role |-> member[p].role]
        /\ member[p].role \in {"primary", "co"}
    BY <2>1 DEF Roles
  <2> QED
    BY <2>2 DEF Primary, Co, Seated
<1>2. \A p \in Person, t \in Seat : Primary(t, p) \/ Co(t, p) => HasSeat(p) /\ member[p].team = t
  BY SeatedAre DEF Primary, Co, HasSeat, Roles
<1>3. \A t \in Seat, p \in Person :
        p \in Members(t) <=> Primary(t, p) \/ Co(t, p)
  BY <1>1, <1>2 DEF Members
<1>4. \A t \in Seat, p \in Person :
        /\ Primary(t, p) => member[p].role = "primary"
        /\ Co(t, p) => member[p].role = "co"
  BY SeatedAre DEF Primary, Co, Roles
<1>5. \A t \in Seat, p \in Person :
        /\ p \in Holding(t, "primary") <=> Primary(t, p)
        /\ p \in Holding(t, "co") <=> Co(t, p)
  BY <1>3, <1>4 DEF Holding
<1> QED
  BY <1>1, <1>2, <1>3, <1>5 DEF Holding, Members, Pending

\* A request is as sound as before when its seat's tenure goes on: what ends a
\* tenure counts the seat's revision.
LEMMA CallsStay ==
  ASSUME SeatsShape, CallsSound, revision' \in [Seat -> Nat],
         request' = [p \in Person |-> request'[p]],
         \A p \in Person : request'[p] \in {request[p], NoRequest},
         \A t \in Seat : \/ revision'[t] > revision[t]
                         \/ /\ revision'[t] = revision[t] /\ (t \in stray => t \in stray')
                            /\ \A p \in Person : Primary(t, p) => Primary(t, p)'
  PROVE  CallsSound'
<1> SUFFICES ASSUME NEW p \in Person, NEW r, r = request'[p], r # NoRequest PROVE CallIsSound(r)'
  BY DEF CallsSound
<1>1. r = request[p] /\ CallIsSound(r)
  BY DEF CallsSound
<1>2. r.op # "claim" => r.seat \in Seat /\ revision[r.seat] \in Nat /\ revision'[r.seat] \in Nat
  BY <1>1 DEF CallIsSound, SeatsShape
<1>3. r.op # "claim" /\ InTenure(r)' => /\ InTenure(r)
                                       /\ \A q \in Person : Primary(r.seat, q) => Primary(r.seat, q)'
  BY <1>1, <1>2 DEF CallIsSound, InTenure
<1>4. r.op # "claim" => r.rev <= revision'[r.seat]
  BY <1>1, <1>2 DEF CallIsSound
<1>5. r.op = "board" => r.op # "claim"
  OBVIOUS
<1> QED
  BY <1>1, <1>2, <1>3, <1>4, <1>5 DEF CallIsSound

\* What a step leaves alone stays sound.
LEMMA TenureStays ==
  ASSUME TenureSound, UNCHANGED <<tenure, boards, trimmed, draftOrder, schedule, stray>>
  PROVE  TenureSound'
BY DEF TenureSound, SeatsShape, HoldersAlone, TenureKept, BoardsKept, TrimKept, Primary, Co, Bound,
       tenure, boards

\* ... forms too, ...
LEMMA FormsStay ==
  ASSUME FormsSound, UNCHANGED forms
  PROVE  FormsSound'
BY DEF FormsSound, forms

\* ... and the requests, while nothing they rest on changes.
LEMMA CallsGoOn ==
  ASSUME CallsSound, UNCHANGED <<member, revision, request, stray>>
  PROVE  CallsSound'
BY DEF CallsSound, CallIsSound, InTenure, Primary

-----------------------------------------------------------------------------
(* The steps *)

\* Invitations of the league and the start leave the seats alone.
LEMMA QuietStep ==
  ASSUME SeatsInv, (\E p \in Person : AddInvite(p) \/ RemoveInvite(p)) \/ StartDraft
  PROVE  SeatsInv'
<1>1. UNCHANGED <<tenure, boards, trimmed, draftOrder, schedule, stray, forms, request>>
  BY DEF AddInvite, RemoveInvite, StartDraft, topology
<1> QED
  BY <1>1, TenureStays, FormsStay, CallsGoOn DEF SeatsInv, tenure

\* A form shows what is there.
LEMMA RenderStep ==
  ASSUME SeatsInv, (\E t \in Seat : RenderReleaseForm(t)) \/ RenderTrimForm
  PROVE  SeatsInv'
<1>1. UNCHANGED <<tenure, boards, trimmed, draftOrder, schedule, stray, request>>
  BY DEF RenderReleaseForm, RenderTrimForm, topology
<1>2. FormsSound'
  <2>1. CASE \E t \in Seat : RenderReleaseForm(t)
    BY <2>1 DEF RenderReleaseForm, FormsSound, SeatsInv, SeatReleaseToken
  <2>2. CASE RenderTrimForm
    BY <2>2 DEF RenderTrimForm, FormsSound, SeatsInv, SeatTrimToken
  <2> QED
    BY <2>1, <2>2
<1> QED
  BY <1>1, <1>2, TenureStays, CallsGoOn DEF SeatsInv, tenure

\* A request takes its seat, and its board, from what it sees.
LEMMA AskStep ==
  ASSUME SeatsInv, NEW p \in Person, AskSome(p)
  PROVE  SeatsInv'
<1>1. UNCHANGED <<tenure, boards, topology, forms, stray>>
  BY DEF AskSome, Ask
<1>2. TenureSound' /\ FormsSound'
  BY <1>1, TenureStays, FormsStay DEF SeatsInv, topology
<1>3. PICK r : /\ request' = [request EXCEPT ![p] = r] /\ CallIsSound(r)
  <2>1. SeatsShape /\ TenureKept
    BY DEF SeatsInv, TenureSound
  <2> DEFINE t == member[p].team
             C(op, arg, key) == [op |-> op, seat |-> t, arg |-> arg, key |-> key,
                                 rev |-> IF HasSeat(p) THEN revision[t] ELSE 0]
  <2>2. HasSeat(p) => t \in Seat /\ revision[t] \in Nat /\ (Primary(t, p) \/ Co(t, p))
    <3>1. \A u \in Seat : Primary(u, p) \/ Co(u, p) => t = u
      BY SeatedAre DEF Primary, Co, Roles
    <3> QED
      BY <2>1, <3>1, HoldersAre DEF SeatsShape
  <2>3. HasSeat(p) /\ t \notin stray => \E q \in Person : Primary(t, q)
    BY <2>1, <2>2 DEF TenureKept, Bound
  <2>4. HasSeat(p) => OwnerKey(p) \in Person /\ (t \notin stray => Primary(t, OwnerKey(p)))
    <3> SUFFICES ASSUME HasSeat(p)
                 PROVE  OwnerKey(p) \in Person /\ (t \notin stray => Primary(t, OwnerKey(p)))
      OBVIOUS
    <3> DEFINE H == Holding(t, "primary")
    <3>1. H \subseteq Person /\ \A q \in Person : q \in H <=> Primary(t, q)
      BY <2>1, <2>2, HoldersAre
    <3>2. CASE H = {}
      BY <2>3, <3>1, <3>2 DEF OwnerKey
    <3>3. CASE H # {}
      <4> HIDE DEF H
      <4>1. OwnerKey(p) \in H
        BY <3>3 DEF OwnerKey, H
      <4> QED
        BY <3>1, <4>1
    <3> QED
      BY <3>2, <3>3
  <2> HIDE DEF t
  <2>5. CASE HasSeat(p) /\ Ask(p, "ready", NoSeat, p)
    <3>1. CallIsSound(C("ready", NoSeat, p))
      BY <2>2, <2>3, <2>5 DEF CallIsSound, InTenure
    <3> QED
      BY <2>5, <3>1 DEF Ask, t
  <2>6. CASE HasSeat(p) /\ Ask(p, "auto", t \notin auto, p)
    <3>1. CallIsSound(C("auto", t \notin auto, p))
      BY <2>2, <2>3, <2>6 DEF CallIsSound, InTenure
    <3> QED
      BY <2>6, <3>1 DEF Ask, t
  <2>7. ASSUME NEW x \in Ranked, HasSeat(p), Ask(p, "board", x, OwnerKey(p))
        PROVE  \E r : request' = [request EXCEPT ![p] = r] /\ CallIsSound(r)
    <3>1. CallIsSound(C("board", x, OwnerKey(p)))
      BY <2>2, <2>3, <2>4, <2>7 DEF CallIsSound, InTenure
    <3> QED
      BY <2>7, <3>1 DEF Ask, t
  <2>8. ASSUME NEW q \in Person, HasSeat(p), Ask(p, "invite", q, p)
        PROVE  \E r : request' = [request EXCEPT ![p] = r] /\ CallIsSound(r)
    <3>1. CallIsSound(C("invite", q, p))
      BY <2>2, <2>3, <2>8 DEF CallIsSound, InTenure
    <3> QED
      BY <2>8, <3>1 DEF Ask, t
  <2>9. CASE Ask(p, "claim", NoSeat, p)
    <3>1. CallIsSound(C("claim", NoSeat, p))
      BY DEF CallIsSound
    <3> QED
      BY <2>9, <3>1 DEF Ask, t
  <2> QED
    BY <2>5, <2>6, <2>7, <2>8, <2>9 DEF AskSome, t
<1>4. CallIsSound(r)'
  BY <1>1, <1>3 DEF CallIsSound, InTenure, Primary, tenure
<1>5. \A q \in Person : q # p /\ request[q] # NoRequest => CallIsSound(request[q])'
  <2>1. \A c : CallIsSound(c) => CallIsSound(c)'
    BY <1>1 DEF CallIsSound, InTenure, Primary, tenure
  <2> QED
    BY <1>3, <2>1 DEF SeatsInv, CallsSound
<1>6. CallsSound'
  BY <1>3, <1>4, <1>5 DEF SeatsInv, CallsSound
<1> QED
  BY <1>2, <1>6 DEF SeatsInv

\* Who signs in has no seat yet.
LEMMA SignInStep ==
  ASSUME SeatsInv, NEW p \in Person, SignIn(p)
  PROVE  SeatsInv'
<1>1. /\ member' = [member EXCEPT ![p] = Unseated] /\ member[p] = NoMember
      /\ UNCHANGED <<coInvite, ready, auto, revision, boards, topology, request, forms, stray>>
  BY DEF SignIn
<1>2. TenureSound
  BY DEF SeatsInv
<1>3. SeatsShape'
  BY <1>1, <1>2 DEF TenureSound, SeatsShape, Seatings, boards, topology
<1>4. \A t \in Seat, q \in Person : /\ Primary(t, q)' <=> Primary(t, q)
                                    /\ Co(t, q)' <=> Co(t, q)
                                    /\ Bound(t, q)' <=> Bound(t, q)
  BY <1>1, <1>2, SeatedAre DEF TenureSound, SeatsShape, Primary, Co, Bound, Roles
<1>5. HoldersAlone' /\ TenureKept' /\ BoardsKept' /\ TrimKept'
  BY <1>1, <1>2, <1>4 DEF TenureSound, SeatsShape, HoldersAlone, TenureKept, BoardsKept, TrimKept, boards,
     topology
<1>6. CallsSound'
  BY <1>1, <1>2, <1>4, CallsStay DEF SeatsInv, TenureSound, SeatsShape, CallsSound
<1> QED
  BY <1>1, <1>3, <1>5, <1>6, FormsStay DEF SeatsInv, TenureSound

\* Detaching takes a co-manager, and no primary.
LEMMA DetachStep ==
  ASSUME SeatsInv, NEW t \in Seat, Detach(t)
  PROVE  SeatsInv'
<1>1. /\ member' = [p \in Person |-> IF p \in Holding(t, "co") THEN NoMember ELSE member[p]]
      /\ coInvite' = [p \in Person |-> IF coInvite[p] = t THEN NoSeat ELSE coInvite[p]]
      /\ UNCHANGED <<ready, auto, revision, boards, topology, request, forms, stray>>
  BY DEF Detach
<1>2. TenureSound /\ SeatsShape
  BY DEF SeatsInv, TenureSound
<1>3. SeatsShape'
  BY <1>1, <1>2 DEF SeatsShape, Seatings, boards, topology
<1>4. \A u \in Seat, q \in Person : /\ Primary(u, q)' <=> Primary(u, q)
                                    /\ Co(u, q)' => Co(u, q)
                                    /\ Bound(u, q)' => Bound(u, q)
  <2>1. \A q \in Person : q \in Holding(t, "co") <=> Co(t, q)
    BY <1>2, HoldersAre
  <2>2. \A u \in Seat, q \in Person : member'[q] # member[q] => ~Primary(u, q) /\ member'[q] = NoMember
    BY <1>1, <2>1, SeatedAre DEF Primary, Co
  <2>3. \A u \in Seat, q \in Person : coInvite'[q] = u => coInvite[q] = u
    BY <1>1, SeatAssumption
  <2> QED
    BY <2>2, <2>3, SeatedAre DEF Primary, Co, Bound, Roles
<1>5. HoldersAlone' /\ TenureKept' /\ BoardsKept' /\ TrimKept'
  BY <1>1, <1>2, <1>4 DEF TenureSound, SeatsShape, HoldersAlone, TenureKept, BoardsKept, TrimKept, boards,
     topology
<1>6. CallsSound'
  BY <1>1, <1>2, <1>4, CallsStay DEF SeatsInv, SeatsShape, CallsSound
<1> QED
  BY <1>1, <1>3, <1>5, <1>6, FormsStay DEF SeatsInv, TenureSound

\* The commissioner sets a flag of a seat that somebody holds.
LEMMA FlagStep ==
  ASSUME SeatsInv, NEW t \in Seat, SetReady(t) \/ SetAutopickIfClaimed(t)
  PROVE  SeatsInv'
<1>1. /\ Claimed(t) /\ UNCHANGED <<member, coInvite, revision, boards, topology, request, forms, stray>>
      /\ ready' \subseteq ready \cup {t} /\ auto' \subseteq auto \cup {t}
  BY DEF SetReady, SetAutopickIfClaimed
<1>2. TenureSound /\ SeatsShape
  BY DEF SeatsInv, TenureSound
<1>3. SeatsShape'
  BY <1>1, <1>2 DEF SeatsShape, boards, topology
<1>4. t \in stray \/ \E p \in Person : Primary(t, p)
  <2>1. \E p \in Person : Primary(t, p) \/ Co(t, p)
    BY <1>1, <1>2, HoldersAre DEF Claimed
  <2> QED
    BY <1>2, <2>1 DEF TenureSound, TenureKept, Bound
<1>5. HoldersAlone' /\ BoardsKept' /\ TrimKept'
  BY <1>1, <1>2 DEF TenureSound, HoldersAlone, BoardsKept, TrimKept, Primary, Co, Bound, boards, topology
<1>6. TenureKept'
  BY <1>1, <1>2, <1>4 DEF TenureSound, TenureKept, Primary, Co, Bound
<1> QED
  BY <1>1, <1>3, <1>5, <1>6, FormsStay, CallsGoOn DEF SeatsInv, TenureSound

\* A trim takes seats nobody holds, and the plans with them.
LEMMA PlanStep ==
  ASSUME SeatsInv, Trim \/ DrawOrder \/ GenerateSchedule
  PROVE  SeatsInv'
<1>1. UNCHANGED <<tenure, boards, request, releaseForm, stray>>
  BY DEF Trim, DrawOrder, GenerateSchedule, forms
<1>2. TenureSound /\ SeatsShape
  BY DEF SeatsInv, TenureSound
<1>3. \A t \in Unclaimed : t \in Seat /\ \A p \in Person : ~Primary(t, p) /\ ~Co(t, p)
  BY <1>2, HoldersAre DEF Unclaimed, Claimed
<1>4. FormsSound'
  BY <1>1 DEF SeatsInv, FormsSound, Trim, DrawOrder, GenerateSchedule, forms
<1>5. trimmed' \subseteq Seat
  BY <1>2, <1>3 DEF SeatsShape, Trim, DrawOrder, GenerateSchedule
<1>6. TrimKept'
  <2>1. CASE Trim
    <3>1. \/ trimmed' = Unclaimed /\ TrimsPlans
          \/ UNCHANGED <<trimmed, draftOrder, schedule>>
      BY <2>1 DEF Trim
    <3> QED
      BY <1>1, <1>2, <1>3, <3>1 DEF TenureSound, TrimKept, TrimsPlans, Primary, Co, tenure
  <2>2. CASE DrawOrder \/ GenerateSchedule
    <3>1. /\ trimmed' = trimmed /\ draftOrder' \in {draftOrder, Seat \ trimmed}
          /\ schedule' \in {schedule, Seat \ trimmed}
      BY <2>2 DEF DrawOrder, GenerateSchedule
    <3> QED
      BY <1>1, <1>2, <3>1 DEF TenureSound, TrimKept, Primary, Co, tenure
  <2> QED
    BY <2>1, <2>2
<1>7. SeatsShape' /\ HoldersAlone' /\ TenureKept' /\ BoardsKept'
  BY <1>1, <1>2, <1>5 DEF TenureSound, SeatsShape, HoldersAlone, TenureKept, BoardsKept, Primary, Co, Bound,
     tenure, boards
<1> QED
  BY <1>1, <1>4, <1>6, <1>7, CallsGoOn DEF SeatsInv, TenureSound, tenure

\* Nothing is an order.
LEMMA EmptyBoard == <<>> \in Boards /\ Range(<<>>) = {}
<1>1. <<>> \in Seq(Ranked) /\ IsInjective(<<>>) /\ Len(<<>>) = 0 /\ Range(<<>>) = {}
  BY DEF IsInjective, Range
<1> QED
  BY <1>1, SeatAssumption DEF Boards, Orders, Fits

\* After a reset nobody has a seat and no tenure goes on.
LEMMA ResetStep ==
  ASSUME SeatsInv, ResetSeats
  PROVE  SeatsInv'
<1>1. /\ member' = [p \in Person |-> NoMember] /\ coInvite' = [p \in Person |-> NoSeat]
      /\ ready' = {} /\ auto' = {} /\ revision' = [t \in Seat |-> revision[t] + 1]
      /\ board' = [p \in Person |-> <<>>] /\ escrow' = [t \in Seat |-> <<>>]
      /\ trimmed' = {} /\ draftOrder' = {} /\ schedule' = {} /\ UNCHANGED <<request, forms>>
  BY DEF ResetSeats
<1>2. SeatsShape
  BY DEF SeatsInv, TenureSound
<1>3. SeatsShape'
  BY <1>1, <1>2, EmptyBoard DEF SeatsShape, Seatings
<1>4. \A t \in Seat, p \in Person : ~Primary(t, p)' /\ ~Co(t, p)' /\ ~Bound(t, p)'
  BY <1>1, SeatedAre, SeatAssumption DEF Primary, Co, Bound, Roles
<1>5. HoldersAlone' /\ TenureKept' /\ BoardsKept' /\ TrimKept'
  BY <1>1, <1>4 DEF HoldersAlone, TenureKept, BoardsKept, TrimKept
<1>6. \A t \in Seat : revision'[t] > revision[t]
  BY <1>1, <1>2 DEF SeatsShape
<1>7. CallsSound'
  BY <1>1, <1>2, <1>3, <1>6, CallsStay DEF SeatsInv, SeatsShape, CallsSound
<1> QED
  BY <1>1, <1>3, <1>5, <1>7, FormsStay DEF SeatsInv, TenureSound

-----------------------------------------------------------------------------
(* The requests that land *)

\* READY and AUTO of a seat in its tenure, or late.
LEMMA FlagLands ==
  ASSUME SeatsInv, NEW r, CallIsSound(r), r.op # "claim",
         UNCHANGED <<member, coInvite, revision, boards, topology>>,
         ready' \subseteq ready \cup {r.seat}, auto' \subseteq auto \cup {r.seat},
         stray' = stray \cup (IF Late(r) THEN {r.seat, r.key} ELSE {})
  PROVE  TenureSound'
<1>1. TenureSound /\ SeatsShape /\ r.seat \in Seat
  BY DEF SeatsInv, TenureSound, CallIsSound
<1>2. SeatsShape'
  BY <1>1 DEF SeatsShape, boards, topology
<1>3. HoldersAlone' /\ BoardsKept' /\ TrimKept'
  BY <1>1 DEF TenureSound, HoldersAlone, BoardsKept, TrimKept, Primary, Co, Bound, boards, topology
<1>4. r.seat \in stray' \/ \E q \in Person : Primary(r.seat, q)
  BY DEF CallIsSound, InTenure, Late
<1>5. TenureKept'
  BY <1>1, <1>4 DEF TenureSound, TenureKept, Primary, Co, Bound
<1> QED
  BY <1>2, <1>3, <1>5 DEF TenureSound

\* An entry for a board whose owner still has the seat, or late.
LEMMA EntryLands ==
  ASSUME SeatsInv, NEW r, CallIsSound(r), r.op = "board", BoardAdd(r.key, r.arg),
         UNCHANGED <<tenure, topology>>,
         stray' = stray \cup (IF Late(r) THEN {r.seat, r.key} ELSE {})
  PROVE  TenureSound'
<1>1. TenureSound /\ SeatsShape
  BY DEF SeatsInv, TenureSound
<1>2. r.op # "claim" /\ r.seat \in Seat /\ r.key \in Person /\ r.arg \in Ranked
  BY DEF CallIsSound
<1> DEFINE k == r.key
           x == r.arg
           b == board[k]
<1>3. /\ board' = [board EXCEPT ![k] = IF Contains(b, x) \/ Len(b) >= BoardLimit THEN b ELSE Append(b, x)]
      /\ escrow' = escrow
  BY DEF BoardAdd
<1>4. b \in Boards
  BY <1>1, <1>2 DEF SeatsShape
<1>5. ~Contains(b, x) /\ ~(Len(b) >= BoardLimit) => Append(b, x) \in Boards
  <2> SUFFICES ASSUME ~Contains(b, x), ~(Len(b) >= BoardLimit) PROVE Append(b, x) \in Boards
    OBVIOUS
  <2> DEFINE c == Append(b, x)
  <2> HIDE DEF b, x
  <2>1. b \in Seq(Ranked) /\ IsInjective(b) /\ x \in Ranked
    BY <1>2, <1>4 DEF Boards, Orders, x
  <2>2. /\ c \in Seq(Ranked) /\ Len(c) = Len(b) + 1 /\ DOMAIN c = DOMAIN b \cup {Len(b) + 1}
        /\ c[Len(b) + 1] = x /\ \A j \in DOMAIN b : c[j] = b[j] /\ b[j] # x
    BY <2>1 DEF Contains
  <2> HIDE DEF c
  <2>3. IsInjective(c)
    BY <2>1, <2>2 DEF IsInjective
  <2>4. Fits(c)
    BY <2>1, <2>2, SeatAssumption DEF Fits
  <2> QED
    BY <2>2, <2>3, <2>4 DEF Boards, Orders, c
<1> HIDE DEF b, x
<1>6. SeatsShape'
  BY <1>1, <1>2, <1>3, <1>4, <1>5 DEF SeatsShape, tenure, topology
<1>7. HoldersAlone' /\ TenureKept' /\ TrimKept'
  BY <1>1 DEF TenureSound, HoldersAlone, TenureKept, TrimKept, Primary, Co, Bound, tenure, topology
<1>8. ASSUME NEW t \in Seat, Co(t, k), k \notin stray', t \notin stray' PROVE FALSE
  <2>1. ~Late(r) /\ stray \subseteq stray'
    BY <1>8
  <2>2. r.rev = revision[r.seat] /\ k \in Members(r.seat)
    BY <1>2, <2>1 DEF Late
  <2>3. CASE r.seat \in stray
    <3>1. Primary(r.seat, k) \/ Co(r.seat, k)
      BY <1>1, <1>2, <2>2, HoldersAre
    <3> QED
      BY <1>2, <1>8, <2>1, <2>3, <3>1, SeatedAre DEF Primary, Co, Roles
  <2>4. CASE r.seat \notin stray
    <3>1. Primary(r.seat, k)
      BY <2>2, <2>4 DEF CallIsSound, InTenure
    <3> QED
      BY <1>2, <1>8, <3>1, SeatedAre DEF Primary, Co
  <2> QED
    BY <2>3, <2>4
<1>9. BoardsKept'
  <2>1. \A t \in Seat, q \in Person : /\ Primary(t, q)' <=> Primary(t, q)
                                      /\ Co(t, q)' <=> Co(t, q)
    BY DEF Primary, Co, tenure
  <2>2. \A q \in Person : q # k => board'[q] = board[q]
    BY <1>1, <1>2, <1>3 DEF SeatsShape
  <2>3. stray \subseteq stray'
    OBVIOUS
  <2> HIDE DEF k
  <2> QED
    BY <1>1, <1>3, <1>8, <2>1, <2>2, <2>3 DEF TenureSound, BoardsKept
<1> QED
  BY <1>6, <1>7, <1>9 DEF TenureSound

\* A co-manager is invited to a seat in its tenure that has none, or late.
LEMMA InviteLands ==
  ASSUME SeatsInv, NEW r, CallIsSound(r), r.op = "invite", InviteCoManager(r.seat, r.arg),
         UNCHANGED <<member, ready, auto, revision, boards, topology>>,
         stray' = stray \cup (IF Late(r) THEN {r.seat, r.key} ELSE {})
  PROVE  TenureSound'
<1>1. TenureSound /\ SeatsShape
  BY DEF SeatsInv, TenureSound
<1>2. r.op # "claim" /\ r.seat \in Seat /\ r.arg \in Person
  BY DEF CallIsSound
<1>3. \/ coInvite' = coInvite
      \/ MayInvite(r.seat, r.arg) /\ coInvite' = [coInvite EXCEPT ![r.arg] = r.seat]
  BY DEF InviteCoManager
<1>4. SeatsShape'
  BY <1>1, <1>2, <1>3 DEF SeatsShape, boards, topology
<1>5. r.seat \in stray' \/ \E q \in Person : Primary(r.seat, q)
  BY <1>2 DEF CallIsSound, InTenure, Late
<1>6. \A t \in Seat, q \in Person : /\ Primary(t, q)' <=> Primary(t, q)
                                    /\ Co(t, q)' <=> Co(t, q)
  BY DEF Primary, Co
<1>7. \A t \in Seat, q \in Person : t # r.seat /\ Bound(t, q)' => Bound(t, q)
  BY <1>1, <1>2, <1>3, <1>6 DEF SeatsShape, Bound
<1>8. \A q \in Person : Bound(r.seat, q)' => Bound(r.seat, q) \/ (coInvite' # coInvite /\ q = r.arg)
  BY <1>1, <1>2, <1>3, <1>6 DEF SeatsShape, Bound
<1>9. coInvite' # coInvite => \A q \in Person : Bound(r.seat, q) => q = r.arg
  BY <1>1, <1>2, <1>3, HoldersAre DEF MayInvite, Bound
<1>10. HoldersAlone'
  BY <1>1, <1>2, <1>6, <1>7, <1>8, <1>9 DEF TenureSound, HoldersAlone
<1>11. TenureKept'
  BY <1>1, <1>2, <1>5, <1>6, <1>7 DEF TenureSound, TenureKept
<1>12. BoardsKept' /\ TrimKept'
  BY <1>1, <1>6 DEF TenureSound, BoardsKept, TrimKept, boards, topology, SeatsShape
<1> QED
  BY <1>4, <1>10, <1>11, <1>12 DEF TenureSound

\* What a claim does: nothing, or a seat nobody holds gets its primary, with the
\* order that was left for it.
LEMMA ClaimIs ==
  ASSUME SeatsShape, NEW p \in Person, Claim(p), ~UNCHANGED <<tenure, boards>>
  PROVE  \E t \in Seat :
           /\ ~HasSeat(p) /\ ~Claimed(t) /\ t \notin trimmed
           /\ member' = [member EXCEPT ![p] = Seated(t, "primary")]
           /\ revision' = [revision EXCEPT ![t] = @ + 1]
           /\ board' = [board EXCEPT ![p] = IF escrow[t] = <<>> THEN @ ELSE Merge(escrow[t], @)]
           /\ escrow' = [escrow EXCEPT ![t] = <<>>]
           /\ escrow[t] # <<>> => Fits(Merge(escrow[t], board[p]))
           /\ UNCHANGED <<coInvite, ready, auto>>
<1>1. ~HasSeat(p) /\ OpenSeats # {}
  BY DEF Claim
<1> DEFINE t == CHOOSE u \in OpenSeats : \A w \in OpenSeats : u <= w
<1>2. OpenSeats \in SUBSET Nat
  BY SeatAssumption DEF OpenSeats
<1>3. t \in OpenSeats
  BY <1>1, <1>2, LeastExists
<1> HIDE DEF t
<1>4. t \in Seat /\ ~Claimed(t) /\ t \notin trimmed
  BY <1>3 DEF OpenSeats
<1>5. /\ escrow[t] # <<>> => Fits(Merge(escrow[t], board[p]))
      /\ member' = [member EXCEPT ![p] = Seated(t, "primary")]
      /\ revision' = [revision EXCEPT ![t] = @ + 1]
      /\ Promotes(t, p) /\ UNCHANGED <<coInvite, ready, auto>>
  BY <1>1 DEF Claim, t
<1> QED
  BY <1>1, <1>4, <1>5 DEF Promotes

\* A claimed seat has one primary, and the claimant has what was left for it.
LEMMA ClaimLands ==
  ASSUME SeatsInv, NEW p \in Person, Claim(p), UNCHANGED <<topology, stray>>
  PROVE  /\ TenureSound'
         /\ \A u \in Seat : \/ revision'[u] > revision[u]
                            \/ /\ revision'[u] = revision[u]
                               /\ \A q \in Person : Primary(u, q) => Primary(u, q)'
<1>1. TenureSound /\ SeatsShape
  BY DEF SeatsInv, TenureSound
<1>2. CASE UNCHANGED <<tenure, boards>>
  BY <1>1, <1>2, TenureStays DEF tenure, topology, Primary
<1>3. CASE ~UNCHANGED <<tenure, boards>>
  <2>1. PICK t \in Seat :
           /\ ~HasSeat(p) /\ ~Claimed(t) /\ t \notin trimmed
           /\ member' = [member EXCEPT ![p] = Seated(t, "primary")]
           /\ revision' = [revision EXCEPT ![t] = @ + 1]
           /\ board' = [board EXCEPT ![p] = IF escrow[t] = <<>> THEN @ ELSE Merge(escrow[t], @)]
           /\ escrow' = [escrow EXCEPT ![t] = <<>>]
           /\ escrow[t] # <<>> => Fits(Merge(escrow[t], board[p]))
           /\ UNCHANGED <<coInvite, ready, auto>>
    BY <1>1, <1>3, ClaimIs
  <2>2. \A u \in Seat : ~Primary(u, p) /\ ~Co(u, p)
    BY <1>1, <2>1, HoldersAre
  <2>3. \A q \in Person : ~Primary(t, q) /\ ~Co(t, q)
    BY <1>1, <2>1, HoldersAre DEF Claimed
  <2>4. \A u \in Seat, q \in Person : /\ Primary(u, q)' <=> Primary(u, q) \/ (u = t /\ q = p)
                                      /\ Co(u, q)' <=> Co(u, q)
                                      /\ Bound(u, q)' <=> Bound(u, q)
    BY <1>1, <2>1, <2>2, SeatedAre DEF SeatsShape, Primary, Co, Bound, Roles
  <2>5. (IF escrow[t] = <<>> THEN board[p] ELSE Merge(escrow[t], board[p])) \in Boards
    BY <1>1, <2>1, MergeIs DEF SeatsShape, Boards
  <2>6. /\ member' \in [Person -> Seatings] /\ revision' \in [Seat -> Nat]
        /\ board' \in [Person -> Boards] /\ escrow' \in [Seat -> Boards]
    BY <1>1, <2>1, <2>5, SeatedAre, EmptyBoard DEF SeatsShape, Roles
  <2>7. SeatsShape'
    BY <1>1, <2>1, <2>6 DEF SeatsShape, topology
  <2>8. HoldersAlone' /\ TenureKept'
    BY <1>1, <2>1, <2>3, <2>4 DEF TenureSound, HoldersAlone, TenureKept, topology
  <2>9. BoardsKept'
    BY <1>1, <2>1, <2>2, <2>4 DEF TenureSound, BoardsKept, SeatsShape
  <2>10. TrimKept'
    BY <1>1, <2>1, <2>4 DEF TenureSound, TrimKept, topology, SeatsShape
  <2>11. \A u \in Seat : revision'[u] > revision[u] \/ revision'[u] = revision[u]
    BY <1>1, <2>1 DEF SeatsShape
  <2> QED
    BY <2>4, <2>7, <2>8, <2>9, <2>10, <2>11 DEF TenureSound
<1> QED
  BY <1>2, <1>3

\* A request lands in its tenure, or its seat and its board are remembered.
LEMMA LandStep ==
  ASSUME SeatsInv, NEW p \in Person, Land(p)
  PROVE  SeatsInv'
<1> SUFFICES ASSUME NEW r, r = request[p] PROVE SeatsInv'
  OBVIOUS
<1>1. CallIsSound(r)
  BY DEF SeatsInv, CallsSound, Land
<1>2. /\ request' = [request EXCEPT ![p] = NoRequest] /\ UNCHANGED <<topology, forms>>
      /\ stray' = stray \cup (IF Late(r) THEN {r.seat, r.key} ELSE {})
  BY DEF Land
<1>3. TenureSound'
      /\ \A u \in Seat : \/ revision'[u] > revision[u]
                         \/ /\ revision'[u] = revision[u]
                            /\ \A q \in Person : Primary(u, q) => Primary(u, q)'
  <2>1. CASE /\ r.op = "ready"
             /\ ready' = IF r.seat \in ready THEN ready \ {r.seat} ELSE ready \cup {r.seat}
             /\ UNCHANGED <<member, coInvite, auto, revision, invited, boards>>
    <3>1. TenureSound'
      BY <1>1, <1>2, <2>1, FlagLands
    <3> QED
      BY <2>1, <3>1 DEF Primary
  <2>2. CASE /\ r.op = "auto"
             /\ auto' = IF r.arg THEN auto \cup {r.seat} ELSE auto \ {r.seat}
             /\ UNCHANGED <<member, coInvite, ready, revision, invited, boards>>
    <3>1. auto' \subseteq auto \cup {r.seat}
      BY <2>2
    <3>2. TenureSound'
      BY <1>1, <1>2, <2>2, <3>1, FlagLands
    <3> QED
      BY <2>2, <3>2 DEF Primary
  <2>3. CASE r.op = "board" /\ BoardAdd(r.key, r.arg) /\ UNCHANGED <<tenure, invited>>
    <3>1. TenureSound'
      BY <1>1, <1>2, <2>3, EntryLands
    <3> QED
      BY <2>3, <3>1 DEF Primary, tenure
  <2>4. CASE /\ r.op = "invite" /\ InviteCoManager(r.seat, r.arg)
             /\ UNCHANGED <<member, ready, auto, revision, boards>>
    <3>1. TenureSound'
      BY <1>1, <1>2, <2>4, InviteLands
    <3> QED
      BY <2>4, <3>1 DEF Primary
  <2>5. CASE r.op = "claim" /\ Claim(p) /\ UNCHANGED invited
    <3>1. stray' = stray
      BY <1>2, <2>5 DEF Late
    <3> QED
      BY <1>2, <2>5, <3>1, ClaimLands
  <2> QED
    BY <2>1, <2>2, <2>3, <2>4, <2>5 DEF Land
<1>4. SeatsShape /\ CallsSound /\ revision' \in [Seat -> Nat]
  BY <1>3 DEF SeatsInv, TenureSound, SeatsShape
<1>5. request' = [q \in Person |-> request'[q]] /\ \A q \in Person : request'[q] \in {request[q], NoRequest}
  BY <1>2, <1>4 DEF CallsSound
<1>6. stray \subseteq stray'
  BY <1>2
<1>7. CallsSound'
  BY <1>3, <1>4, <1>5, <1>6, CallsStay
<1> QED
  BY <1>2, <1>3, <1>7, FormsStay DEF SeatsInv

\* A co-manager's order goes to the primary's board.
LEMMA JoinStep ==
  ASSUME SeatsInv, NEW p \in Person, Join(p)
  PROVE  SeatsInv'
<1> SUFFICES ASSUME NEW t, t = coInvite[p] PROVE SeatsInv'
  OBVIOUS
<1>1. TenureSound /\ SeatsShape
  BY DEF SeatsInv, TenureSound
<1>2. /\ t \in Seat /\ ~HasSeat(p)
      /\ Holding(t, "primary") # {} => \A q \in Holding(t, "primary") : Fits(Merge(board[q], board[p]))
      /\ member' = [member EXCEPT ![p] = Seated(t, "co")]
      /\ coInvite' = [coInvite EXCEPT ![p] = NoSeat]
      /\ Folds(t, p)
      /\ UNCHANGED <<ready, auto, revision, topology, request, forms, stray>>
  BY <1>1 DEF Join, MayBind, SeatsShape
<1>3. \A u \in Seat : ~Primary(u, p) /\ ~Co(u, p)
  BY <1>1, <1>2, HoldersAre
<1>4. \A u \in Seat, q \in Person : /\ Primary(u, q)' <=> Primary(u, q)
                                    /\ Co(u, q)' <=> Co(u, q) \/ (u = t /\ q = p)
                                    /\ Bound(u, q)' => Bound(u, q)
  <2>1. \A u \in Seat, q \in Person : /\ Primary(u, q)' <=> Primary(u, q)
                                      /\ Co(u, q)' <=> Co(u, q) \/ (u = t /\ q = p)
    BY <1>1, <1>2, <1>3, SeatedAre DEF SeatsShape, Primary, Co, Roles
  <2>2. \A u \in Seat, q \in Person : coInvite'[q] = u => coInvite[q] = u
    BY <1>1, <1>2, SeatAssumption DEF SeatsShape
  <2> QED
    BY <2>1, <2>2 DEF Bound
<1>5. t \in stray \/ \E q \in Person : Primary(t, q)
  BY <1>1, <1>2 DEF TenureSound, TenureKept, Bound
<1>6. \/ board' = board /\ \A q \in Person : ~Primary(t, q)
      \/ \E q \in Person : /\ Primary(t, q) /\ q # p
                           /\ board' = [board EXCEPT ![q] = Merge(board[q], board[p]), ![p] = <<>>]
                           /\ Merge(board[q], board[p]) \in Boards
  <2> DEFINE H == Holding(t, "primary")
             q == CHOOSE x \in H : TRUE
  <2>1. H \subseteq Person /\ \A x \in Person : x \in H <=> Primary(t, x)
    BY <1>1, <1>2, HoldersAre
  <2>2. board' = IF H = {} THEN board ELSE [board EXCEPT ![q] = Merge(board[q], board[p]), ![p] = <<>>]
    <3>1. board' = IF H = {} THEN board ELSE [board EXCEPT ![q] = Merge(@, board[p]), ![p] = <<>>]
      BY <1>2 DEF Folds
    <3> QED
      BY <3>1
  <2>3. H # {} => q \in H
    OBVIOUS
  <2>4. \A x \in H : Fits(Merge(board[x], board[p]))
    BY <1>2
  <2> HIDE DEF H, q
  <2>5. H # {} => Merge(board[q], board[p]) \in Boards
    BY <1>1, <2>1, <2>3, <2>4, MergeIs DEF SeatsShape, Boards
  <2> QED
    BY <1>2, <1>3, <2>1, <2>2, <2>3, <2>5
<1>7. board' \in [Person -> Boards]
  BY <1>1, <1>6, EmptyBoard DEF SeatsShape
<1>8. SeatsShape'
  BY <1>1, <1>2, <1>7, SeatedAre DEF SeatsShape, Folds, topology, Roles
<1>9. HoldersAlone' /\ TenureKept'
  BY <1>1, <1>2, <1>4 DEF TenureSound, HoldersAlone, TenureKept
<1>10. BoardsKept'
  <2>1. \A u \in Seat, q \in Person : Co(u, q) => board'[q] \in {board[q], <<>>}
    BY <1>1, <1>2, <1>6, SeatedAre, SMTT(60) DEF SeatsShape, Primary, Co
  <2>2. t \in stray \/ board'[p] = <<>>
    BY <1>1, <1>5, <1>6 DEF SeatsShape
  <2>3. escrow' = escrow /\ stray' = stray
    BY <1>2 DEF Folds
  <2> QED
    BY <1>1, <1>4, <2>1, <2>2, <2>3 DEF TenureSound, BoardsKept
<1>11. TrimKept'
  BY <1>1, <1>2, <1>4, <1>5 DEF TenureSound, TrimKept, topology, SeatsShape
<1>12. CallsSound'
  BY <1>1, <1>2, <1>4, CallsStay DEF SeatsInv, SeatsShape, CallsSound
<1> QED
  BY <1>2, <1>8, <1>9, <1>10, <1>11, <1>12, FormsStay DEF SeatsInv, TenureSound

\* What is put into escrow: everything the people of the seat had, and what was
\* there already.
LEMMA EscrowedIs ==
  ASSUME SeatsShape, HoldersAlone, NEW t \in Seat
  PROVE  /\ EscrowedBoard(t) \in Orders
         /\ \A p \in Members(t) : Range(board[p]) \subseteq Range(EscrowedBoard(t))
         /\ Range(escrow[t]) \subseteq Range(EscrowedBoard(t))
<1> DEFINE Of(role) == IF Holding(t, role) = {} THEN <<>>
                       ELSE board[CHOOSE p \in Holding(t, role) : TRUE]
<1>1. \A role \in Roles : Of(role) \in Orders
  <2> SUFFICES ASSUME NEW role \in Roles, NEW H, H = Holding(t, role), H # {}
               PROVE  board[CHOOSE p \in H : TRUE] \in Orders
    BY EmptyBoard DEF Boards
  <2>1. H \subseteq Person
    BY HoldersAre DEF Roles
  <2>2. (CHOOSE p \in H : TRUE) \in H
    OBVIOUS
  <2> QED
    BY <2>1, <2>2 DEF SeatsShape, Boards
<1>2. ASSUME NEW role \in Roles, NEW p \in Holding(t, role) PROVE Of(role) = board[p]
  <2>1. /\ Holding(t, role) \subseteq Person
        /\ \A x, y \in Holding(t, role) : x = y
    BY HoldersAre DEF HoldersAlone, Bound, Roles
  <2>2. (CHOOSE x \in Holding(t, role) : TRUE) \in Holding(t, role)
    BY <1>2
  <2>3. (CHOOSE x \in Holding(t, role) : TRUE) = p
    BY <1>2, <2>1, <2>2
  <2> QED
    BY <1>2, <2>3
<1>3. EscrowedBoard(t) = Merge(Merge(Of("primary"), Of("co")), escrow[t])
  BY DEF EscrowedBoard
<1> HIDE DEF Of
<1> DEFINE m == Merge(Of("primary"), Of("co"))
<1>4. m \in Orders /\ Range(m) = Range(Of("primary")) \cup Range(Of("co"))
  BY <1>1, MergeIs DEF Roles
<1>5. escrow[t] \in Orders
  BY DEF SeatsShape, Boards
<1> HIDE DEF m
<1>6. /\ Merge(m, escrow[t]) \in Orders
      /\ Range(Merge(m, escrow[t])) = Range(m) \cup Range(escrow[t])
  BY <1>4, <1>5, MergeIs
<1>7. \A p \in Members(t) : p \in Holding(t, "primary") \/ p \in Holding(t, "co")
  BY HoldersAre
<1>8. \A p \in Members(t) : Range(board[p]) = Range(Of("primary")) \/ Range(board[p]) = Range(Of("co"))
  BY <1>2, <1>7 DEF Roles
<1> QED
  BY <1>3, <1>4, <1>6, <1>8 DEF m

ReleasesSeat(t) ==
  /\ Claimed(t) /\ releaseForm[t].token = SeatReleaseToken(t) /\ Fits(EscrowedBoard(t))
  /\ member' = [p \in Person |-> IF p \in Members(t) THEN NoMember ELSE member[p]]
  /\ coInvite' = [p \in Person |-> IF coInvite[p] = t THEN NoSeat ELSE coInvite[p]]
  /\ ready' = ready \ {t} /\ auto' = auto \ {t}
  /\ revision' = [revision EXCEPT ![t] = @ + 1]
  /\ escrow' = [escrow EXCEPT ![t] = EscrowedBoard(t)]
  /\ board' = [p \in Person |-> IF p \in Members(t) THEN <<>> ELSE board[p]]
  /\ stray' = stray \ {t}

\* A release that is made leaves nothing on the seat.
LEMMA ReleaseEmpties ==
  ASSUME SeatsInv, NEW t \in Seat, ReleasesSeat(t), UNCHANGED <<topology, request>>
  PROVE  TenureSound' /\ CallsSound'
<1>1. TenureSound /\ SeatsShape /\ HoldersAlone
  BY DEF SeatsInv, TenureSound
<1>2. Members(t) \subseteq Person /\ \A p \in Person : p \in Members(t) <=> Primary(t, p) \/ Co(t, p)
  BY <1>1, HoldersAre
<1>3. \A u \in Seat, q \in Person : /\ Primary(u, q)' <=> Primary(u, q) /\ u # t
                                    /\ Co(u, q)' <=> Co(u, q) /\ u # t
                                    /\ Bound(u, q)' <=> Bound(u, q) /\ u # t
  <2>1. \A u \in Seat, q \in Person : /\ Primary(u, q)' <=> Primary(u, q) /\ u # t
                                      /\ Co(u, q)' <=> Co(u, q) /\ u # t
    <3>1. \A q \in Person : member'[q] = IF Primary(t, q) \/ Co(t, q) THEN NoMember ELSE member[q]
      BY <1>2 DEF ReleasesSeat
    <3>2. \A u \in Seat, q \in Person :
            u # t /\ (Primary(u, q) \/ Co(u, q)) => ~Primary(t, q) /\ ~Co(t, q)
      BY SeatedAre DEF Primary, Co, Roles
    <3> QED
      BY <3>1, <3>2, SeatedAre DEF Primary, Co, Roles
  <2>2. \A u \in Seat, q \in Person : coInvite'[q] = u <=> coInvite[q] = u /\ u # t
    BY SeatAssumption DEF ReleasesSeat
  <2> QED
    BY <2>1, <2>2 DEF Bound
<1>4. EscrowedBoard(t) \in Boards
  BY <1>1, EscrowedIs DEF ReleasesSeat, Boards
<1>5. SeatsShape'
  <2>1. member' \in [Person -> Seatings] /\ coInvite' \in [Person -> Seat \cup {NoSeat}]
    BY <1>1 DEF ReleasesSeat, SeatsShape, Seatings
  <2>2. board' \in [Person -> Boards] /\ escrow' \in [Seat -> Boards]
    BY <1>1, <1>4, EmptyBoard DEF ReleasesSeat, SeatsShape
  <2>3. revision' \in [Seat -> Nat] /\ ready' \subseteq Seat /\ auto' \subseteq Seat
    BY <1>1 DEF ReleasesSeat, SeatsShape
  <2> QED
    BY <1>1, <2>1, <2>2, <2>3 DEF SeatsShape, topology
<1>6. HoldersAlone' /\ TenureKept'
  <2>1. stray' = stray \ {t} /\ ready' = ready \ {t} /\ auto' = auto \ {t}
    BY DEF ReleasesSeat
  <2> QED
    BY <1>1, <1>3, <2>1 DEF TenureSound, HoldersAlone, TenureKept
<1>7. BoardsKept'
  <2>1. \A q \in Person : board'[q] \in {board[q], <<>>}
    BY DEF ReleasesSeat
  <2>2. \A u \in Seat : u # t => escrow'[u] = escrow[u]
    BY <1>1 DEF ReleasesSeat, SeatsShape
  <2>3. \A q \in Person : q \in stray => q \in stray'
    BY SeatAssumption DEF ReleasesSeat
  <2>4. \A u \in Seat : u # t /\ u \in stray => u \in stray'
    BY DEF ReleasesSeat
  <2> QED
    BY <1>1, <1>3, <2>1, <2>2, <2>3, <2>4 DEF TenureSound, BoardsKept
<1>8. TrimKept'
  <2>1. stray' = stray \ {t}
    BY DEF ReleasesSeat
  <2> QED
    BY <1>1, <1>3, <2>1 DEF TenureSound, TrimKept, topology, SeatsShape
<1>9. CallsSound'
  <2>1. \A u \in Seat : \/ revision'[u] > revision[u]
                        \/ /\ revision'[u] = revision[u] /\ (u \in stray => u \in stray')
                           /\ \A q \in Person : Primary(u, q) => Primary(u, q)'
    <3> SUFFICES ASSUME NEW u \in Seat, u # t
                 PROVE  /\ revision'[u] = revision[u] /\ (u \in stray => u \in stray')
                        /\ \A q \in Person : Primary(u, q) => Primary(u, q)'
      BY <1>1 DEF ReleasesSeat, SeatsShape
    <3> QED
      BY <1>1, <1>3 DEF ReleasesSeat, SeatsShape
  <2> QED
    BY <1>1, <1>5, <2>1, CallsStay DEF SeatsInv, SeatsShape, CallsSound
<1> QED
  BY <1>5, <1>6, <1>7, <1>8, <1>9 DEF TenureSound

\* A release is made, or refused.
LEMMA ReleaseStep ==
  ASSUME SeatsInv, NEW t \in Seat, Release(t)
  PROVE  SeatsInv'
<1>1. /\ releaseForm' = [releaseForm EXCEPT ![t] = NoForm]
      /\ ReleasesSeat(t) \/ UNCHANGED <<tenure, boards, stray>>
      /\ UNCHANGED <<topology, request, trimForm>>
  BY DEF Release, ReleasesSeat, ReleasedInvites, ReleasedFlags
<1>2. FormsSound'
  BY <1>1 DEF SeatsInv, FormsSound
<1>3. CASE ReleasesSeat(t)
  BY <1>1, <1>2, <1>3, ReleaseEmpties DEF SeatsInv
<1>4. CASE UNCHANGED <<tenure, boards, stray>>
  BY <1>1, <1>2, <1>4, TenureStays, CallsGoOn DEF SeatsInv, tenure, topology
<1> QED
  BY <1>1, <1>3, <1>4

\* At first nobody has a seat.
LEMMA SeatsStart == SeatsInit => SeatsInv
<1> SUFFICES ASSUME SeatsInit PROVE SeatsInv
  OBVIOUS
<1>1. \A x \in Ranked : <<x>> \in Boards
  <2> SUFFICES ASSUME NEW x \in Ranked PROVE <<x>> \in Boards
    OBVIOUS
  <2>1. <<x>> \in Seq(Ranked) /\ Len(<<x>>) = 1 /\ IsInjective(<<x>>)
    BY DEF IsInjective
  <2> QED
    BY <2>1, SeatAssumption DEF Boards, Orders, Fits
<1>2. board \in [Person -> Boards] /\ escrow \in [Seat -> Boards]
  BY <1>1, EmptyBoard DEF SeatsInit
<1>3. SeatsShape
  BY <1>2 DEF SeatsInit, SeatsShape, Seatings
<1>4. \A t \in Seat, p \in Person : ~Primary(t, p) /\ ~Co(t, p) /\ ~Bound(t, p)
  BY SeatedAre, SeatAssumption DEF SeatsInit, Primary, Co, Bound, Roles
<1>5. HoldersAlone /\ TenureKept /\ BoardsKept /\ TrimKept
  BY <1>4 DEF SeatsInit, HoldersAlone, TenureKept, BoardsKept, TrimKept
<1>6. CallsSound /\ FormsSound
  BY DEF SeatsInit, CallsSound, FormsSound
<1> QED
  BY <1>3, <1>5, <1>6 DEF SeatsInv, TenureSound

\* Every step keeps the invariant.
LEMMA SeatsSteps ==
  ASSUME SeatsInv, [SeatsNext]_seatVars
  PROVE  SeatsInv'
<1>1. CASE UNCHANGED seatVars
  BY <1>1, TenureStays, FormsStay, CallsGoOn DEF SeatsInv, seatVars, tenure, topology
<1>2. ASSUME NEW p \in Person, SignIn(p) \/ AddInvite(p) \/ RemoveInvite(p) PROVE SeatsInv'
  BY <1>2, SignInStep, QuietStep
<1>3. ASSUME NEW p \in Person, AskSome(p) \/ Land(p) \/ Join(p) PROVE SeatsInv'
  BY <1>3, AskStep, LandStep, JoinStep
<1>4. ASSUME NEW t \in Seat, Detach(t) \/ SetReady(t) \/ SetAutopickIfClaimed(t) PROVE SeatsInv'
  BY <1>4, DetachStep, FlagStep
<1>5. ASSUME NEW t \in Seat, RenderReleaseForm(t) \/ Release(t) PROVE SeatsInv'
  BY <1>5, RenderStep, ReleaseStep
<1>6. CASE RenderTrimForm
  BY <1>6, RenderStep
<1>7. CASE Trim \/ DrawOrder \/ GenerateSchedule
  BY <1>7, PlanStep
<1>8. CASE StartDraft
  BY <1>8, QuietStep
<1>9. CASE ResetSeats
  BY <1>9, ResetStep
<1> QED
  BY <1>1, <1>2, <1>3, <1>4, <1>5, <1>6, <1>7, <1>8, <1>9 DEF SeatsNext

\* People of whom no two are different are at most one.
LEMMA AtMostOne ==
  ASSUME NEW S, \A x, y \in S : x = y
  PROVE  Cardinality(S) <= 1
<1>1. CASE S = {}
  BY <1>1, FS_EmptySet
<1>2. CASE S # {}
  <2>1. PICK x \in S : S = {x}
    BY <1>2
  <2> QED
    BY <2>1, FS_Singleton
<1> QED
  BY <1>1, <1>2

\* The invariant has the properties of the seats in it.
LEMMA SeatsInvIsSound == SeatsInv => SeatsAreSound
<1> SUFFICES ASSUME SeatsInv PROVE SeatsAreSound
  OBVIOUS
<1>1. TenureSound /\ SeatsShape /\ HoldersAlone
  BY DEF SeatsInv, TenureSound
<1>2. SeatsTypeOK
  <2>1. \A p \in Person : member[p] # NoMember => member[p].team \in Seat \cup {NoSeat}
    BY <1>1 DEF SeatsShape, Seatings, Unseated, Seated
  <2>2. draftOrder \subseteq Seat /\ schedule \subseteq Seat
    BY <1>1 DEF TenureSound, TrimKept
  <2> QED
    BY <1>1, <2>1, <2>2 DEF SeatsTypeOK, SeatsShape, Boards, Orders
<1>3. OneOfEach
  <2> SUFFICES ASSUME NEW t \in Seat
               PROVE  /\ Cardinality(Holding(t, "primary")) <= 1
                      /\ Cardinality(Holding(t, "co") \cup Pending(t)) <= 1
    BY DEF OneOfEach
  <2>1. \A p, q \in Holding(t, "primary") : p = q
    BY <1>1, HoldersAre DEF HoldersAlone
  <2>2. \A p, q \in Holding(t, "co") \cup Pending(t) : p = q
    BY <1>1, HoldersAre DEF HoldersAlone, Bound
  <2> QED
    BY <2>1, <2>2, AtMostOne
<1>4. NothingOutlivesTenure
  BY <1>1, HoldersAre DEF TenureSound, TenureKept, NothingOutlivesTenure, Bound
<1>5. OneBoardPerSeat
  <2>1. ASSUME NEW p \in Person \ stray, HasSeat(p), member[p].role = "co", member[p].team \notin stray
        PROVE  board[p] = <<>>
    <3>1. PICK t \in Seat : Primary(t, p) \/ Co(t, p)
      BY <1>1, <2>1, HoldersAre
    <3>2. Co(t, p) /\ t \notin stray
      BY <2>1, <3>1, SeatedAre DEF Primary, Co, Roles
    <3> QED
      BY <1>1, <2>1, <3>2 DEF TenureSound, BoardsKept
  <2>2. ASSUME NEW t \in Seat, Holding(t, "primary") # {} PROVE escrow[t] = <<>>
    <3>1. \E p \in Person : Primary(t, p)
      BY <1>1, <2>2, HoldersAre
    <3> QED
      BY <1>1, <3>1 DEF TenureSound, BoardsKept
  <2> QED
    BY <2>1, <2>2 DEF OneBoardPerSeat
<1>6. TrimHolds
  <2>1. \A t \in trimmed \ stray : Members(t) = {}
    BY <1>1, HoldersAre DEF TenureSound, TrimKept, SeatsShape
  <2> QED
    BY <1>1, <2>1 DEF TenureSound, TrimKept, TrimHolds
<1> QED
  BY <1>2, <1>3, <1>4, <1>5, <1>6 DEF SeatsAreSound

-----------------------------------------------------------------------------
(* Forms and entries *)

\* A release's form names the tenure it ends, a trim's the seats it takes.
LEMMA FormsHit ==
  ASSUME SeatsInv, [SeatsNext]_seatVars
  PROVE  /\ \A t \in Seat :
              releaseForm[t] # NoForm /\ releaseForm'[t] = NoForm /\ revision'[t] # revision[t]
                => releaseForm[t].tenure = revision[t]
         /\ trimForm # NoForm /\ trimForm' = NoForm /\ trimmed' # trimmed
                => trimmed' = trimForm.seats
<1>1. FormsSound
  BY DEF SeatsInv
<1>2. \/ UNCHANGED releaseForm \/ UNCHANGED revision
      \/ \E u \in Seat : Release(u)
  <2>1. ASSUME NEW p \in Person, AskSome(p) \/ Land(p) \/ Join(p) PROVE UNCHANGED releaseForm
    BY <2>1 DEF AskSome, Ask, Land, Join, forms
  <2>2. ASSUME NEW p \in Person, SignIn(p) \/ AddInvite(p) \/ RemoveInvite(p) PROVE UNCHANGED releaseForm
    BY <2>2 DEF SignIn, AddInvite, RemoveInvite, forms
  <2>3. ASSUME NEW t \in Seat, Detach(t) \/ SetReady(t) \/ SetAutopickIfClaimed(t) PROVE UNCHANGED releaseForm
    BY <2>3 DEF Detach, SetReady, SetAutopickIfClaimed, forms
  <2>4. ASSUME NEW t \in Seat, RenderReleaseForm(t) PROVE UNCHANGED revision
    BY <2>4 DEF RenderReleaseForm, tenure
  <2>5. CASE RenderTrimForm \/ Trim \/ DrawOrder \/ GenerateSchedule \/ StartDraft \/ ResetSeats
    BY <2>5 DEF RenderTrimForm, Trim, DrawOrder, GenerateSchedule, StartDraft, ResetSeats, forms
  <2>6. CASE UNCHANGED seatVars
    BY <2>6 DEF seatVars, forms
  <2> QED
    BY <2>1, <2>2, <2>3, <2>4, <2>5, <2>6 DEF SeatsNext
<1>3. \/ UNCHANGED trimForm \/ UNCHANGED trimmed \/ Trim
  <2>1. ASSUME NEW p \in Person, AskSome(p) \/ Land(p) \/ Join(p) PROVE UNCHANGED trimForm
    BY <2>1 DEF AskSome, Ask, Land, Join, forms
  <2>2. ASSUME NEW p \in Person, SignIn(p) \/ AddInvite(p) \/ RemoveInvite(p) PROVE UNCHANGED trimForm
    BY <2>2 DEF SignIn, AddInvite, RemoveInvite, forms
  <2>3. ASSUME NEW t \in Seat, Detach(t) \/ SetReady(t) \/ SetAutopickIfClaimed(t) PROVE UNCHANGED trimForm
    BY <2>3 DEF Detach, SetReady, SetAutopickIfClaimed, forms
  <2>4. ASSUME NEW t \in Seat, RenderReleaseForm(t) \/ Release(t) PROVE UNCHANGED trimForm
    BY <2>4 DEF RenderReleaseForm, Release
  <2>5. CASE RenderTrimForm \/ DrawOrder \/ GenerateSchedule \/ StartDraft \/ ResetSeats
    BY <2>5 DEF RenderTrimForm, DrawOrder, GenerateSchedule, StartDraft, ResetSeats, forms, topology
  <2>6. CASE UNCHANGED seatVars
    BY <2>6 DEF seatVars, forms
  <2> QED
    BY <2>1, <2>2, <2>3, <2>4, <2>5, <2>6 DEF SeatsNext
<1>4. ASSUME NEW t \in Seat, releaseForm[t] # NoForm, releaseForm'[t] = NoForm, revision'[t] # revision[t]
      PROVE  releaseForm[t].tenure = revision[t]
  <2>1. PICK u \in Seat : Release(u)
    BY <1>2, <1>4
  <2>2. releaseForm' = [releaseForm EXCEPT ![u] = NoForm]
    BY <2>1 DEF Release
  <2>3. u = t
    BY <1>1, <1>4, <2>2 DEF FormsSound
  <2>4. releaseForm[t].token = SeatReleaseToken(t)
    BY <1>4, <2>1, <2>3 DEF Release, tenure
  <2> QED
    BY <1>1, <1>4, <2>4 DEF FormsSound, SeatReleaseToken
<1>5. ASSUME trimForm # NoForm, trimForm' = NoForm, trimmed' # trimmed
      PROVE  trimmed' = trimForm.seats
  <2>1. Trim
    BY <1>3, <1>5
  <2>2. trimForm.token = SeatTrimToken /\ trimmed' = Unclaimed
    BY <1>5, <2>1 DEF Trim
  <2> QED
    BY <1>1, <1>5, <2>2 DEF FormsSound, SeatTrimToken
<1> QED
  BY <1>4, <1>5

\* Where an entry is.
LEMMA EntriesAre ==
  \A x : x \in Entries <=> \/ \E p \in Person : x \in Range(board[p])
                           \/ \E t \in Seat : x \in Range(escrow[t])
BY DEF Entries

\* An entry stays, or moves.
LEMMA EntriesGoOn ==
  ASSUME SeatsInv, [SeatsNext]_seatVars, ~ResetSeats
  PROVE  Entries \subseteq Entries'
<1>1. TenureSound /\ SeatsShape /\ HoldersAlone
  BY DEF SeatsInv, TenureSound
<1>2. ASSUME UNCHANGED boards PROVE Entries \subseteq Entries'
  BY <1>2 DEF Entries, boards
<1>3. \A x : (\/ \E p \in Person : x \in Range(board'[p])
             \/ \E t \in Seat : x \in Range(escrow'[t])) => x \in Entries'
  BY DEF Entries
<1>4. ASSUME NEW p \in Person, Land(p) PROVE Entries \subseteq Entries'
  <2> SUFFICES ASSUME NEW r, r = request[p], ~UNCHANGED boards PROVE Entries \subseteq Entries'
    BY <1>2
  <2>1. CASE r.op = "board" /\ BoardAdd(r.key, r.arg)
    <3> DEFINE k == r.key
               b == board[k]
               c == IF Contains(b, r.arg) \/ Len(b) >= BoardLimit THEN b ELSE Append(b, r.arg)
    <3>1. k \in Person /\ board' = [board EXCEPT ![k] = c] /\ escrow' = escrow
      BY <1>4, <2>1 DEF SeatsInv, CallsSound, CallIsSound, Land, BoardAdd
    <3>2. b \in Seq(Ranked)
      BY <1>1, <3>1 DEF SeatsShape, Boards, Orders
    <3>3. Range(b) \subseteq Range(c)
      <4>1. Range(b) \subseteq Range(Append(b, r.arg))
        <5>1. \A i \in DOMAIN b : i \in DOMAIN Append(b, r.arg) /\ Append(b, r.arg)[i] = b[i]
          BY <3>2
        <5> QED
          BY <5>1 DEF Range
      <4> QED
        BY <4>1
    <3> HIDE DEF k, b, c
    <3>4. \A q \in Person : Range(board[q]) \subseteq Range(board'[q])
      BY <1>1, <3>1, <3>3 DEF SeatsShape, b
    <3> QED
      BY <1>3, <3>1, <3>4, EntriesAre
  <2>2. CASE Claim(p)
    <3>1. PICK t \in Seat :
             /\ board' = [board EXCEPT ![p] = IF escrow[t] = <<>> THEN @ ELSE Merge(escrow[t], @)]
             /\ escrow' = [escrow EXCEPT ![t] = <<>>]
      BY <1>1, <2>2, ClaimIs
    <3>2. board[p] \in Orders /\ escrow[t] \in Orders
      BY <1>1 DEF SeatsShape, Boards
    <3>3. Range(board[p]) \cup Range(escrow[t]) \subseteq Range(board'[p])
      BY <1>1, <3>1, <3>2, MergeIs, EmptyBoard DEF SeatsShape
    <3>4. /\ \A q \in Person : q # p => board'[q] = board[q]
          /\ \A u \in Seat : u # t => escrow'[u] = escrow[u]
      BY <1>1, <3>1 DEF SeatsShape
    <3> QED
      BY <1>3, <3>3, <3>4, EntriesAre
  <2> QED
    BY <1>4, <2>1, <2>2 DEF Land
<1>5. ASSUME NEW p \in Person, Join(p) PROVE Entries \subseteq Entries'
  <2> DEFINE t == coInvite[p]
             H == Holding(t, "primary")
             q == CHOOSE x \in H : TRUE
  <2>1. t \in Seat /\ ~HasSeat(p)
    BY <1>1, <1>5 DEF Join, MayBind, SeatsShape
  <2>2. H \subseteq Person /\ p \notin H
    BY <1>1, <2>1, HoldersAre
  <2>3. CASE H = {}
    BY <1>2, <1>5, <2>3 DEF Join, Folds, boards
  <2>4. CASE H # {}
    <3>1. escrow' = escrow /\ board' = [board EXCEPT ![q] = Merge(board[q], board[p]), ![p] = <<>>]
      BY <1>5, <2>4 DEF Join, Folds
    <3>2. q \in Person /\ q # p
      BY <2>2, <2>4
    <3> HIDE DEF q, H, t
    <3>3. board[q] \in Orders /\ board[p] \in Orders
      BY <1>1, <3>2 DEF SeatsShape, Boards
    <3>4. Range(board'[q]) = Range(board[q]) \cup Range(board[p])
      BY <1>1, <3>1, <3>2, <3>3, MergeIs DEF SeatsShape
    <3>5. \A x \in Person : x # q /\ x # p => board'[x] = board[x]
      BY <1>1, <3>1 DEF SeatsShape
    <3> QED
      BY <1>3, <3>1, <3>2, <3>4, <3>5, EntriesAre
  <2> QED
    BY <2>3, <2>4
<1>6. ASSUME NEW t \in Seat, Release(t) PROVE Entries \subseteq Entries'
  <2> SUFFICES ASSUME ReleasesSeat(t) PROVE Entries \subseteq Entries'
    BY <1>2, <1>6 DEF Release, ReleasesSeat, ReleasedInvites, ReleasedFlags
  <2>1. /\ \A p \in Members(t) : Range(board[p]) \subseteq Range(EscrowedBoard(t))
        /\ Range(escrow[t]) \subseteq Range(EscrowedBoard(t))
    BY <1>1, EscrowedIs
  <2>2. escrow'[t] = EscrowedBoard(t) /\ \A u \in Seat : u # t => escrow'[u] = escrow[u]
    BY <1>1 DEF ReleasesSeat, SeatsShape
  <2>3. \A p \in Person : p \notin Members(t) => board'[p] = board[p]
    BY DEF ReleasesSeat
  <2> QED
    BY <1>3, <2>1, <2>2, <2>3, EntriesAre
<1>7. ASSUME NEW p \in Person, SignIn(p) \/ AddInvite(p) \/ RemoveInvite(p) \/ AskSome(p) PROVE UNCHANGED boards
  BY <1>7 DEF SignIn, AddInvite, RemoveInvite, AskSome, Ask
<1>8. ASSUME NEW t \in Seat, Detach(t) \/ SetReady(t) \/ SetAutopickIfClaimed(t) \/ RenderReleaseForm(t)
      PROVE  UNCHANGED boards
  BY <1>8 DEF Detach, SetReady, SetAutopickIfClaimed, RenderReleaseForm
<1>9. CASE RenderTrimForm \/ Trim \/ DrawOrder \/ GenerateSchedule \/ StartDraft \/ UNCHANGED seatVars
  BY <1>2, <1>9 DEF RenderTrimForm, Trim, DrawOrder, GenerateSchedule, StartDraft, seatVars
<1> QED
  BY <1>2, <1>4, <1>5, <1>6, <1>7, <1>8, <1>9 DEF SeatsNext

LEMMA SeatsAlways == SeatsSpec => []SeatsInv
BY SeatsStart, SeatsSteps, PTL DEF SeatsSpec

\* However sign-ins, claims, invitations, joins and releases interleave with
\* requests that landed late, a seat has one primary and one co-manager, nothing
\* on it outlives its tenure, it has one board, and a trim holds
\* (ClaimFantasySeatTransaction, BindCoManager, releaseSeat).
THEOREM SeatsStaySound == SeatsSpec => []SeatsAreSound
BY SeatsAlways, SeatsInvIsSound, PTL

\* A confirmed form ends the tenure and trims the seats its page showed, and no
\* entry of a board is lost but by a reset (ReleaseSeatConfirmed,
\* TrimUnclaimedSeatsConfirmed, mergeUniqueBoardOrders).
THEOREM FormsStayHonest == SeatsSpec => ConfirmedMeansShown
<1> DEFINE Hit == /\ \A t \in Seat :
                       releaseForm[t] # NoForm /\ releaseForm'[t] = NoForm /\ revision'[t] # revision[t]
                         => releaseForm[t].tenure = revision[t]
                  /\ trimForm # NoForm /\ trimForm' = NoForm /\ trimmed' # trimmed
                         => trimmed' = trimForm.seats
           Kept == Entries \subseteq Entries' \/ ResetSeats
<1>1. SeatsInv /\ [SeatsNext]_seatVars => [Hit]_seatVars
  BY FormsHit
<1>2. SeatsInv /\ [SeatsNext]_seatVars => [Kept]_seatVars
  BY EntriesGoOn
<1> QED
  BY <1>1, <1>2, SeatsAlways, PTL DEF SeatsSpec, ConfirmedMeansShown, FormsHitWhatTheyShowed, EntriesSurvive
=============================================================================
