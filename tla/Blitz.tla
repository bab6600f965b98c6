--------------------------------- MODULE Blitz ---------------------------------
(***************************************************************************)
(* The Preseason Blitz: one member's entry for a slate, which the member's *)
(* tabs read, check and replace as a whole, while games kick off and end.  *)
(***************************************************************************)
EXTENDS Naturals, FiniteSets, SequencesExt

CONSTANTS
  Pool,        \* eligible players of the pool
  Club,        \* [Pool -> the game of their club]
  KickedAt,    \* [game -> hour of its kickoff]
  Tab,         \* requests in flight
  FivePlayers, \* players an entry holds
  PerClub,     \* players of one club it holds
  NoAsk,       \* a free tab
  LastHour     \* bound on time

Games == {Club[c] : c \in Pool}

ASSUME BlitzNumbers ==
  {FivePlayers, PerClub, LastHour} \subseteq Nat /\ LastHour >= 1 /\ KickedAt \in [Games -> Nat]

VARIABLES
  hour,
  finals,  \* games that are final
  entry,   \* BlitzEntries[owner][slate].Players
  tab,     \* what a request is at
  inTime   \* history: players some request to add read before their kickoff

blitzVars == <<hour, finals, entry, tab, inTime>>

In(c, e) == c \in ToSet(e)
KickedOff(c, t) == KickedAt[Club[c]] <= t
SlateClosed == finals = Games

\* Mutant: the kickoff is not looked at
AnyHour(c, t) == TRUE

NotLocked(c, t) == ~KickedOff(c, t)

\* The clock is read first, then the slate.
Ask(t, kind, c) ==
  /\ tab[t] = NoAsk /\ ~SlateClosed
  /\ tab' = [tab EXCEPT ![t] = [pc |-> "check", kind |-> kind, who |-> c, at |-> hour]]
  /\ inTime' = IF kind = "add" /\ ~KickedOff(c, hour) THEN inTime \cup {c} ELSE inTime
  /\ UNCHANGED <<hour, finals, entry>>

OfClub(c, e) == {d \in ToSet(e) : Club[d] = Club[c]}

\* Mutant: an entry that is full takes one more
RoomForOne(c) == ~In(c, entry)

RoomFor(c) == ~In(c, entry) /\ Len(entry) < FivePlayers /\ Cardinality(OfClub(c, entry)) < PerClub

\* An entry without a player of it: nobody is in an entry twice.
Without(c, e) == RemoveAt(e, CHOOSE i \in 1..Len(e) : e[i] = c)

\* BlitzAdd and BlitzRemove, on one snapshot of the Store
Check(t) ==
  /\ tab[t] # NoAsk /\ tab[t].pc = "check"
  /\ LET c == tab[t].who
         adds == tab[t].kind = "add" /\ RoomFor(c)
         drops == tab[t].kind = "drop" /\ In(c, entry)
     IN  tab' = [tab EXCEPT ![t] =
           IF ~(adds \/ drops) \/ ~NotLocked(c, tab[t].at) THEN NoAsk
           ELSE [pc |-> "set", kind |-> tab[t].kind, who |-> c, at |-> tab[t].at, read |-> entry,
                 players |-> IF adds THEN Append(entry, c) ELSE Without(c, entry)]]
  /\ UNCHANGED <<hour, finals, entry, inTime>>

BlitzSetEntry(t) ==
  /\ tab[t] # NoAsk /\ tab[t].pc = "set"
  /\ entry' = tab[t].players /\ tab' = [tab EXCEPT ![t] = NoAsk]
  /\ UNCHANGED <<hour, finals, inTime>>

GameEnds(g) ==
  /\ KickedAt[g] < hour /\ g \notin finals /\ finals' = finals \cup {g}
  /\ UNCHANGED <<hour, entry, tab, inTime>>

\* A request is answered before the clock moves twice.
HourPasses ==
  /\ hour < LastHour /\ hour' = hour + 1
  /\ \A t \in Tab : tab[t] # NoAsk => tab[t].at = hour
  /\ UNCHANGED <<finals, entry, tab, inTime>>

BlitzInit == hour = 1 /\ finals = {} /\ entry = <<>> /\ tab = [t \in Tab |-> NoAsk] /\ inTime = {}

BlitzNext ==
  \/ HourPasses \/ \E g \in Games : GameEnds(g)
  \/ \E t \in Tab :
       \/ Check(t) \/ BlitzSetEntry(t)
       \/ \E c \in Pool, kind \in {"add", "drop"} : Ask(t, kind, c)

BlitzSpec == BlitzInit /\ [][BlitzNext]_blitzVars

-----------------------------------------------------------------------------
(* Properties *)

\* Type invariant of the entry.
BlitzTypeOK == hour \in 1..LastHour /\ finals \subseteq Games /\ entry \in Seq(Pool) /\ inTime \subseteq Pool

\* The entry keeps its limits and holds nobody twice, although each tab's write
\* replaces what the other has written in between (BlitzSetEntry: "performs no
\* validation").
EntryFits ==
  /\ Len(entry) <= FivePlayers /\ Len(entry) = Cardinality(ToSet(entry))
  /\ \A c \in Pool : Cardinality(OfClub(c, entry)) <= PerClub

\* Nobody is in the entry whom no request asked for before the kickoff, also
\* after a write that brings back what another tab had removed (blitzGameLocked).
EntryIsEarly == ToSet(entry) \subseteq inTime

BlitzIsSound == BlitzTypeOK /\ EntryFits /\ EntryIsEarly

\* A player whose game has begun enters or leaves only by a request that read
\* the clock before the kickoff, or by one of two overlapping tabs ("two-tab
\* last-write-wins is accepted").
LockedStay ==
  [][\A c \in Pool : KickedOff(c, hour) /\ In(c, entry) # In(c, entry') =>
       \E t \in Tab : BlitzSetEntry(t) /\ (~KickedOff(c, tab[t].at) \/ tab[t].read # entry)]_blitzVars
=============================================================================
