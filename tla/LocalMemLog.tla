---------------------------- MODULE LocalMemLog ----------------------------
(***************************************************************************)
(* The in-memory log of components/log/local_mem_log.cc: one appender and  *)
(* any number of readers, none of which waits for another except while the *)
(* array of entries is moved.                                              *)
(*                                                                         *)
(* An entry is its version; 0 is what uninitialised or freed memory holds. *)
(* realloc always moves the array: entries_ is dangling from then until it *)
(* is assigned.                                                            *)
(***************************************************************************)
EXTENDS Naturals, Sequences, FiniteSets

CONSTANTS
  Reader,
  InitialSize,   \* allocated_ at first, 2^20 in the code
  FirstVersions, \* versions the first entry may have
  MaxVersion     \* bound on the versions appended

Appender == "appender"

ASSUME LocalMemLogAssumption ==
  /\ InitialSize \in Nat \ {0}
  /\ MaxVersion \in Nat
  /\ FirstVersions \subseteq 1 .. MaxVersion
  /\ Appender \notin Reader

VARIABLES
  array,      \* the newest allocation
  allocation, \* how often the array was moved
  entries,    \* entries_: the allocation it points to
  size,       \* size_
  maxVersion, \* max_version_
  log,        \* the entries appended so far
  writing,    \* the version being appended
  place,         \* the appender, and every reader: where it is in a call
  exclusive,  \* the appender holds mutex_
  shared,     \* the readers that hold mutex_
  started, offset, entry,  \* members of each reader
  target, snapshot,        \* a reader's Seek: target, and its local variables
  low, high                \* size, min and max

appendVars == <<array, allocation, entries, size, maxVersion, log, writing, exclusive>>
readVars   == <<shared, started, offset, entry, target, snapshot, low, high>>
logVars == <<appendVars, readVars, place>>

LogTypeOK ==
  /\ array \in Seq(0 .. MaxVersion)
  /\ allocation \in Nat /\ entries \in {allocation - 1, allocation}
  /\ log \in Seq(1 .. MaxVersion)
  /\ size = Len(log) /\ size <= Len(array)
  /\ maxVersion \in 0 .. MaxVersion /\ writing \in 0 .. MaxVersion
  /\ place[Appender] \in {"idle", "full", "moved", "room", "written", "counted"}
  /\ \A r \in Reader :
       place[r] \in {"idle", "next", "nextLocked", "seek", "search", "searchLocked",
                 "halving", "failed"}
  /\ exclusive \in BOOLEAN /\ shared \subseteq Reader
  /\ exclusive => shared = {}
  /\ started \in [Reader -> BOOLEAN] /\ offset \in [Reader -> Nat]
  /\ entry \in [Reader -> 0 .. MaxVersion]
  /\ target \in [Reader -> 0 .. MaxVersion] /\ snapshot \in [Reader -> Nat]
  /\ low \in [Reader -> Nat] /\ high \in [Reader -> Nat]

LogInit ==
  /\ array = [i \in 1 .. InitialSize |-> 0]
  /\ allocation = 1 /\ entries = 1 /\ size = 0 /\ maxVersion = 0
  /\ log = << >> /\ writing = 0
  /\ place = [p \in Reader \cup {Appender} |-> "idle"]
  /\ exclusive = FALSE /\ shared = {}
  /\ started = [r \in Reader |-> FALSE]
  /\ offset = [r \in Reader |-> 0] /\ entry = [r \in Reader |-> 0]
  /\ target = [r \in Reader |-> 0] /\ snapshot = [r \in Reader |-> 0]
  /\ low = [r \in Reader |-> 0] /\ high = [r \in Reader |-> 0]

Advance(p, from, to) == place[p] = from /\ place' = [place EXCEPT ![p] = to]

----------------------------------------------------------------------------
(***************************************************************************)
(* Append.                                                                 *)
(***************************************************************************)
\* A caller keeps the rule that versions increase.
BeginAppend(v) ==
  /\ v > maxVersion
  /\ size = 0 => v \in FirstVersions
  /\ Advance(Appender, "idle", IF size >= Len(array) THEN "full" ELSE "room")
  /\ writing' = v
  /\ UNCHANGED <<array, allocation, entries, size, maxVersion, log, exclusive, readVars>>

Resize ==
  /\ Advance(Appender, "full", "moved")
  /\ shared = {}
  /\ exclusive' = TRUE
  /\ array' = array \o [i \in 1 .. Len(array) |-> 0]
  /\ allocation' = allocation + 1
  /\ UNCHANGED <<entries, size, maxVersion, log, writing, readVars>>

AssignEntries ==
  /\ Advance(Appender, "moved", "room")
  /\ entries' = allocation
  /\ exclusive' = FALSE
  /\ UNCHANGED <<array, allocation, size, maxVersion, log, writing, readVars>>

WriteEntry ==
  /\ Advance(Appender, "room", "written")
  /\ array' = [array EXCEPT ![size + 1] = writing]
  /\ UNCHANGED <<allocation, entries, size, maxVersion, log, writing, exclusive, readVars>>

CountEntry ==
  /\ Advance(Appender, "written", "counted")
  /\ size' = size + 1
  /\ log' = Append(log, writing)
  /\ UNCHANGED <<array, allocation, entries, maxVersion, writing, exclusive, readVars>>

EndAppend ==
  /\ Advance(Appender, "counted", "idle")
  /\ maxVersion' = writing
  /\ UNCHANGED <<array, allocation, entries, size, log, writing, exclusive, readVars>>

----------------------------------------------------------------------------
(***************************************************************************)
(* Readers.  A call that returns false leaves the reader as it is.         *)
(***************************************************************************)
\* What the reader finds at entries_[i].
At(i) == IF entries = allocation THEN array[i + 1] ELSE 0

\* (Mutant of AtEnd: the end is one entry later.)
AtEndLate(r) == size = 0 \/ (started[r] /\ offset[r] = size)

AtEnd(r) == size = 0 \/ (started[r] /\ offset[r] = size - 1)

\* Next: decide and move on, without the lock.
BeginNext(r) ==
  /\ ~ AtEnd(r)
  /\ Advance(r, "idle", "next")
  /\ started' = [started EXCEPT ![r] = TRUE]
  /\ offset' = [offset EXCEPT ![r] = IF started[r] THEN @ + 1 ELSE 0]
  /\ target' = [target EXCEPT ![r] = 0]
  /\ UNCHANGED <<appendVars, shared, entry, snapshot, low, high>>

\* (Mutant of LockArray: the lock is not taken.)
LockNothing(r) ==
  /\ Advance(r, "next", "nextLocked") \/ Advance(r, "search", "searchLocked")
  /\ UNCHANGED <<appendVars, readVars>>

\* The reader lock.
LockArray(r) ==
  /\ ~ exclusive
  /\ Advance(r, "next", "nextLocked") \/ Advance(r, "search", "searchLocked")
  /\ shared' = shared \cup {r}
  /\ UNCHANGED <<appendVars, started, offset, entry, target, snapshot, low, high>>

ReadNext(r) ==
  /\ Advance(r, "nextLocked", "idle")
  /\ entry' = [entry EXCEPT ![r] = At(offset[r])]
  /\ shared' = shared \ {r}
  /\ UNCHANGED <<appendVars, started, offset, target, snapshot, low, high>>

\* Seek: LastVersion is read first, the size later.
BeginSeek(r, t) ==
  /\ t <= maxVersion
  /\ Advance(r, "idle", "seek")
  /\ target' = [target EXCEPT ![r] = t]
  /\ UNCHANGED <<appendVars, shared, started, offset, entry, snapshot, low, high>>

SnapshotSize(r) ==
  /\ Advance(r, "seek", "search")
  /\ snapshot' = [snapshot EXCEPT ![r] = size]
  /\ started' = [started EXCEPT ![r] = TRUE]
  /\ UNCHANGED <<appendVars, shared, offset, entry, target, low, high>>

\* The call is over, and with it its local variables.
Leave(r) ==
  /\ shared' = shared \ {r}
  /\ snapshot' = [snapshot EXCEPT ![r] = 0]
  /\ low' = [low EXCEPT ![r] = 0]
  /\ high' = [high EXCEPT ![r] = 0]

Found(r, i) ==
  /\ place' = [place EXCEPT ![r] = "idle"]
  /\ offset' = [offset EXCEPT ![r] = i]
  /\ entry' = [entry EXCEPT ![r] = At(i)]
  /\ Leave(r)

\* The ends first: the invariant of the loop needs strict inequalities.
BeginSearch(r) ==
  LET last == snapshot[r] - 1 IN
  /\ place[r] = "searchLocked"
  /\ UNCHANGED <<appendVars, started, target>>
  /\ IF At(0) = target[r] THEN Found(r, 0)
     ELSE IF At(last) = target[r] THEN Found(r, last)
     ELSE /\ place' = [place EXCEPT ![r] = "halving"]
          /\ low' = [low EXCEPT ![r] = 0]
          /\ high' = [high EXCEPT ![r] = last]
          /\ UNCHANGED <<shared, offset, entry, snapshot>>

\* (Mutant of Apart: the loop stops one step too early.)
FarApart(r) == high[r] > low[r] + 2

Apart(r) == high[r] > low[r] + 1

\* One turn of the loop.
Halve(r) ==
  LET mid == (low[r] + high[r]) \div 2 IN
  /\ place[r] = "halving"
  /\ Apart(r)
  /\ UNCHANGED <<appendVars, started, target>>
  /\ IF At(mid) = target[r] THEN Found(r, mid)
     ELSE /\ IF target[r] < At(mid)
             THEN high' = [high EXCEPT ![r] = mid] /\ UNCHANGED low
             ELSE low' = [low EXCEPT ![r] = mid] /\ UNCHANGED high
          /\ UNCHANGED <<place, shared, offset, entry, snapshot>>

\* The CHECKs after the loop.
EndSearch(r) ==
  /\ place[r] = "halving"
  /\ ~ Apart(r)
  /\ UNCHANGED <<appendVars, started, target>>
  /\ IF At(low[r]) < target[r] /\ target[r] < At(high[r])
     THEN Found(r, high[r])
     ELSE /\ place' = [place EXCEPT ![r] = "failed"]
          /\ Leave(r)
          /\ UNCHANGED <<offset, entry>>

Reset(r) ==
  /\ Advance(r, "idle", "idle")
  /\ started' = [started EXCEPT ![r] = FALSE]
  /\ target' = [target EXCEPT ![r] = 0]
  /\ UNCHANGED <<appendVars, shared, offset, entry, snapshot, low, high>>

----------------------------------------------------------------------------
AppendStep ==
  \/ \E v \in 1 .. MaxVersion : BeginAppend(v)
  \/ Resize \/ AssignEntries \/ WriteEntry \/ CountEntry \/ EndAppend

ReadStep(r) ==
  \/ BeginNext(r) \/ LockArray(r) \/ ReadNext(r)
  \/ \E t \in 1 .. MaxVersion : BeginSeek(r, t)
  \/ SnapshotSize(r) \/ BeginSearch(r) \/ Halve(r) \/ EndSearch(r) \/ Reset(r)

LogNext == AppendStep \/ \E r \in Reader : ReadStep(r)

LogSpec == LogInit /\ [][LogNext]_logVars

----------------------------------------------------------------------------
(***************************************************************************)
(* Properties.                                                             *)
(***************************************************************************)
\* The entry a reader exposes is the one appended at its offset, although it
\* is copied while the appender writes and moves the array.
ReadersExposeTheLog ==
  \A r \in Reader :
    place[r] = "idle" /\ started[r] =>
      offset[r] < Len(log) /\ entry[r] = log[offset[r] + 1]

\* "positions the LogReader at the first entry whose version is greater than
\* or equal to target": between the entries before it, all below the target,
\* and those appended meanwhile, all above.
SeekFindsFirst ==
  \A r \in Reader :
    place[r] = "idle" /\ target[r] # 0 =>
      /\ entry[r] >= target[r]
      /\ \A i \in 1 .. offset[r] : log[i] < target[r]

\* No CHECK fails in a reader: not in the binary search, and not on the way to
\* an entry it decided to read before it took the lock.
ReadersPassChecks ==
  \A r \in Reader :
    /\ place[r] # "failed"
    /\ place[r] \in {"next", "nextLocked"} => offset[r] < size

\* The variables have their types, and the readers pass their checks.
LogIsConsistent == LogTypeOK /\ ReadersPassChecks
=============================================================================
