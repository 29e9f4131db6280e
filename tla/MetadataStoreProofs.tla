------------------------- MODULE MetadataStoreProofs -------------------------
(***************************************************************************)
(* MetadataStore, for any paths, actions and shards: what it keeps true    *)
(* for all clients, what it keeps true for careful ones, and that for      *)
(* these it implements FileTree.                                           *)
(***************************************************************************)
EXTENDS MetadataStore, FiniteSetTheorems, SequenceTheorems, WellFoundedInduction, TLAPS

----------------------------------------------------------------------------
(***************************************************************************)
(* Paths, and the lists of names in directories.                           *)
(***************************************************************************)
\* A path that is not the root is its directory and its last name.
LEMMA SplitPath ==
  ASSUME NEW p \in Path \ {Root}
  PROVE  /\ ParentDir(p) \in Path /\ FileName(p) \in STRING
         /\ Len(ParentDir(p)) = Len(p) - 1
         /\ Append(ParentDir(p), FileName(p)) = p
<1>1. p \in Seq(STRING) /\ Len(p) \in Nat /\ Len(p) >= 1
  BY DEF Path, Root
<1>2. FileName(p) \in STRING
  BY <1>1 DEF FileName, Last
<1>3. /\ ParentDir(p) \in Seq(STRING) /\ Len(ParentDir(p)) = Len(p) - 1
      /\ \A i \in 1 .. Len(p) - 1 : ParentDir(p)[i] = p[i]
  <2> DEFINE m == Len(p) - 1
  <2>1. m \in Nat /\ m <= Len(p) /\ ParentDir(p) = SubSeq(p, 1, m)
    BY <1>1 DEF ParentDir, Front
  <2> HIDE DEF m
  <2>2. SubSeq(p, 1, m) \in Seq(STRING) /\ Len(SubSeq(p, 1, m)) = m
    BY <1>1, <2>1
  <2>3. \A i \in 1 .. m : SubSeq(p, 1, m)[i] = p[i]
    BY <1>1, <2>1
  <2>4. QED BY <2>1, <2>2, <2>3 DEF m
<1>4. Append(ParentDir(p), FileName(p)) = p
  <2> DEFINE q == Append(ParentDir(p), FileName(p))
  <2>1. q \in Seq(STRING) /\ Len(q) = Len(p)
    BY <1>1, <1>2, <1>3
  <2>2. ASSUME NEW i \in 1 .. Len(p) PROVE q[i] = p[i]
    <3>1. CASE i = Len(p)
      BY <1>1, <1>2, <1>3, <3>1 DEF FileName, Last
    <3>2. CASE i # Len(p)
      BY <1>1, <1>2, <1>3, <3>2
    <3>3. QED BY <3>1, <3>2
  <2> HIDE DEF q
  <2>3. q = p
    BY <1>1, <2>1, <2>2, SeqEqual
  <2>4. QED BY <2>3 DEF q
<1>5. QED BY <1>2, <1>3, <1>4 DEF Path

\* A name in a directory makes a path, which has them as its parts.
LEMMA JoinPath ==
  ASSUME NEW p \in Path, NEW name \in STRING
  PROVE  /\ Append(p, name) \in Path \ {Root}
         /\ ParentDir(Append(p, name)) = p
         /\ FileName(Append(p, name)) = name
<1> DEFINE q == Append(p, name)
<1>1. /\ p \in Seq(STRING) /\ q \in Seq(STRING) /\ Len(q) = Len(p) + 1 /\ Len(p) \in Nat
      /\ q[Len(q)] = name /\ \A i \in 1 .. Len(p) : q[i] = p[i]
  BY DEF Path
<1> HIDE DEF q
<1>2. q # << >>
  BY <1>1
<1>3. FileName(q) = name
  BY <1>1 DEF FileName, Last
<1>4. ParentDir(q) \in Seq(STRING) /\ Len(ParentDir(q)) = Len(p) /\ \A i \in 1 .. Len(p) : ParentDir(q)[i] = p[i]
  BY <1>1 DEF ParentDir, Front
<1>5. ParentDir(q) = p
  BY <1>1, <1>4, SeqEqual
<1>6. QED BY <1>1, <1>2, <1>3, <1>5 DEF q, Path, Root

\* The root is a path.
LEMMA RootIsPath == Root \in Path
BY DEF Root, Path

LEMMA ListsNames ==
  ASSUME NEW entry, entry.contents \in Seq(STRING), NEW name
  PROVE  Lists(entry, name) <=> name \in ToSet(entry.contents)
BY DEF Lists, Contains, ToSet

\* Appending a new name to a list of names.
LEMMA AppendNames ==
  ASSUME NEW s \in Seq(STRING), NEW name \in STRING
  PROVE  /\ Append(s, name) \in Seq(STRING)
         /\ ToSet(Append(s, name)) = ToSet(s) \cup {name}
         /\ IsInjective(s) /\ name \notin ToSet(s) => IsInjective(Append(s, name))
<1> DEFINE t == Append(s, name)
<1>1. /\ t \in Seq(STRING) /\ Len(t) = Len(s) + 1 /\ Len(s) \in Nat
      /\ t[Len(s) + 1] = name /\ \A i \in 1 .. Len(s) : t[i] = s[i]
  OBVIOUS
<1> HIDE DEF t
<1>2. DOMAIN s = 1 .. Len(s) /\ DOMAIN t = 1 .. (Len(s) + 1)
  BY <1>1
<1>3. \A i \in DOMAIN t : i = Len(s) + 1 \/ i \in DOMAIN s
  BY <1>1, <1>2
<1>4. \A i \in DOMAIN s : i \in DOMAIN t /\ t[i] = s[i]
  BY <1>1, <1>2
<1>4a. Len(s) + 1 \in DOMAIN t
  BY <1>1, <1>2
<1>5. ToSet(t) = ToSet(s) \cup {name}
  BY <1>1, <1>3, <1>4, <1>4a DEF ToSet
<1>6. ASSUME IsInjective(s), name \notin ToSet(s) PROVE IsInjective(t)
  BY <1>1, <1>3, <1>4, <1>6 DEF IsInjective, ToSet
<1>7. QED BY <1>1, <1>5, <1>6 DEF t

\* Induction over naturals is done with a least counterexample.
LEMMA NatSetHasLeast ==
  ASSUME NEW S \in SUBSET Nat, S # {}
  PROVE  \E v \in S : \A w \in S : v <= w
<1> DEFINE R == OpToRel(<, Nat)
<1>1. IsWellFoundedOn(R, Nat)
  BY NatLessThanWellFounded
<1>2. \A x, y \in Nat : <<y, x>> \in R <=> y < x
  BY DEF OpToRel
<1> HIDE DEF R
<1>3. PICK x \in S : \A y \in S : ~ (<<y, x>> \in R)
  BY <1>1, WFMin
<1>4. ASSUME NEW w \in S PROVE x <= w
  <2>1. x \in Nat /\ w \in Nat
    OBVIOUS
  <2>2. ~ (w < x)
    BY <1>2, <1>3, <2>1
  <2>3. QED BY <2>1, <2>2
<1>5. QED BY <1>4

\* The place of a name in a list.
IndexOf(s, name) == SelectInSeq(s, LAMBDA n : n = name)

\* A name that is listed has a place.
LEMMA IndexOfName ==
  ASSUME NEW s \in Seq(STRING), NEW name \in ToSet(s)
  PROVE  IndexOf(s, name) \in 1 .. Len(s) /\ s[IndexOf(s, name)] = name
<1> DEFINE I == {j \in 1 .. Len(s) : s[j] = name}
<1>1. I \in SUBSET Nat /\ I # {}
  BY DEF ToSet
<1>2. IndexOf(s, name) = Min(I)
  BY <1>1 DEF IndexOf, SelectInSeq
<1>3. \A j \in I : j \in 1 .. Len(s) /\ s[j] = name
  OBVIOUS
<1> HIDE DEF I
<1>4. \E v \in I : \A w \in I : v <= w
  BY <1>1, NatSetHasLeast
<1>5. Min(I) \in I
  BY <1>4 DEF Min
<1>6. QED BY <1>2, <1>3, <1>5

\* What RemoveName leaves of a list.
NamesWithout(s, name) == Front([s EXCEPT ![IndexOf(s, name)] = Last(s)])

\* Swapping a name with the last one and dropping that removes the name and
\* no other, and lists none twice.
LEMMA RemovedName ==
  ASSUME NEW s \in Seq(STRING), NEW name \in ToSet(s), IsInjective(s)
  PROVE  /\ NamesWithout(s, name) \in Seq(STRING)
         /\ ToSet(NamesWithout(s, name)) = ToSet(s) \ {name}
         /\ IsInjective(NamesWithout(s, name))
<1> DEFINE i == IndexOf(s, name)
           m == Len(s) - 1
           u == [s EXCEPT ![i] = Last(s)]
           t == NamesWithout(s, name)
<1>1. i \in 1 .. Len(s) /\ s[i] = name
  BY IndexOfName
<1>2. /\ m \in Nat /\ m + 1 = Len(s) /\ Last(s) = s[m + 1] /\ m + 1 \in 1 .. Len(s)
      /\ Len(s) \in Nat
  BY <1>1 DEF Last
<1> HIDE DEF i, m
<1>3. /\ u \in Seq(STRING) /\ Len(u) = m + 1
      /\ \A j \in 1 .. Len(s) : u[j] = IF j = i THEN s[m + 1] ELSE s[j]
  BY <1>1, <1>2
<1>4. t = SubSeq(u, 1, m)
  BY <1>2, <1>3 DEF NamesWithout, Front, i
<1> HIDE DEF u, t
<1>5. t \in Seq(STRING) /\ Len(t) = m
  BY <1>2, <1>3, <1>4
<1>6. ASSUME NEW j \in 1 .. m PROVE t[j] = IF j = i THEN s[m + 1] ELSE s[j]
  <2>1. t[j] = u[j] /\ j \in 1 .. Len(s)
    BY <1>2, <1>3, <1>4
  <2>2. QED BY <2>1, <1>3
<1>7. DOMAIN s = 1 .. (m + 1) /\ DOMAIN t = 1 .. m
  BY <1>2, <1>5
<1>8. \A j, k \in 1 .. (m + 1) : s[j] = s[k] => j = k
  BY <1>7 DEF IsInjective
<1>9. IsInjective(t)
  <2>1. SUFFICES ASSUME NEW j \in 1 .. m, NEW k \in 1 .. m, t[j] = t[k] PROVE j = k
    BY <1>7 DEF IsInjective
  <2>2. /\ j \in 1 .. (m + 1) /\ k \in 1 .. (m + 1) /\ m + 1 \in 1 .. (m + 1)
        /\ j # m + 1 /\ k # m + 1
    BY <1>2
  <2>3. t[j] = (IF j = i THEN s[m + 1] ELSE s[j]) /\ t[k] = (IF k = i THEN s[m + 1] ELSE s[k])
    BY <1>6
  <2>4. QED BY <1>8, <2>1, <2>2, <2>3
<1>10. ASSUME NEW n \in ToSet(t) PROVE n \in ToSet(s) \ {name}
  <2>1. PICK j \in 1 .. m : n = t[j]
    BY <1>7 DEF ToSet
  <2>2. j \in 1 .. (m + 1) /\ m + 1 \in 1 .. (m + 1) /\ j # m + 1
    BY <1>2
  <2>3. CASE j = i
    <3>1. n = s[m + 1] /\ i # m + 1
      BY <1>6, <2>1, <2>2, <2>3
    <3>2. n # name
      BY <1>1, <1>2, <1>8, <2>2, <3>1
    <3>3. QED BY <1>7, <2>2, <3>1, <3>2 DEF ToSet
  <2>4. CASE j # i
    <3>1. n = s[j]
      BY <1>6, <2>1, <2>4
    <3>2. n # name
      BY <1>1, <1>2, <1>8, <2>2, <2>4, <3>1
    <3>3. QED BY <1>7, <2>2, <3>1, <3>2 DEF ToSet
  <2>5. QED BY <2>3, <2>4
<1>11. ASSUME NEW n \in ToSet(s) \ {name} PROVE n \in ToSet(t)
  <2>1. PICK j \in 1 .. (m + 1) : n = s[j]
    BY <1>7 DEF ToSet
  <2>2. j # i
    BY <1>1, <2>1
  <2>3. CASE j = m + 1
    <3>1. i \in 1 .. m
      BY <1>1, <1>2, <2>2, <2>3
    <3>2. t[i] = n
      BY <1>6, <2>1, <2>3, <3>1
    <3>3. QED BY <1>7, <3>1, <3>2 DEF ToSet
  <2>4. CASE j # m + 1
    <3>1. j \in 1 .. m
      BY <1>2, <2>4
    <3>2. t[j] = n
      BY <1>6, <2>1, <2>2, <3>1
    <3>3. QED BY <1>7, <3>1, <3>2 DEF ToSet
  <2>5. QED BY <2>3, <2>4
<1>12. QED BY <1>5, <1>9, <1>10, <1>11 DEF t

\* AddName changes the names of an entry and nothing else.
LEMMA AddedName ==
  ASSUME NEW entry \in Entry, NEW name \in STRING
  PROVE  /\ AddName(entry, name) \in Entry
         /\ AddName(entry, name).type = entry.type
         /\ AddName(entry, name).parts = entry.parts
         /\ AddName(entry, name).contents = Append(entry.contents, name)
<1>1. entry.contents \in Seq(STRING) /\ Append(entry.contents, name) \in Seq(STRING)
  BY DEF Entry
<1> DEFINE names == Append(entry.contents, name)
<1>2. AddName(entry, name) = [entry EXCEPT !.contents = names]
  BY DEF AddName
<1> HIDE DEF names
<1>3. names \in Seq(STRING)
  BY <1>1 DEF names
<1>4. QED BY <1>2, <1>3 DEF Entry, names

\* So does RemoveName.
LEMMA RemoveNameIs ==
  ASSUME NEW entry \in Entry, NEW name \in ToSet(entry.contents), IsInjective(entry.contents)
  PROVE  /\ RemoveName(entry, name) \in Entry
         /\ RemoveName(entry, name).type = entry.type
         /\ RemoveName(entry, name).parts = entry.parts
         /\ RemoveName(entry, name).contents = NamesWithout(entry.contents, name)
<1>1. entry.contents \in Seq(STRING)
  BY DEF Entry
<1>2. NamesWithout(entry.contents, name) \in Seq(STRING)
  BY <1>1, RemovedName
<1>3. RemoveName(entry, name) = [entry EXCEPT !.contents = NamesWithout(entry.contents, name)]
  BY DEF RemoveName, NamesWithout, IndexOf
<1>4. QED BY <1>2, <1>3 DEF Entry
----------------------------------------------------------------------------
(***************************************************************************)
(* The execution context: what PutEntry, DeleteEntry and Fail make of what *)
(* its destructor installs.                                                *)
(***************************************************************************)
\* An execution context: a record of reads, writes, deletions and success.
IsContext(c) ==
  c \in [reads : {c.reads}, writes : {c.writes}, deletions : {c.deletions}, success : {c.success}]

\* A context starts with the entries that the read set has, and no change.
LEMMA NewContextIs ==
  ASSUME NEW a
  PROVE  /\ IsContext(NewContext(a)) /\ NewContext(a).success = TRUE
         /\ \A p : Exists(NewContext(a), p) <=> p \in ReadSet(a) /\ p \in DOMAIN store
         /\ \A p \in ReadSet(a) \cap DOMAIN store : NewContext(a).reads[p] = store[p]
         /\ NewContext(a).writes = << >> /\ NewContext(a).deletions = {}
BY DEF NewContext, IsContext, Exists

\* Installing nothing changes nothing.
LEMMA InstallNew ==
  ASSUME NEW a, store = [p \in DOMAIN store |-> store[p]]
  PROVE  Install(NewContext(a)) = store
<1>1. \A s : s = << >> => DOMAIN s = {}
  OBVIOUS
<1>2. DOMAIN NewContext(a).writes = {}
  BY <1>1, NewContextIs
<1>3. QED BY <1>2, NewContextIs DEF Install

\* PutEntry adds one entry to what will be installed.
LEMMA PutIs ==
  ASSUME NEW c, IsContext(c), NEW p, NEW entry
  PROVE  /\ IsContext(PutEntry(c, p, entry))
         /\ PutEntry(c, p, entry).success = c.success
         /\ Install(PutEntry(c, p, entry)) = With(Install(c), p, entry)
<1> DEFINE d == PutEntry(c, p, entry)
<1>0. d \in [reads : {d.reads}, writes : {With(c.writes, p, entry)},
             deletions : {c.deletions \ {p}}, success : {c.success}]
  BY DEF IsContext, PutEntry
<1>1. /\ IsContext(d) /\ d.success = c.success
      /\ d.writes = With(c.writes, p, entry) /\ d.deletions = c.deletions \ {p}
  BY <1>0 DEF IsContext
<1> HIDE DEF d
<1>2. DOMAIN d.writes = DOMAIN c.writes \cup {p}
  BY <1>1 DEF With
<1>3. \A q \in DOMAIN d.writes : d.writes[q] = IF q = p THEN entry ELSE c.writes[q]
  BY <1>1 DEF With
<1>4. Install(d) = With(Install(c), p, entry)
  BY <1>1, <1>2, <1>3 DEF Install, With
<1>5. QED BY <1>1, <1>4 DEF d

\* DeleteEntry takes one entry out of what will be installed.
LEMMA DeleteIs ==
  ASSUME NEW c, IsContext(c), NEW p
  PROVE  /\ IsContext(DeleteEntry(c, p))
         /\ DeleteEntry(c, p).success = c.success
         /\ Install(DeleteEntry(c, p)) = Without(Install(c), p)
<1> DEFINE d == DeleteEntry(c, p)
<1>0. d \in [reads : {d.reads}, writes : {Without(c.writes, p)},
             deletions : {c.deletions \cup {p}}, success : {c.success}]
  BY DEF IsContext, DeleteEntry
<1>1. /\ IsContext(d) /\ d.success = c.success
      /\ d.writes = Without(c.writes, p) /\ d.deletions = c.deletions \cup {p}
  BY <1>0 DEF IsContext
<1> HIDE DEF d
<1>2. DOMAIN d.writes = DOMAIN c.writes \ {p}
  BY <1>1 DEF Without
<1>3. \A q \in DOMAIN d.writes : d.writes[q] = c.writes[q]
  BY <1>1 DEF Without
<1>4. Install(d) = Without(Install(c), p)
  BY <1>1, <1>2, <1>3 DEF Install, Without
<1>5. QED BY <1>1, <1>4 DEF d

\* A failure leaves what will be installed alone.
LEMMA FailIs ==
  ASSUME NEW c, IsContext(c)
  PROVE  /\ IsContext(Fail(c)) /\ Fail(c).success = FALSE
         /\ Install(Fail(c)) = Install(c)
<1>1. /\ IsContext(Fail(c)) /\ Fail(c).success = FALSE
      /\ Fail(c).writes = c.writes /\ Fail(c).deletions = c.deletions
  BY DEF IsContext, Fail
<1>2. QED BY <1>1 DEF Install

----------------------------------------------------------------------------
(***************************************************************************)
(* The operations, each as one change of the store.                        *)
(***************************************************************************)
\* The fields of an action have their types.
LEMMA InputTypes ==
  ASSUME NEW a \in Inputs
  PROVE  /\ a.type \in {"CREATE_FILE", "ERASE", "COPY", "RENAME", "LOOKUP", "RESIZE", "APPEND"}
         /\ a.path \in Path
         /\ a.type \in {"CREATE_FILE", "ERASE", "RENAME"} => a.path \in Path \ {Root}
         /\ a.type \in {"COPY", "RENAME"} => a.to \in Path \ {Root}
         /\ a.type = "CREATE_FILE" => a.kind \in {"DATA", "DIR"}
         /\ a.type = "RESIZE" => a.size \in Nat
         /\ a.type = "APPEND" => a.data \in Seq(Part)
<1>1. a \in InputRecord
  BY MetadataStoreAssumption
<1>2. CASE a \in [type : {"CREATE_FILE"}, path : Path \ {Root}, kind : {"DATA", "DIR"}]
  BY <1>2
<1>3. CASE a \in [type : {"ERASE"}, path : Path \ {Root}]
  BY <1>3
<1>4. CASE a \in [type : {"COPY"}, path : Path, to : Path \ {Root}]
  BY <1>4
<1>5. CASE a \in [type : {"RENAME"}, path : Path \ {Root}, to : Path \ {Root}]
  BY <1>5
<1>6. CASE a \in [type : {"LOOKUP"}, path : Path]
  BY <1>6
<1>7. CASE a \in [type : {"RESIZE"}, path : Path, size : Nat]
  BY <1>7
<1>8. CASE a \in [type : {"APPEND"}, path : Path, data : Seq(Part)]
  BY <1>8
<1>9. QED BY <1>1, <1>2, <1>3, <1>4, <1>5, <1>6, <1>7, <1>8 DEF InputRecord

\* A LOOKUP writes nothing, and every other action but COPY writes all it reads.
LEMMA SetsOfPaths ==
  ASSUME NEW a \in Inputs
  PROVE  /\ a.type = "LOOKUP" <=> WriteSet(a) = {}
         /\ a.type \notin {"COPY", "LOOKUP"} => ReadSet(a) \subseteq WriteSet(a)
BY InputTypes DEF ReadSet, WriteSet

\* The context in which Run leaves an action.
Done(a) == IF WriteSet(a) = {} THEN NewContext(a) ELSE Execute(NewContext(a), a)

\* The store is a function, and nothing but one.
StoreIsFunction == store = [p \in DOMAIN store |-> store[p]]

\* Entries, and the names their directories list.
Has(p) == p \in DOMAIN store
Listed(p) == Lists(store[ParentDir(p)], FileName(p))

\* f with the entry at p, and with its name in the directory of p.
Linked(f, p, entry) ==
  With(With(f, ParentDir(p), AddName(store[ParentDir(p)], FileName(p))), p, entry)

\* f without the name of p in the directory of p.
Unlinked(f, p) ==
  IF Listed(p) THEN With(f, ParentDir(p), RemoveName(store[ParentDir(p)], FileName(p))) ELSE f

\* The action is executed, and leaves s; or it fails, and leaves the store alone.
Succeeds(a, s) == Done(a).success = TRUE /\ Install(Done(a)) = s
Fails(a) == Done(a).success = FALSE /\ Install(Done(a)) = store

\* What CREATE_FILE, COPY and RENAME ask of the path they add.
CanLink(p) == Has(ParentDir(p)) /\ ~ Listed(p)

\* A CREATE_FILE links a new entry.
LEMMA CreateFileDoes ==
  ASSUME NEW a \in Inputs, a.type = "CREATE_FILE", StoreIsFunction
  PROVE  IF CanLink(a.path)
         THEN Succeeds(a, Linked(store, a.path, NewEntry(a.kind)))
         ELSE Fails(a)
<1> DEFINE c == NewContext(a)
           par == ParentDir(a.path)
           name == FileName(a.path)
<1>1. Done(a) = CreateFile(c, a)
  BY SetsOfPaths DEF Done, Execute
<1>2. /\ IsContext(c) /\ c.success = TRUE /\ Install(c) = store
      /\ \A p : Exists(c, p) <=> p \in ReadSet(a) /\ p \in DOMAIN store
      /\ \A p \in ReadSet(a) \cap DOMAIN store : c.reads[p] = store[p]
  BY NewContextIs, InstallNew DEF StoreIsFunction
<1>3. par \in ReadSet(a) /\ a.path \in ReadSet(a)
  BY DEF ReadSet
<1> HIDE DEF c
<1>4. Exists(c, par) <=> Has(par)
  BY <1>2, <1>3 DEF Has
<1>5. Has(par) => c.reads[par] = store[par]
  BY <1>2, <1>3 DEF Has
<1>6. CASE CanLink(a.path)
  <2>1. c.reads[par] = store[par] /\ Exists(c, par) /\ ~ Lists(store[par], name)
    BY <1>4, <1>5, <1>6 DEF CanLink, Listed
  <2> DEFINE d == PutEntry(c, par, AddName(store[par], name))
             e == PutEntry(d, a.path, NewEntry(a.kind))
  <2>2. CreateFile(c, a) = e
    BY <2>1 DEF CreateFile
  <2>3. /\ IsContext(d) /\ d.success = TRUE
        /\ Install(d) = With(store, par, AddName(store[par], name))
    BY <1>2, PutIs
  <2> HIDE DEF d
  <2>4. e.success = TRUE /\ Install(e) = With(Install(d), a.path, NewEntry(a.kind))
    BY <2>3, PutIs
  <2>5. QED BY <1>1, <1>6, <2>2, <2>3, <2>4 DEF Succeeds, Linked
<1>7. CASE ~ CanLink(a.path)
  <2>1. CreateFile(c, a) = Fail(c)
    BY <1>4, <1>5, <1>7 DEF CreateFile, CanLink, Listed
  <2>2. QED BY <1>1, <1>2, <1>7, <2>1, FailIs DEF Fails
<1>8. QED BY <1>6, <1>7

\* What ERASE asks of the path it removes.
CanErase(p) ==
  /\ Has(ParentDir(p)) /\ Has(p)
  /\ ~ (store[p].type = "DIR" /\ store[p].contents # << >>)

\* An ERASE takes out the entry and its name.
LEMMA EraseDoes ==
  ASSUME NEW a \in Inputs, a.type = "ERASE", StoreIsFunction
  PROVE  IF CanErase(a.path)
         THEN Succeeds(a, Unlinked(Without(store, a.path), a.path))
         ELSE Fails(a)
<1> DEFINE c == NewContext(a)
           par == ParentDir(a.path)
           name == FileName(a.path)
           d == DeleteEntry(c, a.path)
<1>1. Done(a) = Erase(c, a)
  BY SetsOfPaths DEF Done, Execute
<1>2. /\ IsContext(c) /\ c.success = TRUE /\ Install(c) = store
      /\ \A p : Exists(c, p) <=> p \in ReadSet(a) /\ p \in DOMAIN store
      /\ \A p \in ReadSet(a) \cap DOMAIN store : c.reads[p] = store[p]
  BY NewContextIs, InstallNew DEF StoreIsFunction
<1>3. par \in ReadSet(a) /\ a.path \in ReadSet(a)
  BY DEF ReadSet
<1> HIDE DEF c
<1>4. (Exists(c, par) <=> Has(par)) /\ (Exists(c, a.path) <=> Has(a.path))
  BY <1>2, <1>3 DEF Has
<1>5. /\ (Has(par) => c.reads[par] = store[par])
      /\ (Has(a.path) => c.reads[a.path] = store[a.path])
  BY <1>2, <1>3 DEF Has
<1>6. CASE CanErase(a.path)
  <2>1. /\ c.reads[par] = store[par] /\ c.reads[a.path] = store[a.path]
        /\ Exists(c, par) /\ Exists(c, a.path)
    BY <1>4, <1>5, <1>6 DEF CanErase
  <2>2. IsContext(d) /\ d.success = TRUE /\ Install(d) = Without(store, a.path)
    BY <1>2, DeleteIs
  <2>3. CASE ~ Listed(a.path)
    <3>1. Erase(c, a) = d
      BY <1>6, <2>1, <2>3 DEF Erase, Listed, CanErase
    <3>2. QED BY <1>1, <1>6, <2>2, <2>3, <3>1 DEF Succeeds, Unlinked
  <2>4. CASE Listed(a.path)
    <3> DEFINE e == PutEntry(d, par, RemoveName(store[par], name))
    <3>1. Erase(c, a) = e
      BY <1>6, <2>1, <2>4 DEF Erase, Listed, CanErase
    <3> HIDE DEF d
    <3>2. e.success = TRUE /\ Install(e) = With(Install(d), par, RemoveName(store[par], name))
      BY <2>2, PutIs
    <3>3. QED BY <1>1, <1>6, <2>2, <2>4, <3>1, <3>2 DEF Succeeds, Unlinked
  <2>5. QED BY <2>3, <2>4
<1>7. CASE ~ CanErase(a.path)
  <2>1. Erase(c, a) = Fail(c)
    BY <1>4, <1>5, <1>7 DEF Erase, CanErase
  <2>2. QED BY <1>1, <1>2, <1>7, <2>1, FailIs DEF Fails
<1>8. QED BY <1>6, <1>7

\* A COPY links the entry a second time.
LEMMA CopyDoes ==
  ASSUME NEW a \in Inputs, a.type = "COPY", StoreIsFunction
  PROVE  IF Has(a.path) /\ CanLink(a.to) THEN Succeeds(a, Linked(store, a.to, store[a.path]))
         ELSE Fails(a)
<1> DEFINE c == NewContext(a)
           par == ParentDir(a.to)
           name == FileName(a.to)
<1>1. Done(a) = Copy(c, a)
  BY SetsOfPaths DEF Done, Execute
<1>2. /\ IsContext(c) /\ c.success = TRUE /\ Install(c) = store
      /\ \A p : Exists(c, p) <=> p \in ReadSet(a) /\ p \in DOMAIN store
      /\ \A p \in ReadSet(a) \cap DOMAIN store : c.reads[p] = store[p]
  BY NewContextIs, InstallNew DEF StoreIsFunction
<1>3. par \in ReadSet(a) /\ a.path \in ReadSet(a)
  BY DEF ReadSet
<1> HIDE DEF c
<1>4. (Exists(c, par) <=> Has(par)) /\ (Exists(c, a.path) <=> Has(a.path))
  BY <1>2, <1>3 DEF Has
<1>5. /\ (Has(par) => c.reads[par] = store[par])
      /\ (Has(a.path) => c.reads[a.path] = store[a.path])
  BY <1>2, <1>3 DEF Has
<1>6. CASE Has(a.path) /\ CanLink(a.to)
  <2>1. /\ c.reads[par] = store[par] /\ c.reads[a.path] = store[a.path]
        /\ Exists(c, par) /\ Exists(c, a.path) /\ ~ Lists(store[par], name)
    BY <1>4, <1>5, <1>6 DEF CanLink, Listed
  <2> DEFINE d == PutEntry(c, par, AddName(store[par], name))
             e == PutEntry(d, a.to, store[a.path])
  <2>2. Copy(c, a) = e
    BY <2>1 DEF Copy
  <2>3. /\ IsContext(d) /\ d.success = TRUE
        /\ Install(d) = With(store, par, AddName(store[par], name))
    BY <1>2, PutIs
  <2> HIDE DEF d
  <2>4. e.success = TRUE /\ Install(e) = With(Install(d), a.to, store[a.path])
    BY <2>3, PutIs
  <2>5. QED BY <1>1, <1>6, <2>2, <2>3, <2>4 DEF Succeeds, Linked
<1>7. CASE ~ (Has(a.path) /\ CanLink(a.to))
  <2>1. Copy(c, a) = Fail(c)
    BY <1>4, <1>5, <1>7 DEF Copy, CanLink, Listed
  <2>2. QED BY <1>1, <1>2, <1>7, <2>1, FailIs DEF Fails
<1>8. QED BY <1>6, <1>7

\* What RENAME asks of both its paths.
CanRename(a) == Has(a.path) /\ Has(ParentDir(a.path)) /\ CanLink(a.to)

\* Link the new path, unlink the old one, and take its entry out.
Renamed(a) == Without(Unlinked(Linked(store, a.to, store[a.path]), a.path), a.path)

\* A RENAME does these three.
LEMMA RenameDoes ==
  ASSUME NEW a \in Inputs, a.type = "RENAME", StoreIsFunction
  PROVE  IF CanRename(a) THEN Succeeds(a, Renamed(a)) ELSE Fails(a)
<1> DEFINE c == NewContext(a)
           from == ParentDir(a.path)
           par == ParentDir(a.to)
           name == FileName(a.to)
<1>1. Done(a) = Rename(c, a)
  BY SetsOfPaths DEF Done, Execute
<1>2. /\ IsContext(c) /\ c.success = TRUE /\ Install(c) = store
      /\ \A p : Exists(c, p) <=> p \in ReadSet(a) /\ p \in DOMAIN store
      /\ \A p \in ReadSet(a) \cap DOMAIN store : c.reads[p] = store[p]
  BY NewContextIs, InstallNew DEF StoreIsFunction
<1>3. par \in ReadSet(a) /\ a.path \in ReadSet(a) /\ from \in ReadSet(a)
  BY DEF ReadSet
<1> HIDE DEF c
<1>4. /\ Exists(c, par) <=> Has(par)
      /\ Exists(c, a.path) <=> Has(a.path)
      /\ Exists(c, from) <=> Has(from)
  BY <1>2, <1>3 DEF Has
<1>5. /\ Has(par) => c.reads[par] = store[par]
      /\ Has(a.path) => c.reads[a.path] = store[a.path]
      /\ Has(from) => c.reads[from] = store[from]
  BY <1>2, <1>3 DEF Has
<1>6. CASE CanRename(a)
  <2>1. /\ c.reads[par] = store[par] /\ c.reads[a.path] = store[a.path] /\ c.reads[from] = store[from]
        /\ Exists(c, par) /\ Exists(c, a.path) /\ Exists(c, from) /\ ~ Lists(store[par], name)
    BY <1>4, <1>5, <1>6 DEF CanRename, CanLink, Listed
  <2> DEFINE d == PutEntry(c, par, AddName(store[par], name))
             e == PutEntry(d, a.to, store[a.path])
             u == IF ~ Listed(a.path) THEN e
                  ELSE PutEntry(e, from, RemoveName(store[from], FileName(a.path)))
  <2>2. Rename(c, a) = DeleteEntry(u, a.path)
    BY <2>1 DEF Rename, Listed
  <2>3. /\ IsContext(d) /\ d.success = TRUE
        /\ Install(d) = With(store, par, AddName(store[par], name))
    BY <1>2, PutIs
  <2> HIDE DEF d
  <2>4. IsContext(e) /\ e.success = TRUE /\ Install(e) = With(Install(d), a.to, store[a.path])
    BY <2>3, PutIs
  <2>5. Install(e) = Linked(store, a.to, store[a.path])
    BY <2>3, <2>4 DEF Linked
  <2> HIDE DEF e
  <2>6. /\ IsContext(u) /\ u.success = TRUE
        /\ Install(u) = Unlinked(Linked(store, a.to, store[a.path]), a.path)
    <3>1. CASE ~ Listed(a.path)
      BY <2>4, <2>5, <3>1 DEF Unlinked
    <3>2. CASE Listed(a.path)
      BY <2>4, <2>5, <3>2, PutIs DEF Unlinked
    <3>3. QED BY <3>1, <3>2
  <2> HIDE DEF u
  <2>7. QED BY <1>1, <1>6, <2>2, <2>6, DeleteIs DEF Succeeds, Renamed
<1>7. CASE ~ CanRename(a)
  <2>1. Rename(c, a) = Fail(c)
    BY <1>4, <1>5, <1>7 DEF Rename, CanLink, Listed, CanRename
  <2>2. QED BY <1>1, <1>2, <1>7, <2>1, FailIs DEF Fails
<1>8. QED BY <1>6, <1>7

\* What RESIZE and APPEND ask of the path.
HasData(p) == Has(p) /\ store[p].type = "DATA"

\* The parts of a file that is resized to something.
ResizedParts(parts, size) ==
  IF Size(parts) < size THEN Append(parts, Zeros(size - Size(parts))) ELSE Truncate(parts, size)

\* A RESIZE to nothing succeeds and changes nothing; another one sets the parts.
LEMMA ResizeDoes ==
  ASSUME NEW a \in Inputs, a.type = "RESIZE", StoreIsFunction
  PROVE  IF HasData(a.path)
         THEN Succeeds(a, IF a.size = 0 THEN store
                          ELSE With(store, a.path, [store[a.path] EXCEPT
                                 !.parts = ResizedParts(store[a.path].parts, a.size)]))
         ELSE Fails(a)
<1> DEFINE c == NewContext(a)
<1>1. Done(a) = Resize(c, a)
  BY SetsOfPaths DEF Done, Execute
<1>2. /\ IsContext(c) /\ c.success = TRUE /\ Install(c) = store
      /\ \A p : Exists(c, p) <=> p \in ReadSet(a) /\ p \in DOMAIN store
      /\ \A p \in ReadSet(a) \cap DOMAIN store : c.reads[p] = store[p]
  BY NewContextIs, InstallNew DEF StoreIsFunction
<1>3. a.path \in ReadSet(a)
  BY DEF ReadSet
<1> HIDE DEF c
<1>4. /\ Exists(c, a.path) <=> Has(a.path)
      /\ Has(a.path) => c.reads[a.path] = store[a.path]
  BY <1>2, <1>3 DEF Has
<1>5. IsData(c, a.path) <=> HasData(a.path)
  BY <1>4 DEF IsData, HasData
<1>6. CASE HasData(a.path)
  <2>1. c.reads[a.path] = store[a.path]
    BY <1>4, <1>6 DEF HasData
  <2>2. CASE a.size = 0
    <3>1. Resize(c, a) = c
      BY <1>5, <1>6, <2>2 DEF Resize
    <3>2. QED BY <1>1, <1>2, <1>6, <2>2, <3>1 DEF Succeeds
  <2>3. CASE a.size # 0
    <3> DEFINE entry == [store[a.path] EXCEPT !.parts = ResizedParts(store[a.path].parts, a.size)]
    <3>1. Resize(c, a) = PutEntry(c, a.path, entry)
      BY <1>5, <1>6, <2>1, <2>3 DEF Resize, ResizedParts
    <3> HIDE DEF entry
    <3>2. Succeeds(a, With(store, a.path, entry))
      BY <1>1, <1>2, <3>1, PutIs DEF Succeeds
    <3>3. QED BY <1>6, <2>3, <3>2 DEF entry
  <2>4. QED BY <2>2, <2>3
<1>7. CASE ~ HasData(a.path)
  <2>1. Resize(c, a) = Fail(c)
    BY <1>5, <1>7 DEF Resize
  <2>2. QED BY <1>1, <1>2, <1>7, <2>1, FailIs DEF Fails
<1>8. QED BY <1>6, <1>7

\* An APPEND adds the parts it carries.
LEMMA AppendDoes ==
  ASSUME NEW a \in Inputs, a.type = "APPEND", StoreIsFunction
  PROVE  IF HasData(a.path)
         THEN Succeeds(a, With(store, a.path, [store[a.path] EXCEPT !.parts = @ \o a.data]))
         ELSE Fails(a)
<1> DEFINE c == NewContext(a)
<1>1. Done(a) = AppendData(c, a)
  BY SetsOfPaths DEF Done, Execute
<1>2. /\ IsContext(c) /\ c.success = TRUE /\ Install(c) = store
      /\ \A p : Exists(c, p) <=> p \in ReadSet(a) /\ p \in DOMAIN store
      /\ \A p \in ReadSet(a) \cap DOMAIN store : c.reads[p] = store[p]
  BY NewContextIs, InstallNew DEF StoreIsFunction
<1>3. a.path \in ReadSet(a)
  BY DEF ReadSet
<1> HIDE DEF c
<1>4. /\ Exists(c, a.path) <=> Has(a.path)
      /\ Has(a.path) => c.reads[a.path] = store[a.path]
  BY <1>2, <1>3 DEF Has
<1>5. IsData(c, a.path) <=> HasData(a.path)
  BY <1>4 DEF IsData, HasData
<1>6. CASE HasData(a.path)
  <2>1. c.reads[a.path] = store[a.path]
    BY <1>4, <1>6 DEF HasData
  <2> DEFINE entry == [store[a.path] EXCEPT !.parts = @ \o a.data]
  <2>2. AppendData(c, a) = PutEntry(c, a.path, entry)
    BY <1>5, <1>6, <2>1 DEF AppendData
  <2> HIDE DEF entry
  <2>3. Succeeds(a, With(store, a.path, entry))
    BY <1>1, <1>2, <2>2, PutIs DEF Succeeds
  <2>4. QED BY <1>6, <2>3 DEF entry
<1>7. CASE ~ HasData(a.path)
  <2>1. AppendData(c, a) = Fail(c)
    BY <1>5, <1>7 DEF AppendData
  <2>2. QED BY <1>1, <1>2, <1>7, <2>1, FailIs DEF Fails
<1>8. QED BY <1>6, <1>7

\* A LOOKUP succeeds and changes nothing.
LEMMA LookupDoes ==
  ASSUME NEW a \in Inputs, a.type = "LOOKUP", StoreIsFunction
  PROVE  Succeeds(a, store)
BY SetsOfPaths, NewContextIs, InstallNew DEF Done, Succeeds, StoreIsFunction

----------------------------------------------------------------------------
(***************************************************************************)
(* The parts of a file and their bytes.  What a recursive function         *)
(* computes is proved from its least counterexample.                       *)
(***************************************************************************)
\* f is the function of the totals of the first n parts.
Adds(f, parts, n) ==
  f = [i \in 0 .. n |-> IF i = 0 THEN 0 ELSE f[i - 1] + parts[i].length]

\* There is one for every n: otherwise there would be a least n without.
LEMMA SumExists == ASSUME NEW parts PROVE \A n \in Nat : \E f : Adds(f, parts, n)
<1> DEFINE S == {n \in Nat : ~ \E f : Adds(f, parts, n)}
<1> SUFFICES ASSUME S # {} PROVE FALSE
  OBVIOUS
<1>1. PICK n \in S : \A w \in S : n <= w
  BY NatSetHasLeast
<1>2. n \in Nat /\ ~ \E f : Adds(f, parts, n)
  OBVIOUS
<1>3. CASE n = 0
  <2>1. Adds([i \in 0 .. 0 |-> 0], parts, 0)
    <3>1. \A i \in 0 .. 0 : i = 0
      OBVIOUS
    <3>2. QED BY <3>1 DEF Adds
  <2>2. QED BY <1>2, <1>3, <2>1
<1>4. CASE n # 0
  <2>1. n - 1 \in Nat /\ n - 1 < n
    BY <1>2, <1>4
  <2>2. n - 1 \notin S
    BY <1>1, <1>2, <2>1
  <2>3. PICK f : Adds(f, parts, n - 1)
    BY <2>1, <2>2
  <2>4. \A i \in 0 .. (n - 1) : f[i] = IF i = 0 THEN 0 ELSE f[i - 1] + parts[i].length
    BY <2>3 DEF Adds
  <2> DEFINE g == [i \in 0 .. n |-> IF i = n THEN f[n - 1] + parts[n].length ELSE f[i]]
  <2>5. \A i \in 0 .. n : g[i] = IF i = 0 THEN 0 ELSE g[i - 1] + parts[i].length
    <3> TAKE i \in 0 .. n
    <3>1. CASE i = n
      <4>1. g[n] = f[n - 1] + parts[n].length /\ g[n - 1] = f[n - 1]
        BY <1>2, <2>1
      <4>2. QED BY <1>4, <3>1, <4>1
    <3>2. CASE i # n
      <4>1. i \in 0 .. (n - 1) /\ g[i] = f[i]
        BY <1>2, <3>2
      <4>2. i # 0 => i - 1 \in 0 .. n /\ i - 1 # n
        BY <1>2, <4>1
      <4>3. i # 0 => g[i - 1] = f[i - 1]
        BY <4>2
      <4>4. QED BY <2>4, <4>1, <4>3
    <3>3. QED BY <3>1, <3>2
  <2>6. g = [i \in 0 .. n |-> g[i]]
    OBVIOUS
  <2> HIDE DEF g
  <2>7. g = [i \in 0 .. n |-> IF i = 0 THEN 0 ELSE g[i - 1] + parts[i].length]
    BY <2>5, <2>6
  <2>8. Adds(g, parts, n)
    BY <2>7 DEF Adds
  <2>9. QED BY <1>2, <2>8
<1>5. QED BY <1>3, <1>4

\* So Totals is what its definition says.
LEMMA TotalSteps ==
  ASSUME NEW parts \in Seq(Part)
  PROVE  /\ Total(parts, 0) = 0
         /\ \A n \in 1 .. Len(parts) : Total(parts, n) = Total(parts, n - 1) + parts[n].length
<1>0. Len(parts) \in Nat
  OBVIOUS
<1>1. PICK f : Adds(f, parts, Len(parts))
  BY <1>0, SumExists
<1> DEFINE Body(g) == [n \in 0 .. Len(parts) |-> IF n = 0 THEN 0 ELSE g[n - 1] + parts[n].length]
           T == Totals(parts)
<1>2. T = CHOOSE g : g = Body(g)
  BY DEF Totals
<1>3. f = Body(f)
  BY <1>1 DEF Adds
<1> HIDE DEF Body, T
<1>4. T = Body(T)
  BY <1>2, <1>3
<1>5. \A n \in 0 .. Len(parts) : T[n] = IF n = 0 THEN 0 ELSE T[n - 1] + parts[n].length
  BY <1>4 DEF Body
<1>6. 0 \in 0 .. Len(parts) /\ \A n \in 1 .. Len(parts) : n \in 0 .. Len(parts) /\ n # 0
  BY <1>0
<1>7. QED BY <1>5, <1>6 DEF Total, T

\* One part of a file.
LEMMA PartIs ==
  ASSUME NEW parts \in Seq(Part), NEW n \in 1 .. Len(parts)
  PROVE  parts[n] \in Part /\ parts[n].length \in Nat /\ parts[n].block \in Nat
<1>1. parts[n] \in Part
  OBVIOUS
<1>2. QED BY <1>1 DEF Part

\* Every total is a natural number.
LEMMA TotalTypes ==
  ASSUME NEW parts \in Seq(Part)
  PROVE  \A n \in 0 .. Len(parts) : Total(parts, n) \in Nat
<1> DEFINE S == {n \in 0 .. Len(parts) : Total(parts, n) \notin Nat}
<1> SUFFICES ASSUME S # {} PROVE FALSE
  OBVIOUS
<1>0. Len(parts) \in Nat
  OBVIOUS
<1>1. PICK n \in S : \A w \in S : n <= w
  <2>1. S \in SUBSET Nat
    BY <1>0
  <2> HIDE DEF S
  <2>2. QED BY <2>1, NatSetHasLeast
<1>2. n \in 0 .. Len(parts) /\ n \in Nat /\ Total(parts, n) \notin Nat
  BY <1>0
<1>3. n # 0
  BY <1>2, TotalSteps
<1>4. n \in 1 .. Len(parts) /\ n - 1 \in 0 .. Len(parts) /\ ~ (n <= n - 1)
  BY <1>0, <1>2, <1>3
<1>5. n - 1 \notin S
  BY <1>1, <1>4
<1>6. Total(parts, n - 1) \in Nat
  BY <1>4, <1>5
<1>7. parts[n].length \in Nat
  BY <1>4, PartIs
<1>8. Total(parts, n) = Total(parts, n - 1) + parts[n].length
  BY <1>4, TotalSteps
<1>9. QED BY <1>2, <1>6, <1>7, <1>8

\* So is the size of a file.
LEMMA SizeIsNat == ASSUME NEW parts \in Seq(Part) PROVE Size(parts) \in Nat
<1>1. Len(parts) \in 0 .. Len(parts)
  OBVIOUS
<1>2. QED BY <1>1, TotalTypes DEF Size

\* Totals never go down.
LEMMA TotalsGrow ==
  ASSUME NEW parts \in Seq(Part), NEW m \in 0 .. Len(parts)
  PROVE  \A n \in m .. Len(parts) : Total(parts, m) <= Total(parts, n)
<1> DEFINE S == {n \in m .. Len(parts) : ~ (Total(parts, m) <= Total(parts, n))}
<1> SUFFICES ASSUME S # {} PROVE FALSE
  OBVIOUS
<1>0. Len(parts) \in Nat /\ m \in Nat
  OBVIOUS
<1>1. PICK n \in S : \A w \in S : n <= w
  <2>1. S \in SUBSET Nat
    BY <1>0
  <2> HIDE DEF S
  <2>2. QED BY <2>1, NatSetHasLeast
<1>2. /\ n \in m .. Len(parts) /\ n \in Nat /\ n \in 0 .. Len(parts)
      /\ ~ (Total(parts, m) <= Total(parts, n))
  BY <1>0
<1>3. Total(parts, m) \in Nat /\ Total(parts, n) \in Nat
  BY <1>2, TotalTypes
<1>4. n # m
  BY <1>2, <1>3
<1>5. /\ n \in 1 .. Len(parts) /\ n - 1 \in m .. Len(parts) /\ n - 1 \in 0 .. Len(parts)
      /\ ~ (n <= n - 1)
  BY <1>0, <1>2, <1>4
<1>6. n - 1 \notin S
  BY <1>1, <1>5
<1>7. Total(parts, m) <= Total(parts, n - 1)
  BY <1>5, <1>6
<1>8. parts[n].length \in Nat /\ Total(parts, n - 1) \in Nat
  BY <1>5, PartIs, TotalTypes
<1>9. Total(parts, n) = Total(parts, n - 1) + parts[n].length
  BY <1>5, TotalSteps
<1>10. QED BY <1>2, <1>3, <1>7, <1>8, <1>9

\* Every byte of a file is in some part.
LEMMA ReachesIs ==
  ASSUME NEW parts \in Seq(Part), NEW j \in 1 .. Size(parts)
  PROVE  /\ Reaches(parts, j) \in 1 .. Len(parts)
         /\ Total(parts, Reaches(parts, j) - 1) < j /\ j <= Total(parts, Reaches(parts, j))
<1> DEFINE S == {n \in 1 .. Len(parts) : Total(parts, n) >= j}
<1>0. Len(parts) \in Nat /\ Size(parts) \in Nat /\ j \in Nat /\ 1 <= j /\ j <= Size(parts)
  BY SizeIsNat
<1>1. Len(parts) # 0
  BY <1>0, TotalSteps DEF Size
<1>2. Len(parts) \in S
  BY <1>0, <1>1 DEF Size
<1>3. PICK n \in S : \A w \in S : n <= w
  <2>1. S \in SUBSET Nat
    BY <1>0
  <2> HIDE DEF S
  <2>2. QED BY <1>2, <2>1, NatSetHasLeast
<1>4. n \in 1 .. Len(parts) /\ Total(parts, n) >= j
  BY <1>3
<1>5. ASSUME NEW k \in 1 .. n - 1 PROVE Total(parts, k) < j
  <2>1. k \in 1 .. Len(parts) /\ ~ (n <= k) /\ k \in 0 .. Len(parts)
    BY <1>0, <1>4
  <2>2. k \notin S
    BY <1>3, <2>1
  <2>3. Total(parts, k) \in Nat
    BY <2>1, TotalTypes
  <2>4. QED BY <1>0, <2>1, <2>2, <2>3
<1> DEFINE r == Reaches(parts, j)
<1>6. r \in 1 .. Len(parts) /\ Total(parts, r) >= j /\ \A k \in 1 .. r - 1 : Total(parts, k) < j
  BY <1>4, <1>5 DEF Reaches
<1> HIDE DEF r
<1>7. Total(parts, r - 1) < j
  <2>1. CASE r = 1
    BY <1>0, <2>1, TotalSteps
  <2>2. CASE r # 1
    <3>1. r - 1 \in 1 .. r - 1
      BY <1>0, <1>6, <2>2
    <3>2. QED BY <1>6, <3>1
  <2>3. QED BY <2>1, <2>2
<1>8. r \in 0 .. Len(parts)
  BY <1>6
<1>9. Total(parts, r) \in Nat
  BY <1>8, TotalTypes
<1>10. QED BY <1>0, <1>6, <1>7, <1>9 DEF r

\* It is in one part only.
LEMMA ReachesOnly ==
  ASSUME NEW parts \in Seq(Part), NEW j \in 1 .. Size(parts), NEW n \in 1 .. Len(parts),
         Total(parts, n - 1) < j, j <= Total(parts, n)
  PROVE  n = Reaches(parts, j)
<1> DEFINE r == Reaches(parts, j)
<1>1. r \in 1 .. Len(parts) /\ Total(parts, r - 1) < j /\ j <= Total(parts, r)
  BY ReachesIs
<1> HIDE DEF r
<1>0. Len(parts) \in Nat /\ j \in Nat /\ n \in Nat /\ r \in Nat
  BY <1>1, SizeIsNat
<1>2. /\ n \in 0 .. Len(parts) /\ n - 1 \in 0 .. Len(parts)
      /\ r \in 0 .. Len(parts) /\ r - 1 \in 0 .. Len(parts)
  BY <1>0, <1>1
<1>3. /\ Total(parts, n) \in Nat /\ Total(parts, n - 1) \in Nat
      /\ Total(parts, r) \in Nat /\ Total(parts, r - 1) \in Nat
  BY <1>2, TotalTypes
<1>4. CASE n < r
  <2>1. r - 1 \in n .. Len(parts)
    BY <1>0, <1>1, <1>4
  <2>2. Total(parts, n) <= Total(parts, r - 1)
    BY <1>2, <2>1, TotalsGrow
  <2>3. QED BY <1>0, <1>1, <1>3, <2>2
<1>5. CASE r < n
  <2>1. n - 1 \in r .. Len(parts)
    BY <1>0, <1>2, <1>5
  <2>2. Total(parts, r) <= Total(parts, n - 1)
    BY <1>2, <2>1, TotalsGrow
  <2>3. QED BY <1>0, <1>1, <1>3, <2>2
<1>6. QED BY <1>0, <1>4, <1>5 DEF r

\* Parts of the same lengths have the same totals.
LEMMA SameTotals ==
  ASSUME NEW s \in Seq(Part), NEW t \in Seq(Part), NEW m \in Nat, m <= Len(s), m <= Len(t),
         \A i \in 1 .. m : s[i].length = t[i].length
  PROVE  \A n \in 0 .. m : Total(s, n) = Total(t, n)
<1> DEFINE S == {n \in 0 .. m : Total(s, n) # Total(t, n)}
<1> SUFFICES ASSUME S # {} PROVE FALSE
  OBVIOUS
<1>1. PICK n \in S : \A w \in S : n <= w
  <2>1. S \in SUBSET Nat
    OBVIOUS
  <2> HIDE DEF S
  <2>2. QED BY <2>1, NatSetHasLeast
<1>2. n \in 0 .. m /\ n \in Nat /\ Total(s, n) # Total(t, n)
  OBVIOUS
<1>3. n # 0
  BY <1>2, TotalSteps
<1>4. /\ n \in 1 .. m /\ n - 1 \in 0 .. m /\ ~ (n <= n - 1) /\ n \in 1 .. Len(s)
      /\ n \in 1 .. Len(t)
  BY <1>2, <1>3
<1>5. n - 1 \notin S
  BY <1>1, <1>4
<1>6. Total(s, n - 1) = Total(t, n - 1)
  BY <1>4, <1>5
<1>7. s[n].length = t[n].length
  BY <1>4
<1>8. /\ Total(s, n) = Total(s, n - 1) + s[n].length
      /\ Total(t, n) = Total(t, n - 1) + t[n].length
  BY <1>4, TotalSteps
<1>9. QED BY <1>2, <1>6, <1>7, <1>8

\* Sequences one after the other.
LEMMA ConcatIs ==
  ASSUME NEW S, NEW s \in Seq(S), NEW t \in Seq(S)
  PROVE  /\ s \o t \in Seq(S) /\ Len(s \o t) = Len(s) + Len(t)
         /\ \A i \in 1 .. Len(s) : (s \o t)[i] = s[i]
         /\ \A i \in 1 .. Len(t) : (s \o t)[Len(s) + i] = t[i]
         /\ Len(s) \in Nat /\ Len(t) \in Nat
OBVIOUS

\* The totals of parts one after the other.
LEMMA ConcatTotals ==
  ASSUME NEW s \in Seq(Part), NEW t \in Seq(Part)
  PROVE  /\ \A n \in 0 .. Len(s) : Total(s \o t, n) = Total(s, n)
         /\ \A n \in 0 .. Len(t) : Total(s \o t, Len(s) + n) = Size(s) + Total(t, n)
<1> DEFINE u == s \o t
<1>0. /\ u \in Seq(Part) /\ Len(u) = Len(s) + Len(t)
      /\ \A i \in 1 .. Len(s) : u[i] = s[i]
      /\ \A i \in 1 .. Len(t) : u[Len(s) + i] = t[i]
      /\ Len(s) \in Nat /\ Len(t) \in Nat
  BY ConcatIs
<1> HIDE DEF u
<1>1. \A n \in 0 .. Len(s) : Total(u, n) = Total(s, n)
  <2> DEFINE m == Len(s)
  <2>0. m \in Nat /\ m <= Len(u) /\ m <= Len(s)
    BY <1>0
  <2>1. \A i \in 1 .. m : u[i].length = s[i].length
    <3>1. \A i \in 1 .. m : u[i] = s[i]
      BY <1>0
    <3>2. QED BY <3>1
  <2>2. u \in Seq(Part)
    BY <1>0
  <2> HIDE DEF m
  <2>3. \A n \in 0 .. m : Total(u, n) = Total(s, n)
    BY <2>0, <2>1, <2>2, SameTotals
  <2>4. QED BY <2>3 DEF m
<1> DEFINE S == {n \in 0 .. Len(t) : Total(u, Len(s) + n) # Size(s) + Total(t, n)}
<1>2. S = {}
  <2> SUFFICES ASSUME S # {} PROVE FALSE
    OBVIOUS
  <2>1. PICK n \in S : \A w \in S : n <= w
    <3>1. S \in SUBSET Nat
      BY <1>0
    <3> HIDE DEF S
    <3>2. QED BY <3>1, NatSetHasLeast
  <2>2. n \in 0 .. Len(t) /\ n \in Nat /\ Total(u, Len(s) + n) # Size(s) + Total(t, n)
    BY <1>0
  <2>3. Size(s) \in Nat
    BY SizeIsNat
  <2>4. n # 0
    <3>1. Total(u, Len(s) + 0) = Size(s)
      <4>1. Len(s) \in 0 .. Len(s) /\ Len(s) + 0 = Len(s)
        BY <1>0
      <4>2. QED BY <1>1, <4>1 DEF Size
    <3>2. Total(t, 0) = 0 /\ Size(s) + 0 = Size(s)
      BY <2>3, TotalSteps
    <3>3. QED BY <2>2, <3>1, <3>2
  <2>5. n \in 1 .. Len(t) /\ n - 1 \in 0 .. Len(t) /\ ~ (n <= n - 1)
    BY <1>0, <2>2, <2>4
  <2>6. n - 1 \notin S
    BY <2>1, <2>5
  <2>7. Total(u, Len(s) + (n - 1)) = Size(s) + Total(t, n - 1)
    BY <2>5, <2>6
  <2>8. /\ Len(s) + n \in 1 .. Len(u) /\ (Len(s) + n) - 1 = Len(s) + (n - 1)
        /\ u[Len(s) + n] = t[n]
    BY <1>0, <2>5
  <2> HIDE DEF S
  <2>9. Total(u, Len(s) + n) = Total(u, Len(s) + (n - 1)) + t[n].length
    BY <1>0, <2>8, TotalSteps
  <2>10. Total(t, n) = Total(t, n - 1) + t[n].length
    BY <2>5, TotalSteps
  <2>11. t[n].length \in Nat /\ Total(t, n - 1) \in Nat
    BY <2>5, PartIs, TotalTypes
  <2>12. QED BY <2>2, <2>3, <2>7, <2>9, <2>10, <2>11
<1>3. QED BY <1>1, <1>2 DEF u

\* Their sizes add up.
LEMMA ConcatSize ==
  ASSUME NEW s \in Seq(Part), NEW t \in Seq(Part)
  PROVE  Size(s \o t) = Size(s) + Size(t)
<1>1. Len(s \o t) = Len(s) + Len(t) /\ Len(t) \in 0 .. Len(t)
  BY ConcatIs
<1>2. QED BY <1>1, ConcatTotals DEF Size

\* The byte at a place of a part.
LEMMA BytesIs ==
  ASSUME NEW parts \in Seq(Part)
  PROVE  /\ Bytes(parts) \in Seq(Nat \X Nat) /\ Len(Bytes(parts)) = Size(parts)
         /\ \A j \in 1 .. Size(parts), n \in 1 .. Len(parts) :
              Total(parts, n - 1) < j /\ j <= Total(parts, n) =>
                Bytes(parts)[j] = Byte(parts[n], j - Total(parts, n - 1))
<1> DEFINE B(j) == Byte(parts[Reaches(parts, j)], j - Total(parts, Reaches(parts, j) - 1))
           size == Size(parts)
<1>1. Bytes(parts) = [j \in 1 .. size |-> B(j)]
  BY DEF Bytes
<1>2. size \in Nat
  BY SizeIsNat
<1>3. ASSUME NEW j \in 1 .. size PROVE B(j) \in Nat \X Nat
  <2> DEFINE r == Reaches(parts, j)
  <2>1. r \in 1 .. Len(parts) /\ Total(parts, r - 1) < j
    BY ReachesIs
  <2> HIDE DEF r
  <2>2. r - 1 \in 0 .. Len(parts)
    BY <2>1
  <2>3. Total(parts, r - 1) \in Nat /\ parts[r].block \in Nat /\ j \in Nat
    BY <1>2, <2>1, <2>2, PartIs, TotalTypes
  <2>4. j - Total(parts, r - 1) \in Nat
    BY <2>1, <2>3
  <2>5. Byte(parts[r], j - Total(parts, r - 1)) \in Nat \X Nat
    BY <2>3, <2>4 DEF Byte
  <2>6. QED BY <2>5 DEF r
<1>4. ASSUME NEW j \in 1 .. size, NEW n \in 1 .. Len(parts), Total(parts, n - 1) < j, j <= Total(parts, n)
      PROVE  B(j) = Byte(parts[n], j - Total(parts, n - 1))
  <2>1. n = Reaches(parts, j)
    BY <1>4, ReachesOnly
  <2>2. QED BY <2>1
<1> HIDE DEF B, size
<1>5. Bytes(parts) \in Seq(Nat \X Nat) /\ Len(Bytes(parts)) = size
  BY <1>1, <1>2, <1>3
<1>6. \A j \in 1 .. size : Bytes(parts)[j] = B(j)
  BY <1>1
<1>7. QED BY <1>4, <1>5, <1>6 DEF size

\* Bytes, as the model names them: a block and a place in it.
ByteType == Nat \X Nat

\* Appending parts appends their bytes.
LEMMA ConcatBytes ==
  ASSUME NEW s \in Seq(Part), NEW t \in Seq(Part)
  PROVE  Bytes(s \o t) = Bytes(s) \o Bytes(t)
<1> DEFINE u == s \o t
           b == Bytes(s) \o Bytes(t)
<1>1. /\ u \in Seq(Part) /\ Len(u) = Len(s) + Len(t)
      /\ \A i \in 1 .. Len(s) : u[i] = s[i]
      /\ \A i \in 1 .. Len(t) : u[Len(s) + i] = t[i]
      /\ Len(s) \in Nat /\ Len(t) \in Nat
  BY ConcatIs
<1>2. /\ \A n \in 0 .. Len(s) : Total(u, n) = Total(s, n)
      /\ \A n \in 0 .. Len(t) : Total(u, Len(s) + n) = Size(s) + Total(t, n)
      /\ Size(u) = Size(s) + Size(t)
  BY ConcatTotals, ConcatSize
<1>3. Size(s) \in Nat /\ Size(t) \in Nat
  BY SizeIsNat
<1>4. /\ Bytes(s) \in Seq(ByteType) /\ Len(Bytes(s)) = Size(s)
      /\ Bytes(t) \in Seq(ByteType) /\ Len(Bytes(t)) = Size(t)
  BY BytesIs DEF ByteType
<1>5. /\ b \in Seq(ByteType) /\ Len(b) = Size(s) + Size(t)
      /\ \A j \in 1 .. Size(s) : b[j] = Bytes(s)[j]
      /\ \A j \in 1 .. Size(t) : b[Size(s) + j] = Bytes(t)[j]
  <2> HIDE DEF u
  <2>1. /\ b \in Seq(ByteType) /\ Len(b) = Len(Bytes(s)) + Len(Bytes(t))
        /\ \A j \in 1 .. Len(Bytes(s)) : b[j] = Bytes(s)[j]
        /\ \A j \in 1 .. Len(Bytes(t)) : b[Len(Bytes(s)) + j] = Bytes(t)[j]
    <3> DEFINE x == Bytes(s)
               y == Bytes(t)
    <3>1. x \in Seq(ByteType) /\ y \in Seq(ByteType)
      BY <1>4
    <3> HIDE DEF x, y
    <3>2. /\ x \o y \in Seq(ByteType) /\ Len(x \o y) = Len(x) + Len(y)
          /\ \A j \in 1 .. Len(x) : (x \o y)[j] = x[j]
          /\ \A j \in 1 .. Len(y) : (x \o y)[Len(x) + j] = y[j]
      BY <3>1, ConcatIs
    <3>3. QED BY <3>2 DEF x, y
  <2> HIDE DEF b
  <2>2. QED BY <1>4, <2>1
<1> HIDE DEF u, b
<1>6. Bytes(u) \in Seq(ByteType) /\ Len(Bytes(u)) = Size(u)
  BY <1>1, BytesIs DEF ByteType
<1>7. ASSUME NEW j \in 1 .. Size(s) PROVE Bytes(u)[j] = b[j]
  <2> DEFINE r == Reaches(s, j)
  <2>1. r \in 1 .. Len(s) /\ Total(s, r - 1) < j /\ j <= Total(s, r)
    BY ReachesIs
  <2> HIDE DEF r
  <2>2. r - 1 \in 0 .. Len(s) /\ r \in 0 .. Len(s) /\ r \in 1 .. Len(u) /\ j \in 1 .. Size(u)
    BY <1>1, <1>2, <1>3, <2>1
  <2>3. Total(u, r - 1) = Total(s, r - 1) /\ Total(u, r) = Total(s, r) /\ u[r] = s[r]
    BY <1>1, <1>2, <2>1, <2>2
  <2>4. Bytes(u)[j] = Byte(u[r], j - Total(u, r - 1))
    BY <1>1, <2>1, <2>2, <2>3, BytesIs
  <2>5. Bytes(s)[j] = Byte(s[r], j - Total(s, r - 1))
    BY <2>1, BytesIs
  <2>6. QED BY <1>5, <2>3, <2>4, <2>5
<1>8. ASSUME NEW j \in 1 .. Size(t) PROVE Bytes(u)[Size(s) + j] = b[Size(s) + j]
  <2> DEFINE r == Reaches(t, j)
  <2>1. r \in 1 .. Len(t) /\ Total(t, r - 1) < j /\ j <= Total(t, r)
    BY ReachesIs
  <2> HIDE DEF r
  <2>2. /\ r - 1 \in 0 .. Len(t) /\ r \in 0 .. Len(t) /\ Len(s) + r \in 1 .. Len(u)
        /\ Size(s) + j \in 1 .. Size(u) /\ (Len(s) + r) - 1 = Len(s) + (r - 1) /\ j \in Nat
    BY <1>1, <1>2, <1>3, <2>1
  <2>3. Total(t, r) \in Nat /\ Total(t, r - 1) \in Nat
    BY <2>2, TotalTypes
  <2>4. /\ Total(u, (Len(s) + r) - 1) = Size(s) + Total(t, r - 1)
        /\ Total(u, Len(s) + r) = Size(s) + Total(t, r)
        /\ u[Len(s) + r] = t[r]
    BY <1>1, <1>2, <2>1, <2>2
  <2>5. /\ Total(u, (Len(s) + r) - 1) < Size(s) + j /\ Size(s) + j <= Total(u, Len(s) + r)
        /\ (Size(s) + j) - Total(u, (Len(s) + r) - 1) = j - Total(t, r - 1)
    <3> DEFINE x == Total(u, (Len(s) + r) - 1)
               y == Total(u, Len(s) + r)
               v == Total(t, r - 1)
               w == Total(t, r)
    <3>1. /\ x = Size(s) + v /\ y = Size(s) + w /\ v < j /\ j <= w
          /\ v \in Nat /\ w \in Nat /\ j \in Nat /\ Size(s) \in Nat
      BY <1>3, <2>1, <2>2, <2>3, <2>4
    <3> HIDE DEF x, y, v, w
    <3>2. x < Size(s) + j /\ Size(s) + j <= y /\ (Size(s) + j) - x = j - v
      BY <3>1
    <3>3. QED BY <3>2 DEF x, y, v, w
  <2>6. Bytes(u)[Size(s) + j] = Byte(u[Len(s) + r], (Size(s) + j) - Total(u, (Len(s) + r) - 1))
    BY <1>1, <2>2, <2>5, BytesIs
  <2>7. Bytes(t)[j] = Byte(t[r], j - Total(t, r - 1))
    BY <2>1, BytesIs
  <2>8. QED BY <1>5, <2>4, <2>5, <2>6, <2>7
<1>9. ASSUME NEW j \in 1 .. Len(b) PROVE Bytes(u)[j] = b[j]
  <2>1. CASE j \in 1 .. Size(s)
    BY <1>7, <2>1
  <2>2. CASE j \notin 1 .. Size(s)
    <3>1. j - Size(s) \in 1 .. Size(t) /\ Size(s) + (j - Size(s)) = j
      BY <1>3, <1>5, <2>2
    <3>2. QED BY <1>8, <3>1
  <2>3. QED BY <2>1, <2>2
<1>10. Bytes(u) = b
  <2>1. Len(Bytes(u)) = Len(b)
    BY <1>2, <1>5, <1>6
  <2>2. QED BY <1>5, <1>6, <1>9, <2>1, SeqEqual
<1>11. QED BY <1>10 DEF u, b

\* The first n of the bytes, with zeros after the last.
First(bytes, n) == [i \in 1 .. n |-> IF i <= Len(bytes) THEN bytes[i] ELSE <<0, 0>>]

\* There are n of them.
LEMMA FirstIs ==
  ASSUME NEW bytes \in Seq(ByteType), NEW n \in Nat
  PROVE  /\ First(bytes, n) \in Seq(ByteType) /\ Len(First(bytes, n)) = n
         /\ \A i \in 1 .. n : First(bytes, n)[i] = IF i <= Len(bytes) THEN bytes[i] ELSE <<0, 0>>
<1>1. ASSUME NEW i \in 1 .. n
      PROVE  (IF i <= Len(bytes) THEN bytes[i] ELSE <<0, 0>>) \in ByteType
  <2>1. CASE i <= Len(bytes)
    <3>1. i \in 1 .. Len(bytes)
      BY <2>1
    <3>2. bytes[i] \in ByteType
      BY <3>1
    <3>3. QED BY <2>1, <3>2
  <2>2. CASE ~ (i <= Len(bytes))
    BY <2>2 DEF ByteType
  <2>3. QED BY <2>1, <2>2
<1>2. QED BY <1>1 DEF First

\* A part without a block is zeros.
LEMMA ZerosAreBytes ==
  ASSUME NEW n \in Nat
  PROVE  /\ Zeros(n) \in Part /\ <<Zeros(n)>> \in Seq(Part) /\ Size(<<Zeros(n)>>) = n
         /\ \A j \in 1 .. n : Bytes(<<Zeros(n)>>)[j] = <<0, 0>>
<1> DEFINE s == <<Zeros(n)>>
<1>1. Zeros(n) \in Part /\ Zeros(n).length = n /\ Zeros(n).block = 0
  BY DEF Zeros, Part
<1>2. s \in Seq(Part) /\ Len(s) = 1 /\ s[1] = Zeros(n)
  BY <1>1
<1> HIDE DEF s
<1>3. Total(s, 0) = 0 /\ Total(s, 1) = n
  <2>1. 1 \in 1 .. Len(s) /\ 1 - 1 = 0
    BY <1>2
  <2>2. Total(s, 1) = Total(s, 0) + n /\ Total(s, 0) = 0
    BY <1>1, <1>2, <2>1, TotalSteps
  <2>3. QED BY <2>2
<1>4. Size(s) = n
  BY <1>2, <1>3 DEF Size
<1>5. ASSUME NEW j \in 1 .. n PROVE Bytes(s)[j] = <<0, 0>>
  <2>1. 1 \in 1 .. Len(s) /\ Total(s, 1 - 1) < j /\ j <= Total(s, 1)
    BY <1>2, <1>3
  <2>2. Bytes(s)[j] = Byte(s[1], j - Total(s, 1 - 1))
    BY <1>2, <1>4, <2>1, BytesIs
  <2>3. QED BY <1>1, <1>2, <2>2 DEF Byte
<1>6. QED BY <1>1, <1>2, <1>4, <1>5 DEF s

\* A longer file has zeros after its last byte.
LEMMA ExtendedBytes ==
  ASSUME NEW parts \in Seq(Part), NEW size \in Nat, Size(parts) < size
  PROVE  /\ Append(parts, Zeros(size - Size(parts))) \in Seq(Part)
         /\ Bytes(Append(parts, Zeros(size - Size(parts)))) = First(Bytes(parts), size)
<1> DEFINE k == size - Size(parts)
           z == <<Zeros(k)>>
           b == Bytes(parts) \o Bytes(z)
           f == First(Bytes(parts), size)
<1>1. k \in Nat /\ Size(parts) + k = size /\ Size(parts) \in Nat
  BY SizeIsNat
<1> HIDE DEF k
<1>2. Zeros(k) \in Part /\ z \in Seq(Part) /\ Size(z) = k /\ \A j \in 1 .. k : Bytes(z)[j] = <<0, 0>>
  BY <1>1, ZerosAreBytes
<1>3. Append(parts, Zeros(k)) = parts \o z
  BY <1>2
<1>3a. Append(parts, Zeros(k)) \in Seq(Part)
  BY <1>2
<1> HIDE DEF z
<1>4. Bytes(parts \o z) = b
  BY <1>2, ConcatBytes
<1>5. /\ Bytes(parts) \in Seq(ByteType) /\ Len(Bytes(parts)) = Size(parts)
      /\ Bytes(z) \in Seq(ByteType) /\ Len(Bytes(z)) = k
  BY <1>2, BytesIs DEF ByteType
<1>6. /\ b \in Seq(ByteType) /\ Len(b) = size
      /\ \A j \in 1 .. Size(parts) : b[j] = Bytes(parts)[j]
      /\ \A j \in 1 .. k : b[Size(parts) + j] = Bytes(z)[j]
  BY <1>1, <1>5
<1>7. /\ f \in Seq(ByteType) /\ Len(f) = size
      /\ \A i \in 1 .. size : f[i] = IF i <= Size(parts) THEN Bytes(parts)[i] ELSE <<0, 0>>
  BY <1>5, FirstIs
<1> HIDE DEF b, f
<1>8. ASSUME NEW j \in 1 .. Len(b) PROVE b[j] = f[j]
  <2>1. CASE j <= Size(parts)
    BY <1>1, <1>6, <1>7, <2>1
  <2>2. CASE ~ (j <= Size(parts))
    <3>1. j - Size(parts) \in 1 .. k /\ Size(parts) + (j - Size(parts)) = j
      BY <1>1, <1>6, <2>2
    <3>2. b[j] = <<0, 0>>
      BY <1>2, <1>6, <3>1
    <3>3. QED BY <1>6, <1>7, <2>2, <3>2
  <2>3. QED BY <2>1, <2>2
<1>9. b = f
  BY <1>6, <1>7, <1>8, SeqEqual
<1>10. QED BY <1>3, <1>3a, <1>4, <1>9 DEF k, f

\* The parts that Truncate leaves.
LEMMA TruncateIs ==
  ASSUME NEW parts \in Seq(Part), NEW size \in 1 .. Size(parts)
  PROVE  LET n == Reaches(parts, size)
             t == Truncate(parts, size)
         IN  /\ n \in 1 .. Len(parts) /\ t \in Seq(Part) /\ Len(t) = n
             /\ \A i \in 1 .. n : t[i].block = parts[i].block
             /\ \A i \in 1 .. (n - 1) : t[i] = parts[i]
             /\ t[n].length = size - Total(parts, n - 1)
             /\ Total(parts, n - 1) < size /\ size <= Total(parts, n)
<1> DEFINE n == Reaches(parts, size)
           p == SubSeq(parts, 1, n)
           t == Truncate(parts, size)
           cut == Total(parts, n) - size
<1>1. n \in 1 .. Len(parts) /\ Total(parts, n - 1) < size /\ size <= Total(parts, n)
  BY ReachesIs
<1>2. t = [p EXCEPT ![n].length = @ - cut]
  BY DEF Truncate
<1> HIDE DEF n
<1>3. /\ n - 1 \in 0 .. Len(parts) /\ n \in 0 .. Len(parts) /\ n \in Nat
      /\ Len(parts) \in Nat /\ n <= Len(parts) /\ 1 <= n
  BY <1>1
<1>4. /\ Total(parts, n - 1) \in Nat /\ Total(parts, n) \in Nat /\ size \in Nat
      /\ Total(parts, n) = Total(parts, n - 1) + parts[n].length
      /\ parts[n].length \in Nat /\ parts[n].block \in Nat /\ parts[n] \in Part
  BY <1>1, <1>3, SizeIsNat, TotalTypes, TotalSteps, PartIs
<1>5. parts[n].length - cut = size - Total(parts, n - 1) /\ parts[n].length - cut \in Nat
  BY <1>1, <1>4
<1>6. p \in Seq(Part) /\ Len(p) = n /\ \A i \in 1 .. n : p[i] = parts[i]
  BY <1>3
<1> HIDE DEF cut, p, t
<1> DEFINE e == [p[n] EXCEPT !.length = @ - cut]
<1>7. p[n] = parts[n] /\ n \in 1 .. n
  BY <1>3, <1>6
<1>8. e \in Part /\ e.length = parts[n].length - cut /\ e.block = parts[n].block
  BY <1>4, <1>5, <1>7 DEF Part
<1>9. t = [p EXCEPT ![n] = e]
  BY <1>2
<1> HIDE DEF e
<1>10. t \in Seq(Part) /\ Len(t) = n /\ \A i \in 1 .. n : t[i] = IF i = n THEN e ELSE p[i]
  <2>2. DOMAIN p = 1 .. n /\ p \in [1 .. n -> Part]
    BY <1>3, <1>6
  <2>1. t \in Seq(Part) /\ Len(t) = n
    <3>1. t \in [1 .. n -> Part]
      BY <1>8, <1>9, <2>2
    <3>2. QED BY <1>3, <3>1
  <2>3. \A i \in 1 .. n : t[i] = IF i = n THEN e ELSE p[i]
    BY <1>9, <2>2
  <2>4. QED BY <2>1, <2>3
<1>11. \A i \in 1 .. n : t[i].block = parts[i].block
  BY <1>6, <1>8, <1>10
<1>12. \A i \in 1 .. (n - 1) : t[i] = parts[i]
  <2> TAKE i \in 1 .. (n - 1)
  <2>1. i \in 1 .. n /\ i # n
    BY <1>3
  <2>2. QED BY <1>6, <1>10, <2>1
<1>13. t[n].length = size - Total(parts, n - 1)
  BY <1>5, <1>7, <1>8, <1>10
<1>14. QED BY <1>1, <1>10, <1>11, <1>12, <1>13 DEF n, t

\* A shorter file has the first bytes of what it was.
LEMMA TruncatedBytes ==
  ASSUME NEW parts \in Seq(Part), NEW size \in 1 .. Size(parts)
  PROVE  Bytes(Truncate(parts, size)) = First(Bytes(parts), size)
<1> DEFINE n == Reaches(parts, size)
           t == Truncate(parts, size)
           f == First(Bytes(parts), size)
<1>1. /\ n \in 1 .. Len(parts) /\ t \in Seq(Part) /\ Len(t) = n
      /\ \A i \in 1 .. n : t[i].block = parts[i].block
      /\ \A i \in 1 .. (n - 1) : t[i] = parts[i]
      /\ t[n].length = size - Total(parts, n - 1)
      /\ Total(parts, n - 1) < size /\ size <= Total(parts, n)
  BY TruncateIs
<1> HIDE DEF n, t
<1>2. /\ n \in Nat /\ n - 1 \in Nat /\ n - 1 \in 0 .. Len(parts) /\ n \in 0 .. Len(parts)
      /\ n - 1 <= Len(parts) /\ n - 1 <= Len(t) /\ Len(parts) \in Nat
      /\ n \in 1 .. Len(t) /\ n - 1 \in 0 .. Len(t)
  BY <1>1
<1>3. size \in Nat /\ Size(parts) \in Nat /\ size <= Size(parts)
  BY SizeIsNat
<1>4. Total(parts, n - 1) \in Nat /\ Total(parts, n) \in Nat
  BY <1>2, TotalTypes
<1>5. \A i \in 0 .. (n - 1) : Total(t, i) = Total(parts, i)
  <2> DEFINE m == n - 1
  <2>1. m \in Nat /\ m <= Len(parts) /\ m <= Len(t) /\ \A i \in 1 .. m : t[i].length = parts[i].length
    BY <1>1, <1>2
  <2>2. t \in Seq(Part)
    BY <1>1
  <2> HIDE DEF m
  <2>3. \A i \in 0 .. m : Total(t, i) = Total(parts, i)
    BY <2>1, <2>2, SameTotals
  <2>4. QED BY <2>3 DEF m
<1>6. Total(t, n) = size
  <2>1. Total(t, n) = Total(t, n - 1) + t[n].length
    BY <1>1, <1>2, TotalSteps
  <2>2. n - 1 \in 0 .. (n - 1)
    BY <1>2
  <2>3. QED BY <1>1, <1>3, <1>4, <1>5, <2>1, <2>2
<1>7. Size(t) = size
  BY <1>1, <1>6 DEF Size
<1>8. /\ Bytes(t) \in Seq(ByteType) /\ Len(Bytes(t)) = size
      /\ Bytes(parts) \in Seq(ByteType) /\ Len(Bytes(parts)) = Size(parts)
  BY <1>1, <1>7, BytesIs DEF ByteType
<1>9. /\ f \in Seq(ByteType) /\ Len(f) = size
      /\ \A i \in 1 .. size : f[i] = Bytes(parts)[i]
  <2>1. /\ f \in Seq(ByteType) /\ Len(f) = size
        /\ \A i \in 1 .. size : f[i] = IF i <= Size(parts) THEN Bytes(parts)[i] ELSE <<0, 0>>
    BY <1>3, <1>8, FirstIs
  <2> HIDE DEF f
  <2>2. \A i \in 1 .. size : i <= Size(parts)
    BY <1>3
  <2>3. QED BY <2>1, <2>2
<1> HIDE DEF f
<1>10. ASSUME NEW j \in 1 .. size PROVE Bytes(t)[j] = Bytes(parts)[j]
  <2>0. j \in 1 .. Size(parts) /\ j \in 1 .. Size(t) /\ j \in Nat /\ j <= size
    BY <1>3, <1>7
  <2>1. CASE j <= Total(parts, n - 1)
    <3> DEFINE r == Reaches(parts, j)
    <3>1. r \in 1 .. Len(parts) /\ Total(parts, r - 1) < j /\ j <= Total(parts, r)
      BY <2>0, ReachesIs
    <3> HIDE DEF r
    <3>2. r - 1 \in 0 .. Len(parts)
      BY <3>1
    <3>3. r <= n - 1
      <4>1. SUFFICES ASSUME ~ (r <= n - 1) PROVE FALSE
        OBVIOUS
      <4>2. r - 1 \in (n - 1) .. Len(parts)
        BY <1>2, <3>1, <4>1
      <4>3. Total(parts, n - 1) <= Total(parts, r - 1) /\ Total(parts, r - 1) \in Nat
        BY <1>2, <3>2, <4>2, TotalsGrow, TotalTypes
      <4>4. QED BY <1>4, <2>0, <2>1, <3>1, <4>3
    <3>4. /\ r \in 1 .. (n - 1) /\ r \in 0 .. (n - 1) /\ r - 1 \in 0 .. (n - 1) /\ r \in 1 .. Len(t)
      BY <1>1, <1>2, <3>1, <3>3
    <3>5. /\ Total(t, r) = Total(parts, r) /\ Total(t, r - 1) = Total(parts, r - 1)
          /\ t[r] = parts[r]
      BY <1>1, <1>5, <3>4
    <3>6. Bytes(t)[j] = Byte(t[r], j - Total(t, r - 1))
      BY <1>1, <2>0, <3>1, <3>4, <3>5, BytesIs
    <3>7. Bytes(parts)[j] = Byte(parts[r], j - Total(parts, r - 1))
      BY <2>0, <3>1, BytesIs
    <3>8. QED BY <3>5, <3>6, <3>7
  <2>2. CASE ~ (j <= Total(parts, n - 1))
    <3>1. Total(parts, n - 1) < j /\ j <= Total(parts, n) /\ j <= Total(t, n)
      BY <1>1, <1>3, <1>4, <1>6, <2>0, <2>2
    <3>2. Total(t, n - 1) = Total(parts, n - 1)
      <4>1. n - 1 \in 0 .. (n - 1)
        BY <1>2
      <4>2. QED BY <1>5, <4>1
    <3>3. Bytes(t)[j] = Byte(t[n], j - Total(t, n - 1))
      BY <1>1, <1>2, <2>0, <3>1, <3>2, BytesIs
    <3>4. Bytes(parts)[j] = Byte(parts[n], j - Total(parts, n - 1))
      BY <1>1, <2>0, <3>1, BytesIs
    <3>5. t[n].block = parts[n].block
      BY <1>1, <1>2
    <3>6. QED BY <3>2, <3>3, <3>4, <3>5 DEF Byte
  <2>3. QED BY <2>1, <2>2
<1>11. Bytes(t) = f
  BY <1>8, <1>9, <1>10, SeqEqual
<1>12. QED BY <1>11 DEF t, f

\* RESIZE to something leaves the first bytes of the file, either way.
LEMMA ResizedBytes ==
  ASSUME NEW parts \in Seq(Part), NEW size \in Nat, size # 0
  PROVE  /\ ResizedParts(parts, size) \in Seq(Part)
         /\ Bytes(ResizedParts(parts, size)) = First(Bytes(parts), size)
<1>1. CASE Size(parts) < size
  BY <1>1, ExtendedBytes DEF ResizedParts
<1>2. CASE ~ (Size(parts) < size)
  <2>1. size \in 1 .. Size(parts)
    BY <1>2, SizeIsNat
  <2>2. Truncate(parts, size) \in Seq(Part)
    BY <2>1, TruncateIs
  <2>3. QED BY <1>2, <2>1, <2>2, TruncatedBytes DEF ResizedParts
<1>3. QED BY <1>1, <1>2

----------------------------------------------------------------------------
(***************************************************************************)
(* Every action leaves a good store.                                       *)
(***************************************************************************)
\* A function, and nothing but one.
IsFunction(s) == s = [p \in DOMAIN s |-> s[p]]

\* What every store is, whatever the clients do: entries at paths, no name
\* listed twice, and a root directory.
Good(s) ==
  /\ IsFunction(s)
  /\ \A p \in DOMAIN s : p \in Path /\ s[p] \in Entry /\ IsInjective(s[p].contents)
  /\ Root \in DOMAIN s /\ s[Root].type = "DIR"

\* The names that the entry at p lists.
Names(s, p) == ToSet(s[p].contents)

\* What it is when clients are careful: entries and names are one tree, and
\* files list no names.
Shape(s) ==
  /\ \A p \in DOMAIN s \ {Root} : ParentDir(p) \in DOMAIN s /\ FileName(p) \in Names(s, ParentDir(p))
  /\ \A p \in DOMAIN s : \A name \in Names(s, p) : Append(p, name) \in DOMAIN s
  /\ \A p \in DOMAIN s : s[p].type = "DATA" => s[p].contents = << >>

\* The list of no names.
LEMMA NoNames == ToSet(<< >>) = {} /\ << >> \in Seq(STRING) /\ << >> \in Seq(Part) /\ IsInjective(<< >>)
<1>1. \A s : s = << >> => DOMAIN s = {}
  OBVIOUS
<1>2. QED BY <1>1 DEF ToSet, IsInjective

\* A list without a name is empty.
LEMMA SomeNames == ASSUME NEW s \in Seq(STRING), ToSet(s) = {} PROVE s = << >>
<1>1. Len(s) \in Nat /\ \A i \in 1 .. Len(s) : s[i] \in ToSet(s)
  BY DEF ToSet
<1>2. Len(s) = 0
  <2>1. ~ (1 \in 1 .. Len(s))
    BY <1>1
  <2>2. QED BY <1>1, <2>1
<1>3. QED BY <1>2

\* No path is its own directory.
LEMMA ParentIsOther == ASSUME NEW p \in Path \ {Root} PROVE ParentDir(p) # p
<1>1. Len(ParentDir(p)) = Len(p) - 1 /\ Len(p) \in Nat
  BY SplitPath DEF Path
<1>2. QED BY <1>1

\* Adding an entry, and taking one out.
LEMMA WithIs ==
  ASSUME NEW s, NEW p, NEW e
  PROVE  /\ DOMAIN With(s, p, e) = DOMAIN s \cup {p}
         /\ With(s, p, e)[p] = e
         /\ \A q \in DOMAIN s : q # p => With(s, p, e)[q] = s[q]
         /\ IsFunction(With(s, p, e))
BY DEF With, IsFunction

LEMMA WithoutIs ==
  ASSUME NEW s, NEW p
  PROVE  /\ DOMAIN Without(s, p) = DOMAIN s \ {p}
         /\ \A q \in DOMAIN s : q # p => Without(s, p)[q] = s[q]
         /\ IsFunction(Without(s, p))
BY DEF Without, IsFunction

\* Both keep a store good, if the root stays a directory.
LEMMA WithIsGood ==
  ASSUME NEW s, Good(s), NEW p \in Path, NEW e \in Entry, IsInjective(e.contents),
         p = Root => e.type = "DIR"
  PROVE  Good(With(s, p, e))
<1> DEFINE t == With(s, p, e)
<1>1. /\ DOMAIN t = DOMAIN s \cup {p} /\ t[p] = e /\ \A q \in DOMAIN s : q # p => t[q] = s[q]
      /\ IsFunction(t)
  <2>1. DOMAIN t = DOMAIN s \cup {p}
    BY WithIs
  <2>2. t[p] = e
    BY DEF With
  <2>3. IsFunction(t)
    BY WithIs
  <2>4. \A q \in DOMAIN s : q # p => t[q] = s[q]
    BY DEF With
  <2> HIDE DEF t
  <2>5. QED BY <2>1, <2>2, <2>3, <2>4
<1> HIDE DEF t
<1>2. Good(t)
  BY <1>1 DEF Good
<1>3. QED BY <1>2 DEF t

LEMMA WithoutIsGood ==
  ASSUME NEW s, Good(s), NEW p, p # Root
  PROVE  Good(Without(s, p))
<1> DEFINE t == Without(s, p)
<1>1. /\ DOMAIN t = DOMAIN s \ {p} /\ \A q \in DOMAIN s : q # p => t[q] = s[q]
      /\ IsFunction(t)
  BY WithoutIs
<1> HIDE DEF t
<1>2. Good(t)
  BY <1>1 DEF Good
<1>3. QED BY <1>2 DEF t

\* A new entry is empty.
LEMMA NewEntryIs ==
  ASSUME NEW type \in {"DATA", "DIR"}
  PROVE  /\ NewEntry(type) \in Entry /\ NewEntry(type).type = type
         /\ NewEntry(type).contents = << >> /\ NewEntry(type).parts = << >>
BY NoNames DEF NewEntry, Entry

\* The directory of a path that is linked.
LEMMA AddIsGood ==
  ASSUME Good(store), NEW p \in Path \ {Root}, CanLink(p)
  PROVE  /\ AddName(store[ParentDir(p)], FileName(p)) \in Entry
         /\ AddName(store[ParentDir(p)], FileName(p)).type = store[ParentDir(p)].type
         /\ AddName(store[ParentDir(p)], FileName(p)).parts = store[ParentDir(p)].parts
         /\ IsInjective(AddName(store[ParentDir(p)], FileName(p)).contents)
         /\ ToSet(AddName(store[ParentDir(p)], FileName(p)).contents) = Names(store, ParentDir(p)) \cup {FileName(p)}
<1>1. ParentDir(p) \in Path /\ FileName(p) \in STRING
  BY SplitPath
<1>2. store[ParentDir(p)] \in Entry /\ IsInjective(store[ParentDir(p)].contents)
  BY DEF CanLink, Good, Has
<1>3. store[ParentDir(p)].contents \in Seq(STRING)
  BY <1>2 DEF Entry
<1>4. FileName(p) \notin ToSet(store[ParentDir(p)].contents)
  BY <1>3, ListsNames DEF CanLink, Listed
<1>5. QED BY <1>1, <1>2, <1>3, <1>4, AddedName, AppendNames DEF Names

\* The directory of a path that is unlinked.
LEMMA RemoveIsGood ==
  ASSUME Good(store), NEW p \in Path \ {Root}, Has(ParentDir(p)), Listed(p)
  PROVE  /\ RemoveName(store[ParentDir(p)], FileName(p)) \in Entry
         /\ RemoveName(store[ParentDir(p)], FileName(p)).type = store[ParentDir(p)].type
         /\ RemoveName(store[ParentDir(p)], FileName(p)).parts = store[ParentDir(p)].parts
         /\ IsInjective(RemoveName(store[ParentDir(p)], FileName(p)).contents)
         /\ ToSet(RemoveName(store[ParentDir(p)], FileName(p)).contents) = Names(store, ParentDir(p)) \ {FileName(p)}
<1> DEFINE e == store[ParentDir(p)]
           n == FileName(p)
<1>2. e \in Entry /\ IsInjective(e.contents)
  BY DEF Good, Has
<1> HIDE DEF e, n
<1>3. e.contents \in Seq(STRING)
  BY <1>2 DEF Entry
<1>4. n \in ToSet(e.contents)
  BY <1>3, ListsNames DEF Listed, e, n
<1>5. /\ RemoveName(e, n) \in Entry
      /\ RemoveName(e, n).type = e.type
      /\ RemoveName(e, n).parts = e.parts
      /\ RemoveName(e, n).contents = NamesWithout(e.contents, n)
  BY <1>2, <1>4, RemoveNameIs
<1>6. /\ ToSet(NamesWithout(e.contents, n)) = ToSet(e.contents) \ {n}
      /\ IsInjective(NamesWithout(e.contents, n))
  BY <1>2, <1>3, <1>4, RemovedName
<1>7. QED BY <1>5, <1>6 DEF Names, e, n

\* Every operation leaves a good store.
LEMMA LinkedIsGood ==
  ASSUME Good(store), NEW p \in Path \ {Root}, CanLink(p), NEW e \in Entry, IsInjective(e.contents)
  PROVE  Good(Linked(store, p, e))
<1> DEFINE par == ParentDir(p)
           d == AddName(store[par], FileName(p))
<1>1. par \in Path
  BY SplitPath
<1>2. d \in Entry /\ IsInjective(d.contents) /\ d.type = store[par].type
  BY AddIsGood
<1>3. store[Root].type = "DIR"
  BY DEF Good
<1> HIDE DEF par, d
<1>4. Good(With(store, par, d))
  BY <1>1, <1>2, <1>3, WithIsGood
<1>5. Good(With(With(store, par, d), p, e))
  <2> DEFINE s == With(store, par, d)
  <2>1. Good(s)
    BY <1>4
  <2> HIDE DEF s
  <2>2. Good(With(s, p, e))
    BY <2>1, WithIsGood
  <2>3. QED BY <2>2 DEF s
<1>6. QED BY <1>5 DEF Linked, par, d

LEMMA UnlinkedIsGood ==
  ASSUME Good(store), NEW s, Good(s), NEW p \in Path \ {Root}, Has(ParentDir(p))
  PROVE  Good(Unlinked(s, p))
<1>1. CASE ~ Listed(p)
  BY <1>1 DEF Unlinked
<1>2. CASE Listed(p)
  <2> DEFINE par == ParentDir(p)
             d == RemoveName(store[par], FileName(p))
  <2>1. par \in Path
    BY SplitPath
  <2>2. d \in Entry /\ IsInjective(d.contents) /\ d.type = store[par].type
    BY <1>2, RemoveIsGood
  <2>3. store[Root].type = "DIR"
    BY DEF Good
  <2> HIDE DEF par, d
  <2>4. Good(With(s, par, d))
    BY <2>1, <2>2, <2>3, WithIsGood
  <2>5. QED BY <1>2, <2>4 DEF Unlinked, par, d
<1>3. QED BY <1>1, <1>2

\* Setting the parts of an entry.
LEMMA EntryParts ==
  ASSUME NEW e \in Entry, NEW parts \in Seq(Part)
  PROVE  /\ [e EXCEPT !.parts = parts] \in Entry
         /\ [e EXCEPT !.parts = parts].type = e.type
         /\ [e EXCEPT !.parts = parts].contents = e.contents
         /\ [e EXCEPT !.parts = parts].parts = parts
BY DEF Entry

\* What an action installs is good, and it answers with a truth value.
LEMMA DoneIsGood ==
  ASSUME Good(store), NEW a \in Inputs
  PROVE  Good(Install(Done(a))) /\ Done(a).success \in BOOLEAN
<1>0. StoreIsFunction
  BY DEF Good, StoreIsFunction, IsFunction
<1>1. a.path \in Path
  BY InputTypes
<1>2. CASE a.type = "CREATE_FILE"
  <2>1. CASE CanLink(a.path)
    <3>1. Succeeds(a, Linked(store, a.path, NewEntry(a.kind)))
      BY <1>0, <1>2, <2>1, CreateFileDoes
    <3>2. a.path \in Path \ {Root} /\ a.kind \in {"DATA", "DIR"}
      BY <1>2, InputTypes
    <3>3. NewEntry(a.kind) \in Entry /\ IsInjective(NewEntry(a.kind).contents)
      BY <3>2, NewEntryIs, NoNames
    <3>4. QED BY <2>1, <3>1, <3>2, <3>3, LinkedIsGood DEF Succeeds
  <2>2. CASE ~ CanLink(a.path)
    BY <1>0, <1>2, <2>2, CreateFileDoes DEF Fails
  <2>3. QED BY <2>1, <2>2
<1>3. CASE a.type = "ERASE"
  <2>1. CASE CanErase(a.path)
    <3>1. Succeeds(a, Unlinked(Without(store, a.path), a.path))
      BY <1>0, <1>3, <2>1, EraseDoes
    <3>2. a.path \in Path \ {Root} /\ a.path # Root
      BY <1>3, InputTypes
    <3>3. Good(Without(store, a.path))
      BY <3>2, WithoutIsGood
    <3>4. Has(ParentDir(a.path))
      BY <2>1 DEF CanErase
    <3>5. QED BY <3>1, <3>2, <3>3, <3>4, UnlinkedIsGood DEF Succeeds
  <2>2. CASE ~ CanErase(a.path)
    BY <1>0, <1>3, <2>2, EraseDoes DEF Fails
  <2>3. QED BY <2>1, <2>2
<1>4. CASE a.type = "COPY"
  <2>1. CASE Has(a.path) /\ CanLink(a.to)
    <3>1. Succeeds(a, Linked(store, a.to, store[a.path]))
      BY <1>0, <1>4, <2>1, CopyDoes
    <3>2. a.to \in Path \ {Root}
      BY <1>4, InputTypes
    <3>3. store[a.path] \in Entry /\ IsInjective(store[a.path].contents)
      BY <2>1 DEF Good, Has
    <3>4. QED BY <2>1, <3>1, <3>2, <3>3, LinkedIsGood DEF Succeeds
  <2>2. CASE ~ (Has(a.path) /\ CanLink(a.to))
    BY <1>0, <1>4, <2>2, CopyDoes DEF Fails
  <2>3. QED BY <2>1, <2>2
<1>5. CASE a.type = "RENAME"
  <2>1. CASE CanRename(a)
    <3>1. Succeeds(a, Renamed(a))
      BY <1>0, <1>5, <2>1, RenameDoes
    <3>2. a.to \in Path \ {Root} /\ a.path \in Path \ {Root} /\ a.path # Root
      BY <1>5, InputTypes
    <3>3. store[a.path] \in Entry /\ IsInjective(store[a.path].contents)
      BY <2>1 DEF CanRename, Good, Has
    <3>4. Good(Linked(store, a.to, store[a.path]))
      BY <2>1, <3>2, <3>3, LinkedIsGood DEF CanRename
    <3>5. Good(Unlinked(Linked(store, a.to, store[a.path]), a.path))
      BY <2>1, <3>2, <3>4, UnlinkedIsGood DEF CanRename
    <3>6. QED BY <3>1, <3>2, <3>5, WithoutIsGood DEF Succeeds, Renamed
  <2>2. CASE ~ CanRename(a)
    BY <1>0, <1>5, <2>2, RenameDoes DEF Fails
  <2>3. QED BY <2>1, <2>2
<1>6. ASSUME HasData(a.path), NEW parts \in Seq(Part)
      PROVE  Good(With(store, a.path, [store[a.path] EXCEPT !.parts = parts]))
  <2> DEFINE old == store[a.path]
             e == [old EXCEPT !.parts = parts]
  <2>1. old \in Entry /\ IsInjective(old.contents) /\ (a.path = Root => old.type = "DIR")
    BY <1>6 DEF HasData, Good, Has
  <2> HIDE DEF old
  <2>2. e \in Entry /\ e.type = old.type /\ e.contents = old.contents
    BY <2>1, EntryParts
  <2> HIDE DEF e
  <2>3. Good(With(store, a.path, e))
    BY <1>1, <2>1, <2>2, WithIsGood
  <2>4. QED BY <2>3 DEF e, old
<1>7. CASE a.type = "RESIZE"
  <2>1. CASE HasData(a.path) /\ a.size # 0
    <3> DEFINE parts == ResizedParts(store[a.path].parts, a.size)
    <3>1. Succeeds(a, With(store, a.path, [store[a.path] EXCEPT !.parts = parts]))
      BY <1>0, <1>7, <2>1, ResizeDoes
    <3>2. parts \in Seq(Part)
      <4>1. a.size \in Nat /\ store[a.path].parts \in Seq(Part)
        BY <1>7, <2>1, InputTypes DEF HasData, Has, Good, Entry
      <4>2. QED BY <2>1, <4>1, ResizedBytes
    <3> HIDE DEF parts
    <3>3. QED BY <1>6, <2>1, <3>1, <3>2 DEF Succeeds
  <2>2. CASE HasData(a.path) /\ a.size = 0
    <3>1. Succeeds(a, store)
      BY <1>0, <1>7, <2>2, ResizeDoes
    <3>2. QED BY <3>1 DEF Succeeds
  <2>3. CASE ~ HasData(a.path)
    BY <1>0, <1>7, <2>3, ResizeDoes DEF Fails
  <2>4. QED BY <2>1, <2>2, <2>3
<1>8. CASE a.type = "APPEND"
  <2>1. CASE HasData(a.path)
    <3> DEFINE parts == store[a.path].parts \o a.data
    <3>1. Succeeds(a, With(store, a.path, [store[a.path] EXCEPT !.parts = parts]))
      BY <1>0, <1>8, <2>1, AppendDoes
    <3>2. parts \in Seq(Part)
      <4>1. a.data \in Seq(Part) /\ store[a.path].parts \in Seq(Part)
        BY <1>8, <2>1, InputTypes DEF HasData, Has, Good, Entry
      <4>2. QED BY <4>1, ConcatIs
    <3> HIDE DEF parts
    <3>3. QED BY <1>6, <2>1, <3>1, <3>2 DEF Succeeds
  <2>2. CASE ~ HasData(a.path)
    BY <1>0, <1>8, <2>2, AppendDoes DEF Fails
  <2>3. QED BY <2>1, <2>2
<1>9. CASE a.type = "LOOKUP"
  BY <1>0, <1>9, LookupDoes DEF Succeeds
<1>10. QED BY <1>2, <1>3, <1>4, <1>5, <1>7, <1>8, <1>9, InputTypes

----------------------------------------------------------------------------
(***************************************************************************)
(* Every action of a careful client leaves a tree.                         *)
(***************************************************************************)
\* A good store lists strings.
LEMMA NamesAreStrings ==
  ASSUME NEW s, Good(s), NEW p \in DOMAIN s
  PROVE  Names(s, p) \subseteq STRING /\ s[p].contents \in Seq(STRING) /\ p \in Path
<1>1. p \in Path /\ s[p].contents \in Seq(STRING)
  BY DEF Good, Entry
<1>2. QED BY <1>1 DEF Names, ToSet

\* Where entries and names are one tree, an entry exists just where its name
\* is listed.
LEMMA ListedIsThere ==
  ASSUME Good(store), Shape(store), NEW p \in Path \ {Root}
  PROVE  Has(p) <=> Has(ParentDir(p)) /\ Listed(p)
<1> DEFINE par == ParentDir(p)
           n == FileName(p)
<1>1. par \in Path /\ n \in STRING /\ Append(par, n) = p
  BY SplitPath
<1>2. Has(par) => (Listed(p) <=> n \in Names(store, par))
  BY NamesAreStrings, ListsNames DEF Has, Listed, Names
<1> HIDE DEF par, n
<1>3. ASSUME Has(p) PROVE Has(par) /\ n \in Names(store, par)
  BY <1>3 DEF Has, Shape, par, n
<1>4. ASSUME Has(par), n \in Names(store, par) PROVE Has(p)
  BY <1>1, <1>4 DEF Has, Shape
<1>5. QED BY <1>2, <1>3, <1>4 DEF par, n

\* The entries after a link.
LEMMA LinkedIs ==
  ASSUME Good(store), NEW p \in Path \ {Root}, CanLink(p), NEW e
  PROVE  /\ DOMAIN Linked(store, p, e) = DOMAIN store \cup {p}
         /\ Linked(store, p, e)[p] = e
         /\ Linked(store, p, e)[ParentDir(p)] = AddName(store[ParentDir(p)], FileName(p))
         /\ \A q \in DOMAIN store : q # p /\ q # ParentDir(p) => Linked(store, p, e)[q] = store[q]
<1> DEFINE par == ParentDir(p)
           d == AddName(store[par], FileName(p))
           s == With(store, par, d)
           t == With(s, p, e)
<1>1. par # p /\ par \in DOMAIN store
  BY ParentIsOther DEF CanLink, Has
<1>2. Linked(store, p, e) = t
  BY DEF Linked
<1> HIDE DEF par, d
<1>3. DOMAIN s = DOMAIN store \cup {par} /\ s[par] = d /\ \A q \in DOMAIN store : q # par => s[q] = store[q]
  BY DEF With
<1> HIDE DEF s
<1>4. DOMAIN t = DOMAIN s \cup {p} /\ t[p] = e /\ \A q \in DOMAIN s : q # p => t[q] = s[q]
  BY DEF With
<1> HIDE DEF t
<1>5. /\ DOMAIN t = DOMAIN store \cup {p} /\ t[p] = e /\ t[par] = d
      /\ \A q \in DOMAIN store : q # p /\ q # par => t[q] = store[q]
  BY <1>1, <1>3, <1>4
<1>6. QED BY <1>2, <1>5 DEF par, d

LEMMA LinkedElsewhere ==
  ASSUME NEW p, NEW e, NEW q \in DOMAIN store, q # p, q # ParentDir(p)
  PROVE  Linked(store, p, e)[q] = store[q]
BY DEF Linked, With

\* Linking an entry that lists nothing in a directory keeps the tree.
LEMMA LinkKeepsShape ==
  ASSUME Good(store), Shape(store), NEW p \in Path \ {Root}, CanLink(p),
         store[ParentDir(p)].type = "DIR", NEW e \in Entry, e.contents = << >>
  PROVE  Shape(Linked(store, p, e))
<1> DEFINE par == ParentDir(p)
           n == FileName(p)
           d == AddName(store[par], n)
           t == Linked(store, p, e)
<1>1. par \in DOMAIN store /\ par # p /\ p \notin DOMAIN store
  BY ParentIsOther, ListedIsThere DEF CanLink, Has
<1>2. /\ DOMAIN t = DOMAIN store \cup {p} /\ t[p] = e /\ t[par] = d
      /\ \A q \in DOMAIN store : q # p /\ q # par => t[q] = store[q]
  <2>1. DOMAIN t = DOMAIN store \cup {p}
    BY LinkedIs
  <2>2. t[p] = e
    BY LinkedIs
  <2>3. t[par] = d
    BY LinkedIs
  <2>4. ASSUME NEW q \in DOMAIN store, q # p, q # par PROVE t[q] = store[q]
    BY <2>4, LinkedElsewhere
  <2> HIDE DEF t, d, par
  <2>5. QED BY <2>1, <2>2, <2>3, <2>4
<1>3. ToSet(d.contents) = Names(store, par) \cup {n} /\ d.type = "DIR"
  BY AddIsGood
<1>4. Append(par, n) = p
  BY SplitPath
<1>5. \A q \in DOMAIN store \ {Root} : ParentDir(q) \in DOMAIN store /\ FileName(q) \in Names(store, ParentDir(q))
  BY DEF Shape
<1>6. \A q \in DOMAIN store : \A name \in Names(store, q) : Append(q, name) \in DOMAIN store
  BY DEF Shape
<1>7. \A q \in DOMAIN store : store[q].type = "DATA" => store[q].contents = << >>
  BY DEF Shape
<1> HIDE DEF d, t
<1>8. Names(t, p) = {} /\ Names(t, par) = Names(store, par) \cup {n}
  BY <1>2, <1>3, NoNames DEF Names
<1>9. \A q \in DOMAIN store : q # p /\ q # par => Names(t, q) = Names(store, q)
  BY <1>2 DEF Names
<1>10. ASSUME NEW q \in DOMAIN t \ {Root}
       PROVE  ParentDir(q) \in DOMAIN t /\ FileName(q) \in Names(t, ParentDir(q))
  <2>1. CASE q = p
    BY <1>1, <1>2, <1>8, <2>1
  <2>2. CASE q # p
    <3>1. ParentDir(q) \in DOMAIN store /\ FileName(q) \in Names(store, ParentDir(q))
      BY <1>2, <1>5, <2>2
    <3> DEFINE r == ParentDir(q)
    <3> HIDE DEF r, par, n
    <3>2. r \in DOMAIN store /\ FileName(q) \in Names(store, r)
      BY <3>1 DEF r
    <3>3. r \in DOMAIN t /\ FileName(q) \in Names(t, r)
      BY <1>1, <1>2, <1>8, <1>9, <3>2
    <3>4. QED BY <3>3 DEF r
  <2>3. QED BY <2>1, <2>2
<1> HIDE DEF par, n
<1>11. ASSUME NEW q \in DOMAIN t, NEW name \in Names(t, q) PROVE Append(q, name) \in DOMAIN t
  <2>1. CASE q = p
    BY <1>8, <2>1
  <2>2. CASE q = par
    <3>1. CASE name = n
      BY <1>2, <1>4, <2>2, <3>1
    <3>2. CASE name # n
      <4>1. name \in Names(store, par)
        BY <1>8, <2>2, <3>2
      <4>2. QED BY <1>1, <1>2, <1>6, <2>2, <4>1
    <3>3. QED BY <3>1, <3>2
  <2>3. CASE q # p /\ q # par
    <3>1. q \in DOMAIN store /\ name \in Names(store, q)
      BY <1>2, <1>9, <2>3
    <3>2. QED BY <1>2, <1>6, <3>1
  <2>4. QED BY <2>1, <2>2, <2>3
<1>12. ASSUME NEW q \in DOMAIN t, t[q].type = "DATA" PROVE t[q].contents = << >>
  BY <1>2, <1>3, <1>7, <1>12
<1>13. Shape(t)
  BY <1>10, <1>11, <1>12 DEF Shape
<1>14. QED BY <1>13 DEF t

\* Taking out an entry that lists nothing, and its name, keeps the tree.
LEMMA UnlinkKeepsShape ==
  ASSUME NEW s, Good(s), Shape(s), NEW p \in Path \ {Root}, p \in DOMAIN s, s[p].contents = << >>,
         NEW t, DOMAIN t = DOMAIN s \ {p},
         \A q \in DOMAIN t : q # ParentDir(p) => t[q] = s[q],
         t[ParentDir(p)].type = s[ParentDir(p)].type,
         Names(t, ParentDir(p)) = Names(s, ParentDir(p)) \ {FileName(p)}
  PROVE  Shape(t)
<1> DEFINE par == ParentDir(p)
           n == FileName(p)
<1>1. par \in DOMAIN s /\ n \in Names(s, par) /\ Append(par, n) = p /\ par # p
  BY SplitPath, ParentIsOther DEF Shape
<1>2. \A q \in DOMAIN s \ {Root} : ParentDir(q) \in DOMAIN s /\ FileName(q) \in Names(s, ParentDir(q))
  BY DEF Shape
<1>3. \A q \in DOMAIN s : \A name \in Names(s, q) : Append(q, name) \in DOMAIN s
  BY DEF Shape
<1>4. \A q \in DOMAIN s : s[q].type = "DATA" => s[q].contents = << >>
  BY DEF Shape
<1>5. Names(s, p) = {}
  BY NoNames DEF Names
<1>6. \A q \in DOMAIN t : q # par => Names(t, q) = Names(s, q)
  BY DEF Names
<1>7. Names(t, par) = Names(s, par) \ {n}
  OBVIOUS
<1>8. ASSUME NEW q \in DOMAIN t \ {Root}
      PROVE  ParentDir(q) \in DOMAIN t /\ FileName(q) \in Names(t, ParentDir(q))
  <2> DEFINE r == ParentDir(q)
             m == FileName(q)
  <2>1. q \in DOMAIN s /\ q # p /\ r \in DOMAIN s /\ m \in Names(s, r)
    BY <1>2
  <2>2. q \in Path \ {Root}
    BY <2>1 DEF Good
  <2>3. Append(r, m) = q
    BY <2>2, SplitPath
  <2> HIDE DEF r, m, par, n
  <2>4. r # p
    BY <1>5, <2>1
  <2>5. r \in DOMAIN t
    BY <2>1, <2>4
  <2>6. r = par => m # n
    BY <1>1, <2>1, <2>3
  <2>7. m \in Names(t, r)
    BY <1>6, <1>7, <2>1, <2>5, <2>6
  <2>8. QED BY <2>5, <2>7 DEF r, m
<1>9. ASSUME NEW q \in DOMAIN t, NEW name \in Names(t, q) PROVE Append(q, name) \in DOMAIN t
  <2>1. q \in DOMAIN s /\ name \in Names(s, q) /\ (q = par => name # n)
    BY <1>6, <1>7
  <2>2. Append(q, name) \in DOMAIN s
    BY <1>3, <2>1
  <2>3. Append(q, name) # p
    <3>1. q \in Path /\ name \in STRING
      BY <2>1, NamesAreStrings
    <3>2. ParentDir(Append(q, name)) = q /\ FileName(Append(q, name)) = name
      BY <3>1, JoinPath
    <3>3. QED BY <2>1, <3>2
  <2>4. QED BY <2>2, <2>3
<1>10. ASSUME NEW q \in DOMAIN t, t[q].type = "DATA" PROVE t[q].contents = << >>
  <2>1. CASE q = par
    <3>1. s[par].contents = << >>
      BY <1>1, <1>4, <1>10, <2>1
    <3>2. Names(s, par) = {}
      BY <3>1, NoNames DEF Names
    <3>3. QED BY <1>1, <3>2
  <2>2. CASE q # par
    BY <1>4, <1>10, <2>2
  <2>3. QED BY <2>1, <2>2
<1>11. QED BY <1>8, <1>9, <1>10 DEF Shape

\* A path is below its directory.
LEMMA ChildIsBelow ==
  ASSUME NEW p \in Path \ {Root}
  PROVE  IsBelow(p, ParentDir(p))
<1>1. Len(ParentDir(p)) = Len(p) - 1 /\ Len(p) \in Nat
  BY SplitPath DEF Path
<1>2. ParentDir(p) = SubSeq(p, 1, Len(p) - 1)
  BY DEF ParentDir, Front
<1>3. QED BY <1>1, <1>2 DEF IsBelow

\* The entries after an ERASE.
LEMMA ErasedIs ==
  ASSUME NEW p \in Path \ {Root}, Has(ParentDir(p)), Listed(p)
  PROVE  LET t == Unlinked(Without(store, p), p)
         IN  /\ DOMAIN t = DOMAIN store \ {p}
             /\ t[ParentDir(p)] = RemoveName(store[ParentDir(p)], FileName(p))
             /\ \A q \in DOMAIN t : q # ParentDir(p) => t[q] = store[q]
<1> DEFINE par == ParentDir(p)
           d == RemoveName(store[par], FileName(p))
           s == Without(store, p)
           t == With(s, par, d)
<1>1. par # p /\ par \in DOMAIN store
  BY ParentIsOther DEF Has
<1>2. Unlinked(s, p) = t
  BY DEF Unlinked
<1> HIDE DEF par, d
<1>3. DOMAIN s = DOMAIN store \ {p} /\ \A q \in DOMAIN s : s[q] = store[q]
  BY DEF Without
<1> HIDE DEF s
<1>4. DOMAIN t = DOMAIN s \cup {par} /\ t[par] = d /\ \A q \in DOMAIN s : q # par => t[q] = s[q]
  BY DEF With
<1> HIDE DEF t
<1>5. DOMAIN t = DOMAIN store \ {p} /\ t[par] = d /\ \A q \in DOMAIN t : q # par => t[q] = store[q]
  BY <1>1, <1>3, <1>4
<1>6. QED BY <1>2, <1>5 DEF par, d, s

\* The entries after the second half of a RENAME.
LEMMA MovedIs ==
  ASSUME NEW s, NEW p \in Path \ {Root}, ParentDir(p) \in DOMAIN s, Listed(p)
  PROVE  LET t == Without(Unlinked(s, p), p)
         IN  /\ DOMAIN t = DOMAIN s \ {p}
             /\ t[ParentDir(p)] = RemoveName(store[ParentDir(p)], FileName(p))
             /\ \A q \in DOMAIN t : q # ParentDir(p) => t[q] = s[q]
<1> DEFINE par == ParentDir(p)
           d == RemoveName(store[par], FileName(p))
           u == With(s, par, d)
           t == Without(u, p)
<1>1. par # p /\ par \in DOMAIN s
  BY ParentIsOther
<1>2. Unlinked(s, p) = u
  BY DEF Unlinked
<1> HIDE DEF par, d
<1>3. DOMAIN u = DOMAIN s \cup {par} /\ u[par] = d /\ \A q \in DOMAIN s : q # par => u[q] = s[q]
  BY DEF With
<1> HIDE DEF u
<1>4. DOMAIN t = DOMAIN u \ {p} /\ \A q \in DOMAIN t : t[q] = u[q]
  BY DEF Without
<1> HIDE DEF t
<1>5. DOMAIN t = DOMAIN s \ {p} /\ t[par] = d /\ \A q \in DOMAIN t : q # par => t[q] = s[q]
  BY <1>1, <1>3, <1>4
<1>6. QED BY <1>2, <1>5 DEF par, d, t

\* The entry at p lists nothing.
EmptyAt(p) == store[p].contents = << >>

\* An ERASE keeps the tree.
LEMMA EraseKeepsShape ==
  ASSUME Good(store), Shape(store), NEW p \in Path \ {Root}, CanErase(p)
  PROVE  /\ Has(ParentDir(p)) /\ Listed(p) /\ EmptyAt(p)
         /\ Shape(Unlinked(Without(store, p), p))
<1> DEFINE t == Unlinked(Without(store, p), p)
           par == ParentDir(p)
<1>1. Has(p) /\ Has(par) /\ Listed(p)
  BY ListedIsThere DEF CanErase
<1>2. store[p].contents = << >>
  <2>1. store[p].type \in {"DATA", "DIR"}
    BY <1>1 DEF Has, Good, Entry
  <2>2. QED BY <1>1, <2>1 DEF CanErase, Shape, Has
<1>3. /\ DOMAIN t = DOMAIN store \ {p}
      /\ t[par] = RemoveName(store[par], FileName(p))
      /\ \A q \in DOMAIN t : q # par => t[q] = store[q]
  BY <1>1, ErasedIs
<1> HIDE DEF t
<1>4. t[par].type = store[par].type /\ Names(t, par) = Names(store, par) \ {FileName(p)}
  BY <1>1, <1>3, RemoveIsGood DEF Names
<1>5. p \in DOMAIN store
  BY <1>1 DEF Has
<1> HIDE DEF par
<1>6. Shape(t)
  BY <1>2, <1>3, <1>4, <1>5, UnlinkKeepsShape DEF par
<1>7. QED BY <1>1, <1>2, <1>6 DEF t, par, EmptyAt

\* A RENAME of a careful client keeps the tree, and its four paths are apart.
LEMMA RenameKeepsShape ==
  ASSUME Good(store), Shape(store), NEW a \in Inputs, a.type = "RENAME", Careful(a), CanRename(a)
  PROVE  /\ Shape(Renamed(a))
         /\ a.path # a.to /\ ParentDir(a.to) # a.path /\ Listed(a.path)
         /\ ParentDir(a.path) # a.to /\ ParentDir(a.path) # ParentDir(a.to)
<1> DEFINE p == a.path
           q == a.to
           from == ParentDir(p)
           par == ParentDir(q)
           e == store[p]
           s == Linked(store, q, e)
           t == Without(Unlinked(s, p), p)
<1>1. p \in Path \ {Root} /\ q \in Path \ {Root}
  BY InputTypes
<1>2. Has(p) /\ Has(from) /\ CanLink(q) /\ Has(par) /\ Listed(p)
  BY <1>1, ListedIsThere DEF CanRename, CanLink
<1>3. e.contents = << >> /\ store[par].type = "DIR" /\ from # par /\ ~ IsBelow(q, p)
  BY <1>2 DEF Careful, Has
<1>4. ~ Has(q)
  BY <1>1, <1>2, ListedIsThere DEF CanLink
<1>5. par # p
  BY <1>1, <1>3, ChildIsBelow
<1>6. from # q /\ p # q /\ par # q
  BY <1>1, <1>2, <1>4, ParentIsOther
<1>7. e \in Entry /\ IsInjective(e.contents)
  BY <1>2 DEF Good, Has
<1> HIDE DEF e
<1>8. Shape(s) /\ Good(s)
  BY <1>1, <1>2, <1>3, <1>7, LinkKeepsShape, LinkedIsGood
<1>9. DOMAIN s = DOMAIN store \cup {q}
  BY <1>1, <1>2, LinkedIs
<1>10. s[from] = store[from] /\ s[p] = store[p]
  <2>1. from \in DOMAIN store /\ p \in DOMAIN store
    BY <1>2 DEF Has
  <2>2. QED BY <1>3, <1>5, <1>6, <2>1, LinkedElsewhere
<1> HIDE DEF s
<1>11. from \in DOMAIN s /\ p \in DOMAIN s /\ s[p].contents = << >>
  BY <1>2, <1>3, <1>9, <1>10 DEF Has, e
<1>12. /\ DOMAIN t = DOMAIN s \ {p}
       /\ t[from] = RemoveName(store[from], FileName(p))
       /\ \A r \in DOMAIN t : r # from => t[r] = s[r]
  BY <1>1, <1>2, <1>11, MovedIs
<1> HIDE DEF t
<1>13. t[from].type = s[from].type /\ Names(t, from) = Names(s, from) \ {FileName(p)}
  BY <1>1, <1>2, <1>10, <1>12, RemoveIsGood DEF Names
<1>14. p \in Path \ {Root} /\ p \in DOMAIN s /\ s[p].contents = << >>
  BY <1>1, <1>11
<1> HIDE DEF p, q
<1>15. Shape(t)
  BY <1>8, <1>12, <1>13, <1>14, UnlinkKeepsShape
<1>16. t = Renamed(a)
  BY DEF t, Renamed, s, e, p, q
<1>17. QED BY <1>2, <1>3, <1>5, <1>6, <1>15, <1>16 DEF p, q

\* So does setting the parts of a file.
LEMMA PartsKeepShape ==
  ASSUME Good(store), Shape(store), NEW p, HasData(p), NEW parts \in Seq(Part)
  PROVE  Shape(With(store, p, [store[p] EXCEPT !.parts = parts]))
<1> DEFINE e == [store[p] EXCEPT !.parts = parts]
           t == With(store, p, e)
<1>1. p \in DOMAIN store /\ store[p] \in Entry
  BY DEF HasData, Has, Good
<1>2. e.type = store[p].type /\ e.contents = store[p].contents
  BY <1>1, EntryParts
<1> HIDE DEF e
<1>3. DOMAIN t = DOMAIN store /\ t[p] = e /\ \A q \in DOMAIN store : q # p => t[q] = store[q]
  BY <1>1 DEF With
<1> HIDE DEF t
<1>4. \A q \in DOMAIN store : t[q].type = store[q].type /\ t[q].contents = store[q].contents
  BY <1>2, <1>3
<1>5. \A q \in DOMAIN store : Names(t, q) = Names(store, q)
  BY <1>4 DEF Names
<1>6. Shape(t)
  BY <1>3, <1>4, <1>5 DEF Shape
<1>7. QED BY <1>6 DEF t, e

\* What Careful asks of clients is enough for every action.
LEMMA CareIsEnough ==
  ASSUME Good(store), Shape(store), NEW a \in Inputs, Careful(a)
  PROVE  Shape(Install(Done(a)))
<1>0. StoreIsFunction
  BY DEF Good, StoreIsFunction, IsFunction
<1>2. CASE a.type = "CREATE_FILE"
  <2>1. CASE CanLink(a.path)
    <3>1. Succeeds(a, Linked(store, a.path, NewEntry(a.kind)))
      BY <1>0, <1>2, <2>1, CreateFileDoes
    <3>2. a.path \in Path \ {Root} /\ a.kind \in {"DATA", "DIR"}
      BY <1>2, InputTypes
    <3>3. NewEntry(a.kind) \in Entry /\ NewEntry(a.kind).contents = << >>
      BY <3>2, NewEntryIs
    <3>4. store[ParentDir(a.path)].type = "DIR"
      BY <1>2, <2>1 DEF CanLink, Has, Careful
    <3>5. QED BY <2>1, <3>1, <3>2, <3>3, <3>4, LinkKeepsShape DEF Succeeds
  <2>2. CASE ~ CanLink(a.path)
    BY <1>0, <1>2, <2>2, CreateFileDoes DEF Fails
  <2>3. QED BY <2>1, <2>2
<1>3. CASE a.type = "ERASE"
  <2>1. CASE CanErase(a.path)
    <3>1. Succeeds(a, Unlinked(Without(store, a.path), a.path))
      BY <1>0, <1>3, <2>1, EraseDoes
    <3>2. a.path \in Path \ {Root}
      BY <1>3, InputTypes
    <3>3. QED BY <2>1, <3>1, <3>2, EraseKeepsShape DEF Succeeds
  <2>2. CASE ~ CanErase(a.path)
    BY <1>0, <1>3, <2>2, EraseDoes DEF Fails
  <2>3. QED BY <2>1, <2>2
<1>4. CASE a.type = "COPY"
  <2>1. CASE Has(a.path) /\ CanLink(a.to)
    <3>1. Succeeds(a, Linked(store, a.to, store[a.path]))
      BY <1>0, <1>4, <2>1, CopyDoes
    <3>2. a.to \in Path \ {Root}
      BY <1>4, InputTypes
    <3>3. store[a.path] \in Entry
      BY <2>1 DEF Good, Has
    <3>4. store[ParentDir(a.to)].type = "DIR" /\ store[a.path].contents = << >>
      BY <1>4, <2>1 DEF CanLink, Has, Careful
    <3>5. QED BY <2>1, <3>1, <3>2, <3>3, <3>4, LinkKeepsShape DEF Succeeds
  <2>2. CASE ~ (Has(a.path) /\ CanLink(a.to))
    BY <1>0, <1>4, <2>2, CopyDoes DEF Fails
  <2>3. QED BY <2>1, <2>2
<1>5. CASE a.type = "RENAME"
  <2>1. CASE CanRename(a)
    BY <1>0, <1>5, <2>1, RenameDoes, RenameKeepsShape DEF Succeeds
  <2>2. CASE ~ CanRename(a)
    BY <1>0, <1>5, <2>2, RenameDoes DEF Fails
  <2>3. QED BY <2>1, <2>2
<1>7. CASE a.type = "RESIZE"
  <2>1. CASE HasData(a.path)
    <3> DEFINE parts == ResizedParts(store[a.path].parts, a.size)
    <3>0. a.size # 0
      BY <1>7 DEF Careful
    <3>1. Succeeds(a, With(store, a.path, [store[a.path] EXCEPT !.parts = parts]))
      BY <1>0, <1>7, <2>1, <3>0, ResizeDoes
    <3>2. parts \in Seq(Part)
      <4>1. a.size \in Nat /\ store[a.path].parts \in Seq(Part)
        BY <1>7, <2>1, InputTypes DEF HasData, Has, Good, Entry
      <4>2. QED BY <3>0, <4>1, ResizedBytes
    <3> HIDE DEF parts
    <3>3. QED BY <2>1, <3>1, <3>2, PartsKeepShape DEF Succeeds
  <2>3. CASE ~ HasData(a.path)
    BY <1>0, <1>7, <2>3, ResizeDoes DEF Fails
  <2>4. QED BY <2>1, <2>3
<1>8. CASE a.type = "APPEND"
  <2>1. CASE HasData(a.path)
    <3> DEFINE parts == store[a.path].parts \o a.data
    <3>1. Succeeds(a, With(store, a.path, [store[a.path] EXCEPT !.parts = parts]))
      BY <1>0, <1>8, <2>1, AppendDoes
    <3>2. parts \in Seq(Part)
      <4>1. a.data \in Seq(Part) /\ store[a.path].parts \in Seq(Part)
        BY <1>8, <2>1, InputTypes DEF HasData, Has, Good, Entry
      <4>2. QED BY <4>1, ConcatIs
    <3> HIDE DEF parts
    <3>3. QED BY <2>1, <3>1, <3>2, PartsKeepShape DEF Succeeds
  <2>2. CASE ~ HasData(a.path)
    BY <1>0, <1>8, <2>2, AppendDoes DEF Fails
  <2>3. QED BY <2>1, <2>2
<1>9. CASE a.type = "LOOKUP"
  BY <1>0, <1>9, LookupDoes DEF Succeeds
<1>10. QED BY <1>2, <1>3, <1>4, <1>5, <1>7, <1>8, <1>9, InputTypes

----------------------------------------------------------------------------
(***************************************************************************)
(* Every action stays in its write set.                                    *)
(***************************************************************************)
\* Outside of W, the entries are those of the store.
SameOutside(s, W) ==
  \A p : p \notin W => (p \in DOMAIN s <=> p \in DOMAIN store)
                       /\ (p \in DOMAIN store => s[p] = store[p])

\* Each step of an operation stays in the write set.
LEMMA WithStaysIn ==
  ASSUME NEW s, NEW W, SameOutside(s, W), NEW p \in W, NEW e
  PROVE  SameOutside(With(s, p, e), W)
<1> DEFINE t == With(s, p, e)
<1>1. DOMAIN t = DOMAIN s \cup {p} /\ \A q \in DOMAIN s : q # p => t[q] = s[q]
  BY DEF With
<1> HIDE DEF t
<1>2. SameOutside(t, W)
  BY <1>1 DEF SameOutside
<1>3. QED BY <1>2 DEF t

LEMMA WithoutStaysIn ==
  ASSUME NEW s, NEW W, SameOutside(s, W), NEW p \in W
  PROVE  SameOutside(Without(s, p), W)
<1> DEFINE t == Without(s, p)
<1>1. DOMAIN t = DOMAIN s \ {p} /\ \A q \in DOMAIN s : q # p => t[q] = s[q]
  BY DEF Without
<1> HIDE DEF t
<1>2. SameOutside(t, W)
  BY <1>1 DEF SameOutside
<1>3. QED BY <1>2 DEF t

LEMMA LinkStaysIn ==
  ASSUME NEW s, NEW W, SameOutside(s, W), NEW p \in W, ParentDir(p) \in W, NEW e
  PROVE  SameOutside(Linked(s, p, e), W)
<1> DEFINE u == With(s, ParentDir(p), AddName(store[ParentDir(p)], FileName(p)))
<1>1. SameOutside(u, W)
  BY WithStaysIn
<1>2. Linked(s, p, e) = With(u, p, e)
  BY DEF Linked
<1> HIDE DEF u
<1>3. QED BY <1>1, <1>2, WithStaysIn

LEMMA UnlinkStaysIn ==
  ASSUME NEW s, NEW W, SameOutside(s, W), NEW p, ParentDir(p) \in W
  PROVE  SameOutside(Unlinked(s, p), W)
<1>1. CASE Listed(p)
  BY <1>1, WithStaysIn DEF Unlinked
<1>2. CASE ~ Listed(p)
  BY <1>2 DEF Unlinked
<1>3. QED BY <1>1, <1>2

\* So every action does.
LEMMA ActionStaysIn ==
  ASSUME StoreIsFunction, NEW a \in Inputs
  PROVE  SameOutside(Install(Done(a)), WriteSet(a))
<1> DEFINE W == WriteSet(a)
<1>0. SameOutside(store, W)
  BY DEF SameOutside
<1>2. CASE a.type = "CREATE_FILE"
  <2>1. a.path \in W /\ ParentDir(a.path) \in W
    BY <1>2 DEF WriteSet
  <2> HIDE DEF W
  <2>2. SameOutside(Linked(store, a.path, NewEntry(a.kind)), W)
    BY <1>0, <2>1, LinkStaysIn
  <2>3. QED BY <1>0, <1>2, <2>2, CreateFileDoes DEF Fails, Succeeds, W
<1>3. CASE a.type = "ERASE"
  <2>1. a.path \in W /\ ParentDir(a.path) \in W
    BY <1>3 DEF WriteSet
  <2> HIDE DEF W
  <2>2. SameOutside(Unlinked(Without(store, a.path), a.path), W)
    BY <1>0, <2>1, WithoutStaysIn, UnlinkStaysIn
  <2>3. QED BY <1>0, <1>3, <2>2, EraseDoes DEF Fails, Succeeds, W
<1>4. CASE a.type = "COPY"
  <2>1. a.to \in W /\ ParentDir(a.to) \in W
    BY <1>4 DEF WriteSet
  <2> HIDE DEF W
  <2>2. SameOutside(Linked(store, a.to, store[a.path]), W)
    BY <1>0, <2>1, LinkStaysIn
  <2>3. QED BY <1>0, <1>4, <2>2, CopyDoes DEF Fails, Succeeds, W
<1>5. CASE a.type = "RENAME"
  <2>1. a.to \in W /\ ParentDir(a.to) \in W /\ a.path \in W /\ ParentDir(a.path) \in W
    BY <1>5 DEF WriteSet
  <2> HIDE DEF W
  <2>2. SameOutside(Linked(store, a.to, store[a.path]), W)
    BY <1>0, <2>1, LinkStaysIn
  <2>3. SameOutside(Unlinked(Linked(store, a.to, store[a.path]), a.path), W)
    BY <2>1, <2>2, UnlinkStaysIn
  <2>4. SameOutside(Renamed(a), W)
    BY <2>1, <2>3, WithoutStaysIn DEF Renamed
  <2>5. QED BY <1>0, <1>5, <2>4, RenameDoes DEF Fails, Succeeds, W
<1>6. CASE a.type = "RESIZE"
  <2>1. a.path \in W
    BY <1>6 DEF WriteSet
  <2> HIDE DEF W
  <2>2. \A e : SameOutside(With(store, a.path, e), W)
    BY <1>0, <2>1, WithStaysIn
  <2>3. QED BY <1>0, <1>6, <2>2, ResizeDoes DEF Fails, Succeeds, W
<1>7. CASE a.type = "APPEND"
  <2>1. a.path \in W
    BY <1>7 DEF WriteSet
  <2> HIDE DEF W
  <2>2. \A e : SameOutside(With(store, a.path, e), W)
    BY <1>0, <2>1, WithStaysIn
  <2>3. QED BY <1>0, <1>7, <2>2, AppendDoes DEF Fails, Succeeds, W
<1>8. CASE a.type = "LOOKUP"
  BY <1>0, <1>8, LookupDoes DEF Succeeds
<1>9. QED BY <1>2, <1>3, <1>4, <1>5, <1>6, <1>7, <1>8, InputTypes

----------------------------------------------------------------------------
(***************************************************************************)
(* The invariant, and what follows from it.                                *)
(***************************************************************************)
\* The inductive invariant.
IInv ==
  /\ Good(store)
  /\ careful => Shape(store)
  /\ careful \in BOOLEAN
  /\ last.success \in BOOLEAN /\ last.reply.success \in BOOLEAN

\* A step, in terms of Done.
LEMMA RunDoes ==
  ASSUME NEW a \in Inputs, Run(a)
  PROVE  /\ store' = Install(Done(a)) /\ careful' = careful
         /\ last'.action = a /\ last'.success = Done(a).success
         /\ last'.reply \in Outputs(a, Done(a).success)
BY DEF Run, Done

\* It holds at first.
LEMMA InitIsGood == Init => IInv
<1> SUFFICES ASSUME Init PROVE IInv
  OBVIOUS
<1>1. DOMAIN store = {Root} /\ store[Root] = NewEntry("DIR") /\ IsFunction(store)
  BY DEF Init, IsFunction
<1>2. /\ NewEntry("DIR") \in Entry /\ NewEntry("DIR").type = "DIR"
      /\ NewEntry("DIR").contents = << >>
  BY NewEntryIs
<1>3. Good(store)
  BY <1>1, <1>2, NoNames, RootIsPath DEF Good
<1>4. Shape(store)
  BY <1>1, <1>2, NoNames DEF Shape, Names
<1>5. last.success = TRUE /\ last.reply.success = TRUE /\ careful \in BOOLEAN
  BY DEF Init, NoOutput
<1>6. QED BY <1>3, <1>4, <1>5 DEF IInv

\* What a reply says of the operation's own answer: any reply, if the action
\* writes all it reads; otherwise a failure, or a reply with an output.
LEMMA ToldTheTruth ==
  ASSUME NEW a \in Inputs, NEW success \in BOOLEAN, NEW reply \in Outputs(a, success)
  PROVE  /\ reply.success \in BOOLEAN /\ (~ reply.success => ~ success)
         /\ reply.output \/ a.type \notin {"COPY", "LOOKUP"} => reply.success = success
<1>1. reply.success = success \/
        (reply = NoOutput /\ reply.success = TRUE /\ reply.output = FALSE
           /\ \E m : m \in Machines(ReadSet(a)) \ Machines(WriteSet(a)))
  BY DEF Outputs, NoOutput
<1>2. a.type \notin {"COPY", "LOOKUP"} => Machines(ReadSet(a)) \subseteq Machines(WriteSet(a))
  BY SetsOfPaths DEF Machines
<1>3. QED BY <1>1, <1>2

\* Every step keeps it.
LEMMA StepIsGood == IInv /\ [Next]_vars => IInv'
<1> SUFFICES ASSUME IInv, [Next]_vars PROVE IInv'
  OBVIOUS
<1>1. CASE Next
  <2>1. PICK a \in Inputs : (careful => Careful(a)) /\ Run(a)
    BY <1>1 DEF Next
  <2>2. /\ store' = Install(Done(a)) /\ careful' = careful
        /\ last'.action = a /\ last'.success = Done(a).success
        /\ last'.reply \in Outputs(a, Done(a).success)
    BY <2>1, RunDoes
  <2>3. Good(Install(Done(a))) /\ Done(a).success \in BOOLEAN
    BY DoneIsGood DEF IInv
  <2>4. careful => Shape(Install(Done(a)))
    BY <2>1, CareIsEnough DEF IInv
  <2>5. last'.reply.success \in BOOLEAN
    BY <2>2, <2>3, ToldTheTruth
  <2>7. Good(store') /\ (careful' => Shape(store')) 
    BY <2>2, <2>3, <2>4
  <2>8. Good(store)' /\ (careful => Shape(store))'
    BY <2>7 DEF Good, Shape, IsFunction, Names
  <2>9. QED BY <2>2, <2>3, <2>5, <2>8 DEF IInv
<1>2. CASE UNCHANGED vars
  BY <1>2 DEF vars, IInv, Good, Shape, IsFunction, Names
<1>3. QED BY <1>1, <1>2

\* The inductive invariant holds in every reachable state.
THEOREM Invariance == Spec => []IInv
BY InitIsGood, StepIsGood, PTL DEF Spec

\* It implies what the run checks.
LEMMA IInvImplies == IInv => Consistent /\ EntriesAreListed
<1> SUFFICES ASSUME IInv PROVE Consistent /\ EntriesAreListed
  OBVIOUS
<1>1. Consistent
  BY DEF IInv, Good, Consistent, TypeOK, NamesAreUnique
<1>2. EntriesAreListed
  <2>1. ASSUME careful, NEW p \in DOMAIN store \ {Root}
        PROVE  ParentDir(p) \in DOMAIN store /\ Lists(store[ParentDir(p)], FileName(p))
    <3>1. ParentDir(p) \in DOMAIN store /\ FileName(p) \in Names(store, ParentDir(p))
      BY <2>1 DEF IInv, Shape
    <3>2. store[ParentDir(p)].contents \in Seq(STRING)
      BY <3>1, NamesAreStrings DEF IInv
    <3>3. QED BY <3>1, <3>2, ListsNames DEF Names
  <2>2. careful => \A p \in DOMAIN store : \A name \in ToSet(store[p].contents) :
                     Append(p, name) \in DOMAIN store
    BY DEF IInv, Shape, Names
  <2>3. QED BY <2>1, <2>2 DEF EntriesAreListed
<1>3. QED BY <1>1, <1>2 DEF IInv

\* Whatever clients send, every variable keeps its type and no directory lists
\* a name twice.
THEOREM StoreIsConsistent == Spec => []Consistent
BY Invariance, IInvImplies, PTL

\* For careful clients, entries and the names in directories are one tree.
THEOREM ListsAreTheTree == Spec => []EntriesAreListed
BY Invariance, IInvImplies, PTL

\* A step changes nothing outside of the write set.
LEMMA StepStaysIn ==
  IInv /\ [Next]_vars =>
    [\A p \in DOMAIN store \cup DOMAIN store' :
       p \notin WriteSet(last'.action) =>
         p \in DOMAIN store /\ p \in DOMAIN store' /\ store[p] = store'[p]]_vars
<1> SUFFICES ASSUME IInv, Next,
                    NEW p \in DOMAIN store \cup DOMAIN store', p \notin WriteSet(last'.action)
             PROVE  p \in DOMAIN store /\ p \in DOMAIN store' /\ store[p] = store'[p]
  OBVIOUS
<1>1. PICK a \in Inputs : Run(a)
  BY DEF Next
<1>2. store' = Install(Done(a)) /\ last'.action = a
  BY <1>1, RunDoes
<1>3. StoreIsFunction
  BY DEF IInv, Good, StoreIsFunction, IsFunction
<1>4. SameOutside(Install(Done(a)), WriteSet(a))
  BY <1>3, ActionStaysIn
<1>5. QED BY <1>2, <1>4 DEF SameOutside

\* GetRWSets names every entry that an operation changes, so the locks of an
\* action cover all it does.
THEOREM ActionsStayInWriteSets == Spec => OnlyWriteSetChanges
BY Invariance, StepStaysIn, PTL DEF Spec, OnlyWriteSetChanges

\* A path whose entry is there and whose name was added to its directory.
LEMMA LinkAdds ==
  ASSUME Good(store), NEW p \in Path \ {Root}, CanLink(p), NEW e,
         p \in DOMAIN store', store'[p] = e, ParentDir(p) \in DOMAIN store',
         store'[ParentDir(p)] = AddName(store[ParentDir(p)], FileName(p))
  PROVE  Added(p, e)
<1> DEFINE d == AddName(store[ParentDir(p)], FileName(p))
<1>1. ~ IsListed(store, p)
  BY DEF CanLink, Listed, IsListed
<1>2. d \in Entry /\ FileName(p) \in ToSet(d.contents)
  BY AddIsGood
<1> HIDE DEF d
<1>3. d.contents \in Seq(STRING)
  BY <1>2 DEF Entry
<1>4. Lists(d, FileName(p))
  BY <1>2, <1>3, ListsNames
<1>5. IsListed(store', p)
  BY <1>4 DEF IsListed, d
<1>6. QED BY <1>1, <1>5 DEF Added

\* A path whose entry is gone and whose name was taken from its directory, if
\* it was there.
LEMMA UnlinkRemoves ==
  ASSUME Good(store), NEW p \in Path \ {Root}, Has(p), Has(ParentDir(p)), p \notin DOMAIN store',
         store'[ParentDir(p)] = IF Listed(p) THEN RemoveName(store[ParentDir(p)], FileName(p))
                                ELSE store[ParentDir(p)]
  PROVE  Removed(p)
<1>1. CASE Listed(p)
  <2> DEFINE d == RemoveName(store[ParentDir(p)], FileName(p))
  <2>1. d \in Entry /\ FileName(p) \notin ToSet(d.contents)
    BY <1>1, RemoveIsGood
  <2>2. store'[ParentDir(p)] = d
    BY <1>1
  <2> HIDE DEF d
  <2>3. d.contents \in Seq(STRING)
    BY <2>1 DEF Entry
  <2>4. ~ Lists(d, FileName(p))
    BY <2>1, <2>3, ListsNames
  <2>5. ~ IsListed(store', p)
    BY <2>2, <2>4 DEF IsListed
  <2>6. QED BY <2>5 DEF Removed, Has
<1>2. CASE ~ Listed(p)
  <2>1. ~ IsListed(store', p)
    BY <1>2 DEF IsListed, Listed
  <2>2. QED BY <2>1 DEF Removed, Has
<1>3. QED BY <1>1, <1>2

\* CREATE_FILE and COPY.
LEMMA LinkedIsAdded ==
  ASSUME Good(store), NEW p \in Path \ {Root}, CanLink(p), NEW e, store' = Linked(store, p, e)
  PROVE  Added(p, e)
<1>1. ParentDir(p) \in DOMAIN store
  BY DEF CanLink, Has
<1>2. QED BY <1>1, LinkedIs, LinkAdds

\* ERASE.
LEMMA ErasedIsRemoved ==
  ASSUME Good(store), NEW p \in Path \ {Root}, CanErase(p),
         store' = Unlinked(Without(store, p), p)
  PROVE  Removed(p)
<1>1. Has(p) /\ Has(ParentDir(p))
  BY DEF CanErase
<1>2. CASE Listed(p)
  BY <1>1, <1>2, ErasedIs, UnlinkRemoves
<1>3. CASE ~ Listed(p)
  <2>1. store' = Without(store, p) /\ ParentDir(p) # p
    BY <1>3, ParentIsOther DEF Unlinked
  <2>2. p \notin DOMAIN store' /\ store'[ParentDir(p)] = store[ParentDir(p)]
    BY <1>1, <2>1 DEF Without, Has
  <2>3. QED BY <1>1, <1>3, <2>2, UnlinkRemoves
<1>4. QED BY <1>2, <1>3

\* RENAME, when its two halves are at four different paths.
LEMMA RenamedIsMoved ==
  ASSUME Good(store), NEW a \in Inputs, a.type = "RENAME", CanRename(a),
         ParentDir(a.path) \notin {ParentDir(a.to), a.to}, ~ IsBelow(a.to, a.path),
         store' = Renamed(a)
  PROVE  Removed(a.path) /\ Added(a.to, store[a.path])
<1> DEFINE p == a.path
           q == a.to
           s == Linked(store, q, store[p])
<1>1. p \in Path \ {Root} /\ q \in Path \ {Root}
  BY InputTypes
<1>2. Has(p) /\ Has(ParentDir(p)) /\ CanLink(q) /\ Has(ParentDir(q))
  BY DEF CanRename, CanLink
<1>3. /\ p # q /\ ParentDir(p) # p /\ ParentDir(q) # q /\ ParentDir(q) # p
  BY <1>1, ParentIsOther, ChildIsBelow
<1>4. /\ DOMAIN s = DOMAIN store \cup {q} /\ s[q] = store[p]
      /\ s[ParentDir(q)] = AddName(store[ParentDir(q)], FileName(q))
      /\ s[ParentDir(p)] = store[ParentDir(p)]
  BY <1>1, <1>2, LinkedIs DEF Has
<1> DEFINE t == Without(Unlinked(s, p), p)
<1>5. store' = t
  BY DEF Renamed
<1> HIDE DEF s
<1>6. /\ DOMAIN t = DOMAIN s \ {p}
      /\ t[ParentDir(p)] = IF Listed(p) THEN RemoveName(store[ParentDir(p)], FileName(p))
                           ELSE store[ParentDir(p)]
      /\ \A x \in DOMAIN t : x # ParentDir(p) => t[x] = s[x]
  <2>0. ParentDir(p) \in DOMAIN s
    BY <1>2, <1>4 DEF Has
  <2>1. CASE Listed(p)
    BY <1>1, <2>0, <2>1, MovedIs
  <2>2. CASE ~ Listed(p)
    <3>1. t = Without(s, p)
      BY <2>2 DEF Unlinked
    <3> HIDE DEF t
    <3>2. DOMAIN t = DOMAIN s \ {p} /\ \A x \in DOMAIN t : t[x] = s[x]
      BY <3>1 DEF Without
    <3>3. QED BY <1>3, <1>4, <2>0, <2>2, <3>2
  <2>3. QED BY <2>1, <2>2
<1> HIDE DEF t
<1>7. Removed(p)
  BY <1>1, <1>2, <1>5, <1>6, UnlinkRemoves
<1>8. Added(q, store[p])
  BY <1>1, <1>2, <1>3, <1>4, <1>5, <1>6, LinkAdds DEF Has
<1>9. QED BY <1>7, <1>8

\* RESIZE and APPEND.
LEMMA PartsAreSet ==
  ASSUME Good(store), NEW p, HasData(p), NEW parts \in Seq(Part),
         store' = With(store, p, [store[p] EXCEPT !.parts = parts])
  PROVE  BytesBecome(p, Bytes(parts))
<1> DEFINE e == [store[p] EXCEPT !.parts = parts]
<1>1. p \in DOMAIN store /\ store[p] \in Entry
  BY DEF HasData, Has, Good
<1>2. e.parts = parts
  BY <1>1, EntryParts
<1> HIDE DEF e
<1>3. p \in DOMAIN store' /\ store'[p] = e
  <2>1. store' = With(store, p, e)
    BY DEF e
  <2>2. QED BY <2>1 DEF With
<1>4. QED BY <1>1, <1>2, <1>3 DEF BytesBecome

\* An operation whose answer is a failure has changed nothing.
LEMMA FailureIsNothing ==
  ASSUME Good(store), NEW a \in Inputs, Done(a).success = FALSE
  PROVE  Install(Done(a)) = store
<1>0. StoreIsFunction
  BY DEF Good, StoreIsFunction, IsFunction
<1>1. \A s : ~ Succeeds(a, s)
  BY DEF Succeeds
<1>2. Fails(a)
  BY <1>0, <1>1, InputTypes, CreateFileDoes, EraseDoes, CopyDoes, RenameDoes, ResizeDoes, AppendDoes, LookupDoes
<1>3. QED BY <1>2 DEF Fails

\* One whose answer is a success has had its effect.
LEMMA SuccessIsEffect ==
  ASSUME Good(store), NEW a \in Inputs, Done(a).success = TRUE, store' = Install(Done(a)),
         a.type # "LOOKUP", ~ (a.type = "RESIZE" /\ a.size = 0),
         a.type = "RENAME" => ParentDir(a.path) \notin {ParentDir(a.to), a.to} /\ ~ IsBelow(a.to, a.path)
  PROVE  TakesEffect(a)
<1>0. StoreIsFunction
  BY DEF Good, StoreIsFunction, IsFunction
<1>1. /\ ~ Fails(a)
      /\ \A s : Succeeds(a, s) => store' = s
  BY DEF Fails, Succeeds
<1>2. CASE a.type = "CREATE_FILE"
  <2>1. CanLink(a.path) /\ store' = Linked(store, a.path, NewEntry(a.kind)) /\ a.path \in Path \ {Root}
    BY <1>0, <1>1, <1>2, CreateFileDoes, InputTypes
  <2>2. QED BY <1>2, <2>1, LinkedIsAdded DEF TakesEffect
<1>3. CASE a.type = "ERASE"
  <2>1. CanErase(a.path) /\ store' = Unlinked(Without(store, a.path), a.path) /\ a.path \in Path \ {Root}
    BY <1>0, <1>1, <1>3, EraseDoes, InputTypes
  <2>2. QED BY <1>3, <2>1, ErasedIsRemoved DEF TakesEffect
<1>4. CASE a.type = "COPY"
  <2>1. /\ Has(a.path) /\ CanLink(a.to) /\ a.to \in Path \ {Root}
        /\ store' = Linked(store, a.to, store[a.path])
    BY <1>0, <1>1, <1>4, CopyDoes, InputTypes
  <2>2. Added(a.to, store[a.path])
    BY <2>1, LinkedIsAdded
  <2>3. QED BY <1>4, <2>1, <2>2 DEF TakesEffect, Has
<1>5. CASE a.type = "RENAME"
  <2>1. CanRename(a) /\ store' = Renamed(a)
    BY <1>0, <1>1, <1>5, RenameDoes
  <2>2. QED BY <1>5, <2>1, RenamedIsMoved DEF TakesEffect
<1>6. CASE a.type = "RESIZE"
  <2> DEFINE old == store[a.path].parts
             new == ResizedParts(old, a.size)
  <2>1. HasData(a.path) /\ a.size \in Nat /\ a.size # 0
    BY <1>0, <1>1, <1>6, ResizeDoes, InputTypes
  <2>2. store' = With(store, a.path, [store[a.path] EXCEPT !.parts = new])
    BY <1>0, <1>1, <1>6, <2>1, ResizeDoes
  <2>3. old \in Seq(Part)
    BY <2>1 DEF HasData, Has, Good, Entry
  <2>4. new \in Seq(Part) /\ Bytes(new) = First(Bytes(old), a.size)
    BY <2>1, <2>3, ResizedBytes
  <2> HIDE DEF new
  <2>5. BytesBecome(a.path, Bytes(new))
    BY <2>1, <2>2, <2>4, PartsAreSet
  <2>6. Bytes(new) = Tree!Resized(Bytes(old), a.size, <<0, 0>>)
    BY <2>4 DEF Tree!Resized, First
  <2>7. QED BY <1>6, <2>5, <2>6 DEF TakesEffect
<1>7. CASE a.type = "APPEND"
  <2> DEFINE old == store[a.path].parts
             new == old \o a.data
  <2>1. HasData(a.path) /\ a.data \in Seq(Part)
    BY <1>0, <1>1, <1>7, AppendDoes, InputTypes
  <2>2. store' = With(store, a.path, [store[a.path] EXCEPT !.parts = new])
    BY <1>0, <1>1, <1>7, <2>1, AppendDoes
  <2>3. old \in Seq(Part)
    BY <2>1 DEF HasData, Has, Good, Entry
  <2>4. new \in Seq(Part) /\ Bytes(new) = Bytes(old) \o Bytes(a.data)
    BY <2>1, <2>3, ConcatIs, ConcatBytes
  <2> HIDE DEF new
  <2>5. BytesBecome(a.path, Bytes(new))
    BY <2>1, <2>2, <2>4, PartsAreSet
  <2>6. QED BY <1>7, <2>4, <2>5 DEF TakesEffect
<1>8. QED BY <1>2, <1>3, <1>4, <1>5, <1>6, <1>7, InputTypes

\* What a step tells the client.
LEMMA StepTells ==
  IInv /\ [Next]_vars =>
    [LET a == last'.action
         reply == last'.reply
     IN  /\ ~ reply.success => store' = store
         /\ reply.success => TakesEffect(a) \/ SaysNothing(a, reply)]_vars
<1> SUFFICES ASSUME IInv, Next
             PROVE  /\ ~ last'.reply.success => store' = store
                    /\ last'.reply.success =>
                         TakesEffect(last'.action) \/ SaysNothing(last'.action, last'.reply)
  OBVIOUS
<1>1. PICK a \in Inputs : Run(a)
  BY DEF Next
<1>2. /\ store' = Install(Done(a)) /\ last'.action = a
      /\ last'.reply \in Outputs(a, Done(a).success)
  BY <1>1, RunDoes
<1>3. Good(store) /\ Done(a).success \in BOOLEAN
  BY DoneIsGood DEF IInv
<1>4. /\ ~ last'.reply.success => ~ Done(a).success
      /\ last'.reply.output \/ a.type \notin {"COPY", "LOOKUP"} => last'.reply.success = Done(a).success
  BY <1>2, <1>3, ToldTheTruth
<1>5. ~ last'.reply.success => store' = store
  BY <1>2, <1>3, <1>4, FailureIsNothing
<1>6. ASSUME last'.reply.success, ~ SaysNothing(a, last'.reply) PROVE TakesEffect(a)
  <2>1. /\ a.type # "LOOKUP" /\ ~ (a.type = "RESIZE" /\ a.size = 0)
        /\ a.type = "RENAME" => ParentDir(a.path) \notin {ParentDir(a.to), a.to} /\ ~ IsBelow(a.to, a.path)
        /\ a.type = "COPY" => last'.reply.output
    BY <1>6 DEF SaysNothing
  <2>2. Done(a).success = TRUE
    BY <1>3, <1>4, <1>6, <2>1
  <2>3. QED BY <1>2, <1>3, <2>1, <2>2, SuccessIsEffect
<1>7. QED BY <1>2, <1>5, <1>6

\* A client that reads a failure finds the store as it was, and one that reads
\* a success finds the effect of its action in it, whichever machine's output
\* comes first; SaysNothing lists the successes that do not mean it.
THEOREM TruthIsTold == Spec => ClientsAreToldTheTruth
BY Invariance, StepTells, PTL DEF Spec, ClientsAreToldTheTruth

----------------------------------------------------------------------------
(***************************************************************************)
(* The refinement: what the operations do to the files of FileTree.        *)
(***************************************************************************)
\* The files that FileTree speaks of.
Files(s) == [p \in DOMAIN s |-> File(s[p])]

\* What FileTree says of a path is what the store says of it.
LEMMA TreeHas ==
  ASSUME careful, NEW p
  PROVE  Tree!Has(p) <=> Has(p)
BY DEF Tree!Has, Has

LEMMA TreeParent == ASSUME NEW p PROVE Tree!Parent(p) = ParentDir(p)
BY DEF Tree!Parent, ParentDir, Tree!Front, Front

LEMMA TreeFree ==
  ASSUME careful, Good(store), Shape(store), NEW p \in Path \ {Root}
  PROVE  Tree!Free(p) <=> CanLink(p)
BY TreeHas, TreeParent, ListedIsThere DEF Tree!Free, CanLink

LEMMA TreeIsData ==
  ASSUME careful, NEW p
  PROVE  Tree!IsData(p) <=> HasData(p)
BY TreeHas DEF Tree!IsData, HasData, Has, File

\* A directory is empty just when it lists nothing.
LEMMA TreeChildren ==
  ASSUME careful, Good(store), Shape(store), NEW p \in Path, Has(p)
  PROVE  Tree!Children(p) = {} <=> store[p].contents = << >>
<1>1. Tree!Children(p) = {q \in DOMAIN store \ {Root} : ParentDir(q) = p}
  BY TreeParent DEF Tree!Children
<1>2. ASSUME store[p].contents = << >>, NEW q \in DOMAIN store \ {Root}, ParentDir(q) = p
      PROVE  FALSE
  <2>1. FileName(q) \in Names(store, p)
    BY <1>2 DEF Shape
  <2>2. QED BY <1>2, <2>1, NoNames DEF Names
<1>3. ASSUME store[p].contents # << >> PROVE \E q \in DOMAIN store \ {Root} : ParentDir(q) = p
  <2>1. /\ store[p].contents \in Seq(STRING) /\ Names(store, p) \subseteq STRING
        /\ p \in DOMAIN store
    BY NamesAreStrings DEF Has
  <2>2. PICK n \in Names(store, p) : TRUE
    BY <1>3, <2>1, SomeNames DEF Names
  <2>3. Append(p, n) \in DOMAIN store
    BY <2>1, <2>2 DEF Shape
  <2>4. Append(p, n) # Root /\ ParentDir(Append(p, n)) = p
    BY <2>1, <2>2, JoinPath
  <2>5. QED BY <2>3, <2>4
<1>4. QED BY <1>1, <1>2, <1>3

\* FileTree lets an action succeed just when the operation does.
LEMMA TreeSuccess ==
  ASSUME careful, Good(store), Shape(store), NEW a \in Inputs, Careful(a)
  PROVE  Tree!Success(a) = Done(a).success
<1>0. StoreIsFunction
  BY DEF Good, StoreIsFunction, IsFunction
<1>2. CASE a.type = "CREATE_FILE"
  <2>1. a.path \in Path \ {Root}
    BY <1>2, InputTypes
  <2>2. Tree!Success(a) <=> CanLink(a.path)
    BY <1>2, <2>1, TreeFree DEF Tree!Success
  <2>3. QED BY <1>0, <1>2, <2>2, CreateFileDoes DEF Succeeds, Fails, Tree!Success
<1>3. CASE a.type = "ERASE"
  <2>1. a.path \in Path \ {Root} /\ a.path \in Path
    BY <1>3, InputTypes
  <2>2. Has(a.path) => (Tree!Children(a.path) = {} <=> store[a.path].contents = << >>)
    BY <2>1, TreeChildren
  <2>3. Tree!Success(a) <=> Has(ParentDir(a.path)) /\ Has(a.path) /\ store[a.path].contents = << >>
    BY <1>3, <2>2, TreeHas, TreeParent DEF Tree!Success
  <2>4. Has(a.path) => (store[a.path].type = "DIR" \/ store[a.path].contents = << >>)
    BY DEF Shape, Good, Entry, Has
  <2>5. Tree!Success(a) <=> CanErase(a.path)
    BY <2>3, <2>4 DEF CanErase
  <2>6. QED BY <1>0, <1>3, <2>5, EraseDoes DEF Succeeds, Fails, Tree!Success
<1>4. CASE a.type = "COPY"
  <2>1. a.to \in Path \ {Root}
    BY <1>4, InputTypes
  <2>2. Tree!Success(a) <=> Has(a.path) /\ CanLink(a.to)
    BY <1>4, <2>1, TreeHas, TreeFree DEF Tree!Success
  <2>3. QED BY <1>0, <1>4, <2>2, CopyDoes DEF Succeeds, Fails, Tree!Success
<1>5. CASE a.type = "RENAME"
  <2>1. a.to \in Path \ {Root} /\ a.path \in Path \ {Root}
    BY <1>5, InputTypes
  <2>2. Tree!Success(a) <=> Has(a.path) /\ CanLink(a.to)
    BY <1>5, <2>1, TreeHas, TreeFree DEF Tree!Success
  <2>3. Has(a.path) => Has(ParentDir(a.path))
    BY <2>1, ListedIsThere
  <2>4. Tree!Success(a) <=> CanRename(a)
    BY <2>2, <2>3 DEF CanRename
  <2>5. QED BY <1>0, <1>5, <2>4, RenameDoes DEF Succeeds, Fails, Tree!Success
<1>6. CASE a.type = "RESIZE"
  <2>1. Tree!Success(a) <=> HasData(a.path)
    BY <1>6, TreeIsData DEF Tree!Success
  <2>2. QED BY <1>0, <1>6, <2>1, ResizeDoes DEF Succeeds, Fails, Tree!Success
<1>7. CASE a.type = "APPEND"
  <2>1. Tree!Success(a) <=> HasData(a.path)
    BY <1>7, TreeIsData DEF Tree!Success
  <2>2. QED BY <1>0, <1>7, <2>1, AppendDoes DEF Succeeds, Fails, Tree!Success
<1>8. QED BY <1>2, <1>3, <1>4, <1>5, <1>6, <1>7, InputTypes DEF Careful

\* The files of a store.
LEMMA FilesOf ==
  ASSUME NEW s
  PROVE  DOMAIN Files(s) = DOMAIN s /\ \A p \in DOMAIN s : Files(s)[p] = File(s[p])
BY DEF Files

\* Names are no part of a file.
LEMMA SameFile ==
  ASSUME NEW d, NEW e, d.type = e.type, d.parts = e.parts
  PROVE  File(d) = File(e)
BY DEF File

\* A new file has no bytes.
LEMMA NewFile ==
  ASSUME NEW type \in {"DATA", "DIR"}
  PROVE  File(NewEntry(type)) = [type |-> type, bytes |-> << >>]
<1> DEFINE s == << >>
<1>1. s \in Seq(Part) /\ Len(s) = 0
  OBVIOUS
<1>2. NewEntry(type).type = type /\ NewEntry(type).parts = s
  BY NewEntryIs
<1> HIDE DEF s
<1>3. Bytes(s) \in Seq(Nat \X Nat) /\ Len(Bytes(s)) = 0
  <2>1. Size(s) = Total(s, 0)
    BY <1>1 DEF Size
  <2>2. Size(s) = 0
    BY <1>1, <2>1, TotalSteps
  <2>3. QED BY <1>1, <2>2, BytesIs
<1>4. Bytes(s) = << >>
  BY <1>3
<1>5. QED BY <1>2, <1>4 DEF File

\* Linking adds one file.
LEMMA LinkedFiles ==
  ASSUME Good(store), NEW p \in Path \ {Root}, CanLink(p), NEW e
  PROVE  Files(Linked(store, p, e)) =
           [q \in DOMAIN store \cup {p} |-> IF q = p THEN File(e) ELSE File(store[q])]
<1> DEFINE t == Linked(store, p, e)
           par == ParentDir(p)
<1>1. DOMAIN t = DOMAIN store \cup {p}
  BY LinkedIs
<1>2. t[p] = e
  BY LinkedIs
<1>3. t[par] = AddName(store[par], FileName(p))
  BY LinkedIs
<1>4. File(t[par]) = File(store[par])
  BY <1>3, AddIsGood, SameFile
<1>5. ASSUME NEW q \in DOMAIN store, q # p PROVE File(t[q]) = File(store[q])
  <2>1. CASE q = par
    BY <1>4, <2>1
  <2>2. CASE q # par
    BY <1>5, <2>2, LinkedElsewhere
  <2>3. QED BY <2>1, <2>2
<1> HIDE DEF t
<1>6. QED BY <1>1, <1>2, <1>5 DEF Files, t

\* Unlinking takes one away.
LEMMA FilesOfUnlinked ==
  ASSUME Good(store), NEW s, NEW p \in Path \ {Root}, Has(ParentDir(p)), Listed(p),
         s[ParentDir(p)] = store[ParentDir(p)],
         NEW t, IsFunction(t), DOMAIN t = DOMAIN s \ {p},
         t[ParentDir(p)] = RemoveName(store[ParentDir(p)], FileName(p)),
         \A q \in DOMAIN t : q # ParentDir(p) => t[q] = s[q]
  PROVE  Files(t) = [q \in DOMAIN s \ {p} |-> File(s[q])]
<1> DEFINE par == ParentDir(p)
<1>1. File(t[par]) = File(s[par])
  <2>1. t[par].type = s[par].type /\ t[par].parts = s[par].parts
    BY RemoveIsGood
  <2>2. QED BY <2>1, SameFile
<1>2. ASSUME NEW q \in DOMAIN t PROVE File(t[q]) = File(s[q])
  <2>1. CASE q = par
    BY <1>1, <2>1
  <2>2. CASE q # par
    BY <2>2
  <2>3. QED BY <2>1, <2>2
<1>3. QED BY <1>2 DEF Files

\* Each operation, where it succeeds, has the effect that FileTree gives it.
LEMMA CreateFileHasEffect ==
  ASSUME careful, Good(store), Shape(store), NEW a \in Inputs, Careful(a), a.type = "CREATE_FILE",
         CanLink(a.path)
  PROVE  Tree!Effect(a) = Files(Linked(store, a.path, NewEntry(a.kind)))
<1>1. a.path \in Path \ {Root} /\ a.kind \in {"DATA", "DIR"}
  BY InputTypes
<1>2. Tree!Effect(a) = Tree!With(a.path, [type |-> a.kind, bytes |-> << >>])
  BY DEF Tree!Effect
<1> DEFINE f == [type |-> a.kind, bytes |-> << >>]
           p == a.path
<1>3. File(NewEntry(a.kind)) = f
  BY <1>1, NewFile
<1>4. Files(Linked(store, p, NewEntry(a.kind))) =
        [q \in DOMAIN store \cup {p} |-> IF q = p THEN f ELSE File(store[q])]
  <2> DEFINE e == NewEntry(a.kind)
  <2>1. File(e) = f
    BY <1>3
  <2> HIDE DEF e, f
  <2>2. Files(Linked(store, p, e)) =
          [q \in DOMAIN store \cup {p} |-> IF q = p THEN File(e) ELSE File(store[q])]
    BY <1>1, LinkedFiles
  <2>3. QED BY <2>1, <2>2 DEF e
<1> HIDE DEF f, p
<1>5. Tree!With(p, f) = [q \in DOMAIN store \cup {p} |-> IF q = p THEN f ELSE File(store[q])]
  BY DEF Tree!With
<1>6. QED BY <1>2, <1>4, <1>5 DEF f, p

LEMMA CopyHasEffect ==
  ASSUME careful, Good(store), Shape(store), NEW a \in Inputs, Careful(a), a.type = "COPY",
         Has(a.path), CanLink(a.to)
  PROVE  Tree!Effect(a) = Files(Linked(store, a.to, store[a.path]))
<1>1. a.to \in Path \ {Root} /\ a.path \in DOMAIN store
  BY InputTypes DEF Has
<1> DEFINE f == File(store[a.path])
           p == a.to
<1>2. Tree!Effect(a) = Tree!With(p, f)
  BY <1>1 DEF Tree!Effect
<1>4. Files(Linked(store, p, store[a.path])) =
        [q \in DOMAIN store \cup {p} |-> IF q = p THEN f ELSE File(store[q])]
  BY <1>1, LinkedFiles
<1> HIDE DEF f, p
<1>5. Tree!With(p, f) = [q \in DOMAIN store \cup {p} |-> IF q = p THEN f ELSE File(store[q])]
  BY DEF Tree!With
<1>6. QED BY <1>2, <1>4, <1>5 DEF p

LEMMA EraseHasEffect ==
  ASSUME careful, Good(store), Shape(store), NEW a \in Inputs, Careful(a), a.type = "ERASE",
         CanErase(a.path)
  PROVE  Tree!Effect(a) = Files(Unlinked(Without(store, a.path), a.path))
<1> DEFINE p == a.path
           par == ParentDir(p)
           t == Unlinked(Without(store, p), p)
<1>1. p \in Path \ {Root} /\ p \in DOMAIN store
  BY InputTypes DEF CanErase, Has
<1>2. Has(par) /\ Listed(p)
  BY <1>1, EraseKeepsShape
<1>3. /\ DOMAIN t = DOMAIN store \ {p}
      /\ t[par] = RemoveName(store[par], FileName(p))
      /\ \A q \in DOMAIN t : q # par => t[q] = store[q]
  BY <1>1, <1>2, ErasedIs
<1>4. IsFunction(t)
  <2>1. Good(Without(store, p))
    BY <1>1, WithoutIsGood
  <2>2. QED BY <1>1, <1>2, <2>1, UnlinkedIsGood DEF Good
<1> HIDE DEF t
<1>5. Files(t) = [q \in DOMAIN store \ {p} |-> File(store[q])]
  BY <1>1, <1>2, <1>3, <1>4, FilesOfUnlinked
<1>6. Tree!Effect(a) = [q \in DOMAIN store \ {p} |-> File(store[q])]
  BY DEF Tree!Effect, Tree!Without
<1>7. QED BY <1>5, <1>6 DEF t

LEMMA RenameHasEffect ==
  ASSUME careful, Good(store), Shape(store), NEW a \in Inputs, Careful(a), a.type = "RENAME",
         CanRename(a)
  PROVE  Tree!Effect(a) = Files(Renamed(a))
<1> DEFINE p == a.path
           r == a.to
           from == ParentDir(p)
           e == store[p]
           s == Linked(store, r, e)
           t == Without(Unlinked(s, p), p)
           f == File(e)
<1>1. /\ p \in Path \ {Root} /\ r \in Path \ {Root} /\ p \in DOMAIN store
      /\ from \in DOMAIN store
  BY InputTypes DEF CanRename, Has
<1>2. Has(from) /\ CanLink(r) /\ Listed(p) /\ p # r /\ from # r /\ from # ParentDir(r)
  BY RenameKeepsShape DEF CanRename
<1>3. DOMAIN s = DOMAIN store \cup {r}
  BY <1>1, <1>2, LinkedIs
<1>4. s[from] = store[from]
  BY <1>1, <1>2, LinkedElsewhere
<1>5. Files(s) = [q \in DOMAIN store \cup {r} |-> IF q = r THEN f ELSE File(store[q])]
  BY <1>1, <1>2, LinkedFiles
<1> HIDE DEF s
<1>6. /\ DOMAIN t = DOMAIN s \ {p}
      /\ t[from] = RemoveName(store[from], FileName(p))
      /\ \A q \in DOMAIN t : q # from => t[q] = s[q]
  BY <1>1, <1>2, <1>3, MovedIs
<1>7. IsFunction(t)
  BY DEF Without, IsFunction
<1> HIDE DEF t
<1>8. Files(t) = [q \in DOMAIN s \ {p} |-> File(s[q])]
  BY <1>1, <1>2, <1>4, <1>6, <1>7, FilesOfUnlinked
<1> HIDE DEF f
<1>9. \A q \in DOMAIN s : File(s[q]) = IF q = r THEN f ELSE File(store[q])
  <2>1. \A q \in DOMAIN s : Files(s)[q] = File(s[q])
    BY FilesOf
  <2>2. QED BY <1>3, <1>5, <2>1
<1>10. Tree!Effect(a) = Tree!Without(Tree!With(r, f), p)
  BY <1>1 DEF Tree!Effect, f
<1> DEFINE g == [q \in DOMAIN store \cup {r} |-> IF q = r THEN f ELSE File(store[q])]
<1>11. Tree!With(r, f) = g
  BY DEF Tree!With
<1>12. Tree!Without(g, p) = [q \in DOMAIN g \ {p} |-> g[q]]
  BY DEF Tree!Without
<1>13. DOMAIN g = DOMAIN s /\ \A q \in DOMAIN s : g[q] = File(s[q])
  BY <1>3, <1>9
<1> HIDE DEF g
<1>14. [q \in DOMAIN g \ {p} |-> g[q]] = [q \in DOMAIN s \ {p} |-> File(s[q])]
  BY <1>13
<1>15. QED BY <1>8, <1>10, <1>11, <1>12, <1>14 DEF t, s, e, p, r, Renamed

\* Setting the parts of a file sets its bytes.
LEMMA PartsFiles ==
  ASSUME Good(store), NEW p, HasData(p), NEW parts \in Seq(Part)
  PROVE  Files(With(store, p, [store[p] EXCEPT !.parts = parts])) =
           [q \in DOMAIN store \cup {p} |->
              IF q = p THEN [type |-> store[p].type, bytes |-> Bytes(parts)] ELSE File(store[q])]
<1> DEFINE e == [store[p] EXCEPT !.parts = parts]
           t == With(store, p, e)
<1>1. store[p] \in Entry
  BY DEF HasData, Has, Good
<1>2. e.type = store[p].type /\ e.parts = parts
  BY <1>1, EntryParts
<1> HIDE DEF e
<1>3. File(e) = [type |-> store[p].type, bytes |-> Bytes(parts)]
  BY <1>2 DEF File
<1>4. DOMAIN t = DOMAIN store \cup {p} /\ t[p] = e /\ \A q \in DOMAIN store : q # p => t[q] = store[q]
  BY DEF With
<1> HIDE DEF t
<1>5. Files(t) = [q \in DOMAIN store \cup {p} |-> IF q = p THEN File(e) ELSE File(store[q])]
  BY <1>4 DEF Files
<1>6. QED BY <1>3, <1>5 DEF t, e

\* A RESIZE has its effect on bytes, not on parts.
LEMMA ResizeHasEffect ==
  ASSUME careful, Good(store), Shape(store), NEW a \in Inputs, Careful(a), a.type = "RESIZE",
         HasData(a.path)
  PROVE  Tree!Effect(a) = Files(With(store, a.path, [store[a.path] EXCEPT
                            !.parts = ResizedParts(store[a.path].parts, a.size)]))
<1> DEFINE p == a.path
           old == store[p].parts
           new == ResizedParts(old, a.size)
           f == [type |-> store[p].type, bytes |-> Bytes(new)]
<1>1. a.size \in Nat /\ a.size # 0 /\ p \in DOMAIN store /\ old \in Seq(Part)
  BY InputTypes DEF Careful, HasData, Has, Good, Entry
<1>2. new \in Seq(Part) /\ Bytes(new) = First(Bytes(old), a.size)
  BY <1>1, ResizedBytes
<1>3. Tree!Resized(Bytes(old), a.size, <<0, 0>>) = First(Bytes(old), a.size)
  BY DEF Tree!Resized, First
<1> HIDE DEF new
<1>4. Files(With(store, p, [store[p] EXCEPT !.parts = new])) =
        [q \in DOMAIN store \cup {p} |-> IF q = p THEN f ELSE File(store[q])]
  BY <1>2, PartsFiles
<1>5. Tree!Effect(a) = Tree!With(p, [File(store[p]) EXCEPT !.bytes = Tree!Resized(@, a.size, <<0, 0>>)])
  BY <1>1 DEF Tree!Effect
<1>6. [File(store[p]) EXCEPT !.bytes = Tree!Resized(@, a.size, <<0, 0>>)] = f
  BY <1>2, <1>3 DEF File
<1> HIDE DEF f
<1>7. Tree!With(p, f) = [q \in DOMAIN store \cup {p} |-> IF q = p THEN f ELSE File(store[q])]
  BY DEF Tree!With
<1>8. QED BY <1>4, <1>5, <1>6, <1>7 DEF new

\* So has an APPEND.
LEMMA AppendHasEffect ==
  ASSUME careful, Good(store), Shape(store), NEW a \in Inputs, Careful(a), a.type = "APPEND",
         HasData(a.path)
  PROVE  Tree!Effect(a) = Files(With(store, a.path, [store[a.path] EXCEPT !.parts = @ \o a.data]))
<1> DEFINE p == a.path
           old == store[p].parts
           new == old \o a.data
           f == [type |-> store[p].type, bytes |-> Bytes(new)]
           data == {b.data : b \in {c \in Inputs : c.type = "APPEND"}}
           bytesOf == [d \in data |-> Bytes(d)]
<1>1. a.data \in Seq(Part) /\ p \in DOMAIN store /\ old \in Seq(Part)
  BY InputTypes DEF HasData, Has, Good, Entry
<1>2. new \in Seq(Part) /\ Bytes(new) = Bytes(old) \o Bytes(a.data)
  BY <1>1, ConcatIs, ConcatBytes
<1>3. bytesOf[a.data] = Bytes(a.data)
  <2>1. a.data \in data
    OBVIOUS
  <2> HIDE DEF data
  <2>2. QED BY <2>1
<1>4. Files(With(store, p, [store[p] EXCEPT !.parts = new])) =
        [q \in DOMAIN store \cup {p} |-> IF q = p THEN f ELSE File(store[q])]
  BY <1>2, PartsFiles
<1>5. Tree!Effect(a) = Tree!With(p, [File(store[p]) EXCEPT !.bytes = @ \o bytesOf[a.data]])
  BY <1>1 DEF Tree!Effect
<1> HIDE DEF new, bytesOf
<1>6. [File(store[p]) EXCEPT !.bytes = @ \o bytesOf[a.data]] = f
  <2> DEFINE both == Bytes(old) \o bytesOf[a.data]
  <2>1. Bytes(new) = both
    BY <1>2, <1>3
  <2> HIDE DEF both
  <2>2. [File(store[p]) EXCEPT !.bytes = both] = f
    BY <2>1 DEF File
  <2>3. File(store[p]).bytes = Bytes(old)
    BY DEF File
  <2>4. QED BY <2>2, <2>3 DEF both
<1> HIDE DEF f
<1>7. Tree!With(p, f) = [q \in DOMAIN store \cup {p} |-> IF q = p THEN f ELSE File(store[q])]
  BY DEF Tree!With
<1>8. QED BY <1>4, <1>5, <1>6, <1>7 DEF new

\* What a careful client's action does is what FileTree says.
LEMMA CarefulActionIsDone ==
  ASSUME careful, Good(store), Shape(store), NEW a \in Inputs, Careful(a)
  PROVE  Files(Install(Done(a))) = IF Tree!Success(a) THEN Tree!Effect(a) ELSE Files(store)
<1>0. StoreIsFunction
  BY DEF Good, StoreIsFunction, IsFunction
<1>1. Tree!Success(a) = Done(a).success
  BY TreeSuccess
<1>2. CASE Fails(a)
  BY <1>1, <1>2 DEF Fails
<1>3. ASSUME NEW s, Succeeds(a, s), Tree!Effect(a) = Files(s)
      PROVE  Files(Install(Done(a))) = IF Tree!Success(a) THEN Tree!Effect(a) ELSE Files(store)
  BY <1>1, <1>3 DEF Succeeds
<1>4. CASE a.type = "CREATE_FILE"
  BY <1>0, <1>2, <1>3, <1>4, CreateFileDoes, CreateFileHasEffect
<1>5. CASE a.type = "ERASE"
  BY <1>0, <1>2, <1>3, <1>5, EraseDoes, EraseHasEffect
<1>6. CASE a.type = "COPY"
  BY <1>0, <1>2, <1>3, <1>6, CopyDoes, CopyHasEffect
<1>7. CASE a.type = "RENAME"
  BY <1>0, <1>2, <1>3, <1>7, RenameDoes, RenameHasEffect
<1>8. CASE a.type = "RESIZE"
  <2>1. a.size # 0
    BY <1>8 DEF Careful
  <2>2. QED BY <1>0, <1>2, <1>3, <1>8, <2>1, ResizeDoes, ResizeHasEffect
<1>9. CASE a.type = "APPEND"
  BY <1>0, <1>2, <1>3, <1>9, AppendDoes, AppendHasEffect
<1>10. QED BY <1>4, <1>5, <1>6, <1>7, <1>8, <1>9, InputTypes DEF Careful

\* The initial states are those of FileTree.
LEMMA TreeStarts == Init => Tree!Init
<1> SUFFICES ASSUME Init PROVE Tree!Init
  OBVIOUS
<1>1. /\ store = [p \in {Root} |-> NewEntry("DIR")] /\ last.action = [type |-> "NONE"]
      /\ last.success = TRUE
  BY DEF Init
<1> DEFINE empty == [type |-> "DIR", bytes |-> << >>]
<1>2. File(NewEntry("DIR")) = empty
  BY NewFile
<1>3. [p \in {Root} |-> File(NewEntry("DIR"))] = [p \in {Root} |-> empty]
  BY <1>2
<1>4. [p \in DOMAIN store |-> File(store[p])] = [p \in {Root} |-> empty]
  BY <1>1, <1>2
<1>5. QED BY <1>1, <1>3, <1>4 DEF Tree!Init

\* Every step is one of FileTree, or none.
LEMMA TreeSteps ==
  ASSUME IInv, [Next]_vars
  PROVE  [Tree!Next]_(Tree!vars)
<1>1. CASE Next /\ careful
  <2>1. PICK a \in Inputs : Careful(a) /\ Run(a)
    BY <1>1 DEF Next
  <2>2. /\ store' = Install(Done(a)) /\ careful' = careful /\ last'.action = a
        /\ last'.success = Done(a).success
    BY <2>1, RunDoes
  <2>3. Good(store) /\ Shape(store)
    BY <1>1 DEF IInv
  <2>4. Files(Install(Done(a))) = IF Tree!Success(a) THEN Tree!Effect(a) ELSE Files(store)
    BY <1>1, <2>1, <2>3, CarefulActionIsDone
  <2>5. Tree!Success(a) = Done(a).success
    BY <1>1, <2>1, <2>3, TreeSuccess
  <2>6. [p \in DOMAIN store' |-> File(store'[p])] = Files(Install(Done(a)))
    BY <2>2 DEF Files
  <2>7. Tree!Do(a)
    BY <1>1, <2>2, <2>4, <2>5, <2>6 DEF Tree!Do, Files, File
  <2>8. QED BY <2>7 DEF Tree!Next
<1>2. CASE Next /\ ~ careful
  <2>1. careful' = careful
    BY <1>2 DEF Next, Run
  <2>2. UNCHANGED Tree!vars
    BY <1>2, <2>1 DEF Tree!vars, File
  <2>3. QED BY <2>2
<1>3. CASE UNCHANGED vars
  BY <1>3 DEF vars, Tree!vars, File
<1>4. QED BY <1>1, <1>2, <1>3

\* The operations on lists of names, and on parts of blocks, implement a tree of
\* files that are sequences of bytes, for careful clients.
THEOREM Implements == Spec => ImplementsFileTree
BY Invariance, TreeStarts, TreeSteps, PTL DEF Spec, ImplementsFileTree, Tree!Spec
=============================================================================
