--------------------------- MODULE MetadataStore ----------------------------
(***************************************************************************)
(* The operations of fs/metadata_store.cc on one replica of the metadata.  *)
(* The scheduler makes actions serial, so one action runs at a time; it is *)
(* run by every machine that holds a path of its read or write set, and    *)
(* every one of them sends its output to the client, who takes the first.  *)
(*                                                                         *)
(* A path is the sequence of its names; the root directory is the empty    *)
(* one.  (GetRWSets ends the program for the root where a parent is        *)
(* needed, so those inputs are none, and the tests for the root in the     *)
(* operations never matter.)                                               *)
(***************************************************************************)
EXTENDS Integers, SequencesExt

CONSTANTS
  Inputs,    \* actions that clients send
  Shard,     \* path -> the machine that holds its entry
  MaxBytes   \* bound on the length of a file

Path == Seq(STRING)
Root == << >>

Part  == [length : Nat, block : Nat]
Entry == [type : {"DATA", "DIR"}, parts : Seq(Part), contents : Seq(STRING)]

InputRecord ==
  [type : {"CREATE_FILE"}, path : Path \ {Root}, kind : {"DATA", "DIR"}]
  \cup [type : {"ERASE"}, path : Path \ {Root}]
  \cup [type : {"COPY"}, path : Path, to : Path \ {Root}]
  \cup [type : {"RENAME"}, path : Path \ {Root}, to : Path \ {Root}]
  \cup [type : {"LOOKUP"}, path : Path]
  \cup [type : {"RESIZE"}, path : Path, size : Nat]
  \cup [type : {"APPEND"}, path : Path, data : Seq(Part)]

ASSUME MetadataStoreAssumption ==
  /\ MaxBytes \in Nat \ {0}
  /\ Inputs \subseteq InputRecord

VARIABLES
  store,    \* path -> entry, for the paths that have one
  last,     \* the last action, its success, and what the client read
  careful   \* the clients keep the rules stated in Careful

vars == <<store, last, careful>>

ParentDir(p) == Front(p)
FileName(p)  == Last(p)

\* An entry of type DATA has parts, one of type DIR lists names.
NewEntry(type) == [type |-> type, parts |-> << >>, contents |-> << >>]

----------------------------------------------------------------------------
(***************************************************************************)
(* GetRWSets.                                                              *)
(***************************************************************************)
ReadSet(a) ==
  CASE a.type \in {"CREATE_FILE", "ERASE"} -> {a.path, ParentDir(a.path)}
    [] a.type = "COPY"   -> {a.path, ParentDir(a.to)}
    [] a.type = "RENAME" -> {a.path, ParentDir(a.path), ParentDir(a.to)}
    [] OTHER             -> {a.path}

\* (Mutant of WriteSet: the parent of the file that is removed is forgotten.)
WriteSetOfChild(a) ==
  CASE a.type = "CREATE_FILE" -> {a.path, ParentDir(a.path)}
    [] a.type = "ERASE"  -> {a.path}
    [] a.type = "COPY"   -> {a.to, ParentDir(a.to)}
    [] a.type = "RENAME" -> {a.path, a.to, ParentDir(a.to)}
    [] a.type = "LOOKUP" -> {}
    [] OTHER             -> {a.path}

WriteSet(a) ==
  CASE a.type \in {"CREATE_FILE", "ERASE"} -> {a.path, ParentDir(a.path)}
    [] a.type = "COPY"   -> {a.to, ParentDir(a.to)}
    [] a.type = "RENAME" -> {a.path, ParentDir(a.path), a.to, ParentDir(a.to)}
    [] a.type = "LOOKUP" -> {}
    [] OTHER             -> {a.path}

----------------------------------------------------------------------------
(***************************************************************************)
(* ExecutionContext: the reads, and the writes and deletions that its      *)
(* destructor installs.  success is the answer of the operation so far.    *)
(***************************************************************************)
NewContext(a) ==
  [reads     |-> [p \in ReadSet(a) \cap DOMAIN store |-> store[p]],
   writes    |-> << >>,
   deletions |-> {},
   success   |-> TRUE]

Exists(c, p) == p \in DOMAIN c.reads

With(f, p, entry) == [q \in DOMAIN f \cup {p} |-> IF q = p THEN entry ELSE f[q]]
Without(f, p)     == [q \in DOMAIN f \ {p} |-> f[q]]

PutEntry(c, p, entry) ==
  [c EXCEPT !.deletions = @ \ {p},
            !.writes = With(@, p, entry),
            !.reads = IF p \in DOMAIN @ THEN [@ EXCEPT ![p] = entry] ELSE @]

DeleteEntry(c, p) ==
  [c EXCEPT !.reads = Without(@, p), !.writes = Without(@, p),
            !.deletions = @ \cup {p}]

Fail(c) == [c EXCEPT !.success = FALSE]

\* The destructors, on all machines together.
Install(c) ==
  [p \in (DOMAIN c.writes \cup DOMAIN store) \ c.deletions |->
     IF p \in DOMAIN c.writes THEN c.writes[p] ELSE store[p]]

----------------------------------------------------------------------------
(***************************************************************************)
(* The operations.                                                         *)
(***************************************************************************)
\* (Mutant of Lists: only the last name is compared.)
ListsLast(entry, name) == entry.contents # << >> /\ Last(entry.contents) = name

Lists(entry, name) == Contains(entry.contents, name)
AddName(entry, name) == [entry EXCEPT !.contents = Append(@, name)]

\* The name is swapped with the last one, which is removed.
RemoveName(entry, name) ==
  LET names == entry.contents
      i == SelectInSeq(names, LAMBDA n : n = name)
  IN  [entry EXCEPT !.contents = Front([names EXCEPT ![i] = Last(names)])]

CreateFile(c, a) ==
  LET parent == ParentDir(a.path) IN
  IF ~ Exists(c, parent) \/ Lists(c.reads[parent], FileName(a.path)) THEN Fail(c)
  ELSE PutEntry(PutEntry(c, parent, AddName(c.reads[parent], FileName(a.path))),
                a.path, NewEntry(a.kind))

\* (Mutant of Erase: a directory is erased whatever it lists.)
EraseAnything(c, a) ==
  LET parent == ParentDir(a.path) IN
  IF ~ Exists(c, parent) \/ ~ Exists(c, a.path) THEN Fail(c)
  ELSE PutEntry(DeleteEntry(c, a.path), parent, RemoveName(c.reads[parent], FileName(a.path)))

Erase(c, a) ==
  LET parent == ParentDir(a.path)
      erased == DeleteEntry(c, a.path)
  IN
  IF \/ ~ Exists(c, parent) \/ ~ Exists(c, a.path)
     \/ c.reads[a.path].type = "DIR" /\ c.reads[a.path].contents # << >> THEN Fail(c)
  ELSE IF ~ Lists(c.reads[parent], FileName(a.path)) THEN erased
  ELSE PutEntry(erased, parent, RemoveName(c.reads[parent], FileName(a.path)))

Copy(c, a) ==
  LET parent == ParentDir(a.to) IN
  IF \/ ~ Exists(c, a.path) \/ ~ Exists(c, parent)
     \/ Lists(c.reads[parent], FileName(a.to)) THEN Fail(c)
  ELSE PutEntry(PutEntry(c, parent, AddName(c.reads[parent], FileName(a.to))),
                a.to, c.reads[a.path])

\* The entries are all looked up first: the last PutEntry of a parent wins.
Rename(c, a) ==
  LET fromParent == ParentDir(a.path)
      toParent   == ParentDir(a.to)
      linked == PutEntry(PutEntry(c, toParent, AddName(c.reads[toParent], FileName(a.to))),
                         a.to, c.reads[a.path])
      unlinked == IF ~ Lists(c.reads[fromParent], FileName(a.path)) THEN linked
                  ELSE PutEntry(linked, fromParent,
                                RemoveName(c.reads[fromParent], FileName(a.path)))
  IN
  IF \/ ~ Exists(c, a.path) \/ ~ Exists(c, fromParent) \/ ~ Exists(c, toParent)
     \/ Lists(c.reads[toParent], FileName(a.to)) THEN Fail(c)
  ELSE DeleteEntry(unlinked, a.path)

IsData(c, p) == Exists(c, p) /\ c.reads[p].type = "DATA"

\* What the loop over the parts adds up to.
Totals(parts) ==
  LET total[n \in 0 .. Len(parts)] ==
        IF n = 0 THEN 0 ELSE total[n - 1] + parts[n].length
  IN  total
Total(parts, n) == Totals(parts)[n]
Size(parts)     == Total(parts, Len(parts))

\* The part in which the size is reached.
Reaches(parts, size) ==
  CHOOSE n \in 1 .. Len(parts) :
    Total(parts, n) >= size /\ \A k \in 1 .. n - 1 : Total(parts, k) < size

\* (Mutant of Truncate: the parts that follow are kept.)
TruncateOnly(parts, size) ==
  LET n == Reaches(parts, size) IN [parts EXCEPT ![n].length = @ - (Total(parts, n) - size)]

\* It becomes the last one, cut short.
Truncate(parts, size) ==
  LET n == Reaches(parts, size)
  IN  [SubSeq(parts, 1, n) EXCEPT ![n].length = @ - (Total(parts, n) - size)]

Zeros(length) == [length |-> length, block |-> 0]

\* (A resize to nothing clears the parts of a copy, and writes none of it.)
Resize(c, a) ==
  LET entry == c.reads[a.path]
      total == Size(entry.parts)
  IN
  IF ~ IsData(c, a.path) THEN Fail(c)
  ELSE IF a.size = 0 THEN c
  ELSE PutEntry(c, a.path,
         [entry EXCEPT !.parts = IF total < a.size THEN Append(@, Zeros(a.size - total))
                                 ELSE Truncate(@, a.size)])

AppendData(c, a) ==
  IF ~ IsData(c, a.path) THEN Fail(c)
  ELSE PutEntry(c, a.path, [c.reads[a.path] EXCEPT !.parts = @ \o a.data])

Execute(c, a) ==
  CASE a.type = "CREATE_FILE" -> CreateFile(c, a)
    [] a.type = "ERASE"       -> Erase(c, a)
    [] a.type = "COPY"        -> Copy(c, a)
    [] a.type = "RENAME"      -> Rename(c, a)
    [] a.type = "RESIZE"      -> Resize(c, a)
    [] a.type = "APPEND"      -> AppendData(c, a)

----------------------------------------------------------------------------
(***************************************************************************)
(* Run, and the client that reads the first output to arrive.  A machine   *)
(* with no path of the write set returns before it executes the action,    *)
(* and sends no output: the client parses an empty one, in which success   *)
(* has its default, and there is no entry.                                 *)
(***************************************************************************)
Machines(paths) == {Shard[p] : p \in paths}

NoOutput == [output |-> FALSE, success |-> TRUE]

Outputs(a, success) ==
  LET writers == Machines(WriteSet(a))
      readers == Machines(ReadSet(a)) \ writers
  IN  {[output |-> TRUE, success |-> success] : m \in writers} \cup {NoOutput : m \in readers}

Run(a) ==
  LET done == IF WriteSet(a) = {} THEN NewContext(a) ELSE Execute(NewContext(a), a) IN
  /\ store' = Install(done)
  /\ \E reply \in Outputs(a, done.success) :
       last' = [action |-> a, success |-> done.success, reply |-> reply]
  /\ UNCHANGED careful

\* The bytes of a file: those of its parts, a block of zeros where none is named.
Byte(part, i) == IF part.block = 0 THEN <<0, 0>> ELSE <<part.block, i>>
Bytes(parts) ==
  [j \in 1 .. Size(parts) |->
     LET n == Reaches(parts, j) IN Byte(parts[n], j - Total(parts, n - 1))]

IsBelow(q, p) == Len(q) > Len(p) /\ SubSeq(q, 1, Len(p)) = p

\* What a client must see to, because no operation does: a parent is a
\* directory; what is copied or renamed lists nothing; a file is not renamed
\* within its directory, nor into itself; no file is resized to nothing; and
\* nothing is looked up.
Careful(a) ==
  /\ a.type \in {"CREATE_FILE"} =>
       (ParentDir(a.path) \in DOMAIN store => store[ParentDir(a.path)].type = "DIR")
  /\ a.type \in {"COPY", "RENAME"} =>
       /\ a.path \in DOMAIN store => store[a.path].contents = << >>
       /\ ParentDir(a.to) \in DOMAIN store => store[ParentDir(a.to)].type = "DIR"
  /\ a.type = "RENAME" => ParentDir(a.path) # ParentDir(a.to) /\ ~ IsBelow(a.to, a.path)
  /\ a.type = "RESIZE" => a.size # 0
  /\ a.type # "LOOKUP"

\* (The bound: no file grows past MaxBytes.)
WithinBound(a) ==
  a.type = "APPEND" /\ a.path \in DOMAIN store =>
    Size(store[a.path].parts) + Size(a.data) <= MaxBytes

Init ==
  /\ store = [p \in {Root} |-> NewEntry("DIR")]
  /\ last = [action |-> [type |-> "NONE"], success |-> TRUE, reply |-> NoOutput]
  /\ careful \in BOOLEAN

Next ==
  \E a \in Inputs :
    /\ careful => Careful(a)
    /\ WithinBound(a)
    /\ Run(a)

Spec == Init /\ [][Next]_vars

----------------------------------------------------------------------------
(***************************************************************************)
(* Properties.                                                             *)
(***************************************************************************)
TypeOK ==
  /\ \A p \in DOMAIN store : p \in Path /\ store[p] \in Entry
  /\ Root \in DOMAIN store /\ store[Root].type = "DIR"
  /\ last.success \in BOOLEAN /\ last.reply.success \in BOOLEAN
  /\ careful \in BOOLEAN

\* Whatever clients send, a directory lists no name twice.
NamesAreUnique ==
  \A p \in DOMAIN store : IsInjective(store[p].contents)

\* The variables have their types, and names are unique.
Consistent == TypeOK /\ NamesAreUnique

\* An action changes the entries of its write set only: those its locks cover,
\* and those whose machines wait for its reads.
OnlyWriteSetChanges ==
  [][\A p \in DOMAIN store \cup DOMAIN store' :
       p \notin WriteSet(last'.action) =>
         p \in DOMAIN store /\ p \in DOMAIN store' /\ store[p] = store'[p]]_vars

\* Entries and the names that directories list are one tree: every entry is
\* listed in a directory that exists, and every name listed is an entry.
EntriesAreListed ==
  careful =>
    /\ \A p \in DOMAIN store \ {Root} :
         /\ ParentDir(p) \in DOMAIN store
         /\ Lists(store[ParentDir(p)], FileName(p))
    /\ \A p \in DOMAIN store : \A name \in ToSet(store[p].contents) :
         Append(p, name) \in DOMAIN store

\* The operations do to files what FileTree says, when clients are careful.
\* (For other clients the tree is mapped to one in which nothing happens.)
File(entry) == [type |-> entry.type, bytes |-> Bytes(entry.parts)]

Tree == INSTANCE FileTree WITH
  Actions <- Inputs,
  BytesOf <- [data \in {a.data : a \in {b \in Inputs : b.type = "APPEND"}} |-> Bytes(data)],
  tree    <- IF careful THEN [p \in DOMAIN store |-> File(store[p])]
             ELSE [p \in {Root} |-> File(NewEntry("DIR"))],
  last    <- IF careful THEN [action |-> last.action, success |-> last.success]
             ELSE [action |-> [type |-> "NONE"], success |-> TRUE]

ImplementsFileTree == Tree!Spec

\* What has happened to a path when an operation has had its effect.
IsListed(s, p) == ParentDir(p) \in DOMAIN s /\ Lists(s[ParentDir(p)], FileName(p))

Added(p, entry) ==
  /\ p \in DOMAIN store' /\ store'[p] = entry
  /\ ~ IsListed(store, p) /\ IsListed(store', p)

Removed(p) == p \in DOMAIN store \ DOMAIN store' /\ ~ IsListed(store', p)

BytesBecome(p, bytes) ==
  /\ p \in DOMAIN store /\ p \in DOMAIN store'
  /\ Bytes(store'[p].parts) = bytes

TakesEffect(a) ==
  \/ a.type = "CREATE_FILE" /\ Added(a.path, NewEntry(a.kind))
  \/ a.type = "ERASE" /\ Removed(a.path)
  \/ a.type = "COPY" /\ a.path \in DOMAIN store /\ Added(a.to, store[a.path])
  \/ a.type = "RENAME" /\ Removed(a.path) /\ Added(a.to, store[a.path])
  \/ a.type = "RESIZE"
     /\ BytesBecome(a.path, Tree!Resized(Bytes(store[a.path].parts), a.size, <<0, 0>>))
  \/ a.type = "APPEND"
     /\ BytesBecome(a.path, Bytes(store[a.path].parts) \o Bytes(a.data))

\* A success that says nothing: of a LOOKUP; of a COPY, from a machine that
\* only reads; of a resize to nothing, which is not done; and of a RENAME
\* within one directory, into itself or to its own parent, of which the one
\* half overwrites or deletes what the other wrote.
SaysNothing(a, reply) ==
  \/ a.type = "LOOKUP"
  \/ a.type = "COPY" /\ ~ reply.output
  \/ a.type = "RESIZE" /\ a.size = 0
  \/ a.type = "RENAME" /\ \/ ParentDir(a.path) \in {ParentDir(a.to), a.to}
                           \/ IsBelow(a.to, a.path)

\* Whichever machine's output comes first, and whatever clients send: a client
\* that reads a failure finds the store as it was before the action, and one
\* that reads a success finds the effect of the action in it.
ClientsAreToldTheTruth ==
  [][LET a == last'.action
         reply == last'.reply
     IN  /\ ~ reply.success => store' = store
         /\ reply.success => TakesEffect(a) \/ SaysNothing(a, reply)]_vars

\* metadata.proto: "Entry that was looked up. This field should appear iff
\* success == true."  The client that looks up a path reads an output.
LookupsAreAnswered ==
  last.action.type = "LOOKUP" /\ last.reply.success => last.reply.output
=============================================================================
