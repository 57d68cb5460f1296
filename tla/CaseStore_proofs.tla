-------------------------- MODULE CaseStore_proofs --------------------------
(***************************************************************************)
(* What holds of CaseStore for every set of names and every number of      *)
(* documents, stored files, lost cache writes, refused uploads and         *)
(* evictions: its types, that record, cache, files and status page agree,  *)
(* that a case at rest can be worked on, and that an upload only adds.     *)
(***************************************************************************)
EXTENDS CaseStore, FiniteSetTheorems, TLAPS

----------------------------------------------------------------------------
\* The inductive invariant

Saving == saving # NoSave

\* The documents known by the list of files, or by the record where there is none.
Known == Listed(Files(docs))

\* The entries of a list, and those the record would list.
EntriesOf(fs) == {fs[k] : k \in DOMAIN fs}
Records(ds) == {[id |-> i, path |-> ds[i].path] : i \in Stored(ds)}

\* A list names the documents of the record, with their paths but for those of rev.
Agrees(fs, ds, rev) ==
    /\ Listed(fs) = Stored(ds)
    /\ \A e \in EntriesOf(fs) : e.id \in rev \/ e.path = ds[e.id].path

\* A document lies under a name or under its own number, also where its last stage is to
\* put it, and no path holds a file that was not stored.
DocsOK ==
    /\ \A i \in Stored(docs) : docs[i].status # "absent" /\ docs[i].path[1] \in {0, i}
    /\ \A e \in held : e.path[1] \in {0, e.id}
    /\ \A p \in Paths : disk[p] <= saves

\* The file of a replacement lies where its row will say.
ReplacingOK ==
    replacing.content # 0 =>
        /\ replacing.path \in Ids \X Names
        /\ phase = "open" => disk[replacing.path] = replacing.content

\* No file is listed without its document.
ListOK == files # NoFiles => Listed(files) \subseteq Stored(docs)

\* The cached total may count an upload twice, when the keys vanish while its files
\* are awaited; it never runs further ahead of the documents known.
TotalOK == meta.total <= MaxDocs \/ \E i \in Known : meta.total <= MaxDocs + i

\* What an upload passed its gate with still holds when its files are there.
SavingOK ==
    Saving => /\ Len(saving.names) >= 1
              /\ saving.start + Len(saving.names) <= MaxDocs
              /\ saves + Len(saving.names) <= MaxSaves
              /\ meta.total <= MaxDocs + saving.start

\* There is a case row just while the case is open, and after it no document but
\* those of a request that was waiting for its files.
PhaseOK ==
    /\ phase = "open" <=> row # NoRow
    /\ row = NoRow \/ row.status # "absent"
    /\ phase = "new" => /\ ~Saving /\ fin = "none" /\ chord = {} /\ ~lock
                        /\ Stored(docs) = {} /\ files = NoFiles /\ meta = NoMeta
                        /\ replacing = NoReplace
    /\ phase = "deleted" /\ Saving => Stored(docs) = {}

\* The lock is held by an upload or by a pipeline, or was left by a refused upload.
LockOK ==
    phase = "open" =>
        /\ Saving => lock /\ fin = "none"
        /\ fin # "none" => lock
        /\ chord # {} => fin = "chord"
        /\ lock => fin # "none" \/ Saving \/ rejected > 0

\* Without a lost write the documents are numbered through, listed as they are, and
\* counted once; and an upload that waits for its files goes on after the last of them.
AgreeOK ==
    phase = "open" /\ lost = 0 =>
        /\ Stored(docs) = 1 .. row.total
        /\ files # NoFiles => Agrees(files, docs, reverted)
        /\ row.completed + row.failed <= row.total
        /\ Saving => saving.start = row.total

\* No document waits as unsupported behind a status, written or to be written, that
\* says "complete".
NoneRefused == \A i \in Ids : docs[i].status # "cfailed"

CompleteOK ==
    phase = "open" =>
        /\ row.status = "complete" /\ fin # "chord" => NoneRefused
        /\ fin = "write" /\ outcome = "complete" => NoneRefused

\* The cached status says "processing" only while a pipeline is to write another.
CacheOK ==
    /\ fin \in {"write", "cache", "release"} => outcome \in {"complete", "failed", "partial"}
    /\ phase = "open" /\ lost = 0 /\ evicted = 0 =>
          /\ meta # NoMeta
          /\ meta.status = "processing" => fin \in {"chord", "write", "cache"}

StoreInv ==
    /\ TypeOK /\ DocsOK /\ ListOK /\ TotalOK /\ SavingOK /\ PhaseOK
    /\ LockOK /\ AgreeOK /\ CompleteOK /\ CacheOK /\ OriginalIsServed /\ ReplacingOK

----------------------------------------------------------------------------
\* Facts about the operators

LEMMA Bounds ==
    /\ MaxDocs \in Nat /\ MaxDocs >= 1 /\ MaxSaves \in Nat
    /\ MaxLost \in Nat /\ MaxRejected \in Nat /\ MaxEvictions \in Nat
    /\ Ids = 1 .. MaxDocs /\ 1 \in Ids /\ NoPath \in Paths
BY BoundsAssumption DEF Ids, Paths

\* Where an upload lies, and where a replacement.
LEMMA PathNames ==
    /\ \A n \in Names : Raw(n) \in Paths /\ Raw(n)[1] = 0 /\ Raw(n) # NoPath
    /\ \A p \in Ids \X Names : p \in Paths /\ p[1] \in Ids /\ p[1] # 0 /\ p # NoPath
    /\ NoPath[1] = 0
BY Bounds, NamesAssumption DEF Paths, Raw, NoPath

LEMMA IdSets ==
    ASSUME NEW S \in SUBSET Ids
    PROVE  IsFiniteSet(S) /\ Cardinality(S) \in 0 .. MaxDocs
<1>1. IsFiniteSet(Ids) /\ Cardinality(Ids) = MaxDocs
  BY Bounds, FS_Interval
<1>2. IsFiniteSet(S) /\ Cardinality(S) <= MaxDocs
  BY <1>1, FS_Subset
<1> QED BY <1>2, Bounds, FS_CardinalityType

\* A bounded set of numbers has a largest one.
LEMMA Largest ==
    ASSUME NEW n \in Nat, NEW S \in SUBSET (0 .. n), S # {}
    PROVE  Max(S) \in S /\ \A x \in S : x <= Max(S)
<1> DEFINE T == {n - x : x \in S}
<1>1. T \subseteq Nat /\ T # {}
  <2>1. \A x \in S : n - x \in Nat
    OBVIOUS
  <2> QED BY <2>1
<1>2. PICK t \in T : \A u \in T : ~(<<u, t>> \in OpToRel(<, Nat))
  <2> HIDE DEF T
  <2> QED BY <1>1, NatLessThanWellFounded, WFMin
<1>3. ASSUME NEW u \in T PROVE t <= u
  <2>1. u \in Nat /\ t \in Nat /\ ~(<<u, t>> \in OpToRel(<, Nat))
    BY <1>1, <1>2
  <2> QED BY <2>1 DEF OpToRel
<1>4. PICK m \in S : t = n - m
  OBVIOUS
<1>5. ASSUME NEW x \in S PROVE m >= x
  <2>1. t <= n - x
    BY <1>3
  <2> QED BY <1>4, <2>1
<1> QED BY <1>4, <1>5 DEF Max

\* The list made from the record has an entry for each document, and no other.
LEMMA FilesOfRecord ==
    ASSUME NEW ds
    PROVE  /\ EntriesOf(FilesOf(ds)) = Records(ds)
           /\ DOMAIN FilesOf(ds) = 1 .. Cardinality(Stored(ds))
           /\ Cardinality(Stored(ds)) \in 0 .. MaxDocs
<1> DEFINE S == Stored(ds)
           n == Cardinality(S)
           upTo(i) == {j \in S : j <= i}
           rank == [i \in S |-> Cardinality(upTo(i))]
           nth(k) == CHOOSE i \in S : Cardinality(upTo(i)) = k
<1>1. S \in SUBSET Ids /\ IsFiniteSet(S) /\ n \in 0 .. MaxDocs
  BY IdSets DEF Stored
<1>2. ASSUME NEW i \in S
      PROVE  rank[i] \in 1 .. n
  <2>1. upTo(i) \in SUBSET S /\ upTo(i) # {}
    BY <1>1, <1>2, Bounds
  <2>2. IsFiniteSet(upTo(i)) /\ Cardinality(upTo(i)) <= n
    BY <1>1, <2>1, FS_Subset
  <2>3. Cardinality(upTo(i)) \in Nat /\ Cardinality(upTo(i)) # 0
    BY <2>1, <2>2, FS_EmptySet, FS_CardinalityType
  <2> QED BY <1>1, <2>2, <2>3
<1>3. ASSUME NEW i \in S, NEW j \in S, i < j
      PROVE  rank[i] # rank[j]
  <2>1. upTo(i) \in SUBSET upTo(j) /\ upTo(j) \in SUBSET S /\ j \in upTo(j) /\ j \notin upTo(i)
    BY <1>1, <1>3, Bounds
  <2>2. IsFiniteSet(upTo(j))
    BY <1>1, <2>1, FS_Subset
  <2>3. Cardinality(upTo(j)) = Cardinality(upTo(i)) => upTo(j) = upTo(i)
    BY <2>1, <2>2, FS_Subset
  <2> QED BY <2>1, <2>3
<1>4. rank \in Injection(S, 1 .. n)
  <2>1. rank \in [S -> 1 .. n]
    BY <1>2
  <2>2. ASSUME NEW i \in S, NEW j \in S, rank[i] = rank[j] PROVE i = j
    <3>1. i \in Int /\ j \in Int
      BY <1>1, Bounds
    <3> QED BY <1>3, <2>2, <3>1
  <2> HIDE DEF rank
  <2> QED BY <2>1, <2>2 DEF Injection, IsInjective
<1>5. rank \in Surjection(S, 1 .. n)
  <2>1. IsFiniteSet(1 .. n) /\ Cardinality(1 .. n) = n
    BY <1>1, FS_Interval
  <2> HIDE DEF rank
  <2> QED BY <1>4, <2>1, FS_Injection
<1>6. ASSUME NEW k \in 1 .. n PROVE nth(k) \in S /\ rank[nth(k)] = k
  <2>1. \E i \in S : rank[i] = k
    BY <1>5 DEF Surjection
  <2> QED BY <2>1
<1>7. ASSUME NEW i \in S PROVE \E k \in 1 .. n : nth(k) = i
  <2>1. rank[i] \in 1 .. n
    BY <1>2
  <2>2. nth(rank[i]) \in S /\ rank[nth(rank[i])] = rank[i]
    BY <1>6, <2>1
  <2>3. nth(rank[i]) = i
    <3> HIDE DEF rank, nth
    <3> QED BY <1>4, <2>2 DEF Injection, IsInjective
  <2> QED BY <2>1, <2>3
<1>8. FilesOf(ds) = [k \in 1 .. n |-> [id |-> nth(k), path |-> ds[nth(k)].path]]
  BY DEF FilesOf
<1>9. EntriesOf(FilesOf(ds)) = Records(ds)
  <2> DEFINE e(i) == [id |-> i, path |-> ds[i].path]
  <2>1. \A k \in 1 .. n : FilesOf(ds)[k] = e(nth(k))
    BY <1>8
  <2>2. DOMAIN FilesOf(ds) = 1 .. n
    BY <1>8
  <2> DEFINE fs == FilesOf(ds)
  <2>5. EntriesOf(FilesOf(ds)) = {fs[k] : k \in 1 .. n}
    BY <2>2 DEF EntriesOf
  <2>6. \A k \in 1 .. n : fs[k] = e(nth(k)) /\ nth(k) \in S
    BY <1>6, <2>1
  <2>7. \A i \in S : \E k \in 1 .. n : nth(k) = i
    BY <1>7
  <2> HIDE DEF nth, n, e, fs, S
  <2>3. EntriesOf(FilesOf(ds)) \subseteq {e(i) : i \in S}
    BY <2>5, <2>6
  <2>4. {e(i) : i \in S} \subseteq EntriesOf(FilesOf(ds))
    BY <2>5, <2>6, <2>7
  <2> QED BY <2>3, <2>4 DEF Records, e, S
<1> QED BY <1>1, <1>8, <1>9

DocSet == [status : DocStatuses \cup {"absent"}, path : Paths, content : 0 .. MaxSaves]
RowSet == [status : CaseStatuses \cup {"absent"}, total : 0 .. MaxDocs,
           completed : 0 .. MaxDocs, failed : 0 .. MaxDocs]
MetaSet == [status : CaseStatuses \cup {"absent"}, total : 0 .. 2 * MaxDocs]

LEMMA ListedEntries ==
    ASSUME NEW fs, NEW ds, EntriesOf(fs) = Records(ds)
    PROVE  Listed(fs) = Stored(ds)
<1>1. Listed(fs) = {e.id : e \in EntriesOf(fs)}
  BY DEF Listed, EntriesOf
<1>2. {e.id : e \in Records(ds)} = Stored(ds)
  <2> DEFINE r(i) == [id |-> i, path |-> ds[i].path]
  <2>1. Records(ds) = {r(i) : i \in Stored(ds)} /\ \A i : r(i).id = i
    BY DEF Records
  <2> HIDE DEF r
  <2> QED BY <2>1
<1> QED BY <1>1, <1>2

\* The record agrees with itself.
LEMMA RecordsAgree ==
    ASSUME NEW fs, NEW ds, NEW rev, EntriesOf(fs) = Records(ds)
    PROVE  Agrees(fs, ds, rev)
<1> DEFINE r(i) == [id |-> i, path |-> ds[i].path]
<1>1. Records(ds) = {r(i) : i \in Stored(ds)} /\ \A i : r(i).id = i /\ r(i).path = ds[i].path
  BY DEF Records
<1>2. \A e \in Records(ds) : e.path = ds[e.id].path
  <2> HIDE DEF r
  <2> QED BY <1>1
<1>3. Listed(fs) = Stored(ds)
  BY ListedEntries
<1> QED BY <1>2, <1>3 DEF Agrees

LEMMA FilesType ==
    ASSUME NEW ds \in [Ids -> DocSet], files \in Seq(Entries) \cup {NoFiles}
    PROVE  /\ Files(ds) \in Seq(Entries)
           /\ Listed(Files(ds)) \subseteq Ids
           /\ files = NoFiles => EntriesOf(Files(ds)) = Records(ds)
           /\ files = NoFiles => Listed(Files(ds)) = Stored(ds)
           /\ files # NoFiles => Files(ds) = files
<1>1. Records(ds) \subseteq Entries
  BY DEF Records, Entries, DocSet, Stored
<1>2. FilesOf(ds) \in Seq(Entries)
  <2>1. \A k \in DOMAIN FilesOf(ds) : FilesOf(ds)[k] \in Entries
    BY <1>1, FilesOfRecord DEF EntriesOf
  <2>2. FilesOf(ds) = [k \in DOMAIN FilesOf(ds) |-> FilesOf(ds)[k]]
    BY DEF FilesOf
  <2>3. DOMAIN FilesOf(ds) = 1 .. Cardinality(Stored(ds)) /\ Cardinality(Stored(ds)) \in Nat
    BY FilesOfRecord, Bounds
  <2> QED BY <2>1, <2>2, <2>3
<1>3. Files(ds) \in Seq(Entries)
  BY <1>2 DEF Files
<1>4. Listed(Files(ds)) \subseteq Ids
  <2>1. \A k \in DOMAIN Files(ds) : Files(ds)[k] \in Entries
    BY <1>3
  <2> QED BY <2>1 DEF Listed, Entries
<1> QED BY <1>3, <1>4, FilesOfRecord, ListedEntries DEF Files

\* The new entries of a list.
LEMMA NewEntriesListed ==
    ASSUME NEW names \in Seq(Names), NEW start \in Nat, start + Len(names) <= MaxDocs
    PROVE  /\ NewEntries(names, start) \in Seq(Entries)
           /\ EntriesOf(NewEntries(names, start))
                = {[id |-> start + k, path |-> Raw(names[k])] : k \in 1 .. Len(names)}
           /\ Listed(NewEntries(names, start)) = start + 1 .. start + Len(names)
<1>1. DOMAIN names = 1 .. Len(names) /\ Len(names) \in Nat
  OBVIOUS
<1>2. \A k \in 1 .. Len(names) : [id |-> start + k, path |-> Raw(names[k])] \in Entries
  <2>1. \A k \in 1 .. Len(names) : names[k] \in Names /\ start + k \in 1 .. MaxDocs
    BY <1>1, BoundsAssumption
  <2>2. \A k \in 1 .. Len(names) : Raw(names[k]) \in Paths
    BY <2>1, PathNames
  <2> QED BY <2>1, <2>2, Bounds DEF Entries
<1>3. NewEntries(names, start) \in Seq(Entries)
  BY <1>1, <1>2 DEF NewEntries
<1>4. EntriesOf(NewEntries(names, start))
        = {[id |-> start + k, path |-> Raw(names[k])] : k \in 1 .. Len(names)}
  BY <1>1 DEF EntriesOf, NewEntries
<1>5. Listed(NewEntries(names, start)) = {start + k : k \in 1 .. Len(names)}
  BY <1>1 DEF Listed, NewEntries
<1>6. {start + k : k \in 1 .. Len(names)} = start + 1 .. start + Len(names)
  <2>1. \A i \in start + 1 .. start + Len(names) : i - start \in 1 .. Len(names)
                                                 /\ i = start + (i - start)
    BY <1>1
  <2>2. \A k \in 1 .. Len(names) : start + k \in start + 1 .. start + Len(names)
    BY <1>1
  <2> QED BY <2>1, <2>2
<1> QED BY <1>3, <1>4, <1>5, <1>6

LEMMA AppendedListed ==
    ASSUME NEW fs \in Seq(Entries), NEW names \in Seq(Names), NEW start \in Nat,
           start + Len(names) <= MaxDocs
    PROVE  /\ Appended(fs, names, start) \in Seq(Entries)
           /\ EntriesOf(Appended(fs, names, start))
                = EntriesOf(fs) \cup EntriesOf(NewEntries(names, start))
           /\ Listed(Appended(fs, names, start))
                = Listed(fs) \cup (start + 1 .. start + Len(names))
<1> DEFINE new == NewEntries(names, start)
<1>1. new \in Seq(Entries) /\ Listed(new) = start + 1 .. start + Len(names)
  BY NewEntriesListed
<1> HIDE DEF new
<1>2. /\ fs \o new \in Seq(Entries)
      /\ DOMAIN (fs \o new) = 1 .. Len(fs) + Len(new) /\ DOMAIN fs = 1 .. Len(fs)
      /\ DOMAIN new = 1 .. Len(new) /\ Len(fs) \in Nat /\ Len(new) \in Nat
  BY <1>1
<1>3. \A k \in 1 .. Len(fs) : (fs \o new)[k] = fs[k]
  BY <1>1
<1>4. \A k \in 1 .. Len(new) : (fs \o new)[Len(fs) + k] = new[k]
                              /\ Len(fs) + k \in 1 .. Len(fs) + Len(new)
  BY <1>1
<1>5. \A k \in 1 .. Len(fs) + Len(new) :
        \/ k \in 1 .. Len(fs)
        \/ k - Len(fs) \in 1 .. Len(new) /\ (fs \o new)[k] = new[k - Len(fs)]
  BY <1>1
<1>6. 1 .. Len(fs) \subseteq 1 .. Len(fs) + Len(new)
  BY <1>2
<1>7. EntriesOf(fs \o new) = EntriesOf(fs) \cup EntriesOf(new)
  <2> DEFINE all == fs \o new
  <2> HIDE DEF all
  <2>1. \A e \in EntriesOf(all) : e \in EntriesOf(fs) \/ e \in EntriesOf(new)
    BY <1>2, <1>3, <1>5 DEF EntriesOf, all
  <2>2. \A e \in EntriesOf(fs) : e \in EntriesOf(all)
    BY <1>2, <1>3, <1>6 DEF EntriesOf, all
  <2>3. \A e \in EntriesOf(new) : e \in EntriesOf(all)
    BY <1>2, <1>4 DEF EntriesOf, all
  <2> QED BY <2>1, <2>2, <2>3 DEF all
<1>8. Listed(fs \o new) = Listed(fs) \cup Listed(new)
  <2>1. \A s : Listed(s) = {e.id : e \in EntriesOf(s)}
    BY DEF Listed, EntriesOf
  <2> QED BY <1>7, <2>1
<1> QED BY <1>1, <1>2, <1>7, <1>8 DEF Appended, new

\* Another path in an entry does not change which documents are listed.
LEMMA RelistedListed ==
    ASSUME NEW fs \in Seq(Entries), NEW d \in Ids, replacing.path \in Paths
    PROVE  /\ Relisted(fs, d) \in Seq(Entries)
           /\ Listed(Relisted(fs, d)) = Listed(fs)
           /\ EntriesOf(Relisted(fs, d))
                = {IF e.id = d THEN [e EXCEPT !.path = replacing.path] ELSE e : e \in EntriesOf(fs)}
<1>1. /\ DOMAIN fs = 1 .. Len(fs) /\ Len(fs) \in Nat
      /\ \A k \in DOMAIN fs : fs[k] \in Entries
  BY Bounds
<1>2. Relisted(fs, d) \in Seq(Entries)
  BY <1>1 DEF Relisted, Entries
<1>3. Listed(Relisted(fs, d)) = Listed(fs)
  <2>1. \A k \in DOMAIN fs : Relisted(fs, d)[k].id = fs[k].id
    BY <1>1 DEF Relisted, Entries
  <2>2. DOMAIN Relisted(fs, d) = DOMAIN fs
    BY DEF Relisted
  <2> QED BY <2>1, <2>2 DEF Listed
<1>4. EntriesOf(Relisted(fs, d))
        = {IF e.id = d THEN [e EXCEPT !.path = replacing.path] ELSE e : e \in EntriesOf(fs)}
  BY DEF EntriesOf, Relisted
<1> QED BY <1>2, <1>3, <1>4

\* The documents after an upload: the new ones, and the others as they were.
LEMMA InsertedDocs ==
    ASSUME docs \in [Ids -> DocSet], NEW names \in Seq(Names), NEW start \in Nat,
           saves \in Nat, start + Len(names) <= MaxDocs, saves + Len(names) <= MaxSaves
    PROVE  /\ Inserted(names, start) \in [Ids -> DocSet]
           /\ \A i \in Ids \ (start + 1 .. start + Len(names)) :
                 Inserted(names, start)[i] = docs[i]
           /\ \A k \in 1 .. Len(names) :
                 /\ start + k \in Ids
                 /\ Inserted(names, start)[start + k] =
                      [status |-> IF docs[start + k] = NoDoc THEN "uploaded"
                                  ELSE docs[start + k].status,
                       path |-> Raw(names[k]), content |-> saves + k]
<1>1. DOMAIN names = 1 .. Len(names) /\ Len(names) \in Nat
  OBVIOUS
<1>2. \A i \in Ids : i - start \in DOMAIN names <=> i \in start + 1 .. start + Len(names)
  BY <1>1, Bounds
<1>3. \A k \in 1 .. Len(names) : start + k \in Ids /\ start + k \in start + 1 .. start + Len(names)
                                /\ (start + k) - start = k
  BY <1>1, Bounds
<1>4. \A i \in Ids \ (start + 1 .. start + Len(names)) : Inserted(names, start)[i] = docs[i]
  BY <1>2 DEF Inserted
<1>5. \A k \in 1 .. Len(names) :
        Inserted(names, start)[start + k] =
           [status |-> IF docs[start + k] = NoDoc THEN "uploaded" ELSE docs[start + k].status,
            path |-> Raw(names[k]), content |-> saves + k]
  BY <1>1, <1>3 DEF Inserted
<1>6. \A k \in DOMAIN names : Raw(names[k]) \in Paths /\ saves + k \in 0 .. MaxSaves
  <2>1. \A k \in DOMAIN names : names[k] \in Names
    OBVIOUS
  <2>2. \A k \in DOMAIN names : Raw(names[k]) \in Paths
    BY <2>1, PathNames
  <2>3. \A k \in DOMAIN names : saves + k \in 0 .. MaxSaves
    BY <1>1, BoundsAssumption
  <2> QED BY <2>2, <2>3
<1>7. Inserted(names, start) \in [Ids -> DocSet]
  <2>1. ASSUME NEW i \in Ids, i - start \in DOMAIN names
        PROVE  [status |-> IF docs[i] = NoDoc THEN "uploaded" ELSE docs[i].status,
                path |-> Raw(names[i - start]), content |-> saves + (i - start)] \in DocSet
    BY <1>6, <2>1 DEF DocSet, DocStatuses
  <2> QED BY <2>1 DEF Inserted
<1> QED BY <1>3, <1>4, <1>5, <1>7

\* The disk after an upload: a name holds its last file, the other paths are left alone.
LEMMA WrittenDisk ==
    ASSUME disk \in [Paths -> 0 .. MaxSaves], saves \in Nat,
           NEW names \in Seq(Names), saves + Len(names) <= MaxSaves,
           \A p \in Paths : disk[p] <= saves
    PROVE  /\ Written(names) \in [Paths -> 0 .. MaxSaves]
           /\ \A p \in Paths : /\ disk[p] <= Written(names)[p]
                               /\ Written(names)[p] <= saves + Len(names)
           /\ \A p \in Paths : p[1] # 0 => Written(names)[p] = disk[p]
           /\ \A k \in 1 .. Len(names) : saves + k <= Written(names)[Raw(names[k])]
<1> DEFINE at(p) == {k \in DOMAIN names : Raw(names[k]) = p}
<1>1. DOMAIN names = 1 .. Len(names) /\ Len(names) \in Nat
  OBVIOUS
<1>2. ASSUME NEW p, NEW j \in 1 .. Len(names), Raw(names[j]) = p
      PROVE  /\ Max(at(p)) \in 1 .. Len(names)
             /\ \A k \in 1 .. Len(names) : Raw(names[k]) = p => k <= Max(at(p))
  <2>1. at(p) \in SUBSET (0 .. Len(names)) /\ at(p) # {}
    BY <1>1, <1>2
  <2>2. Max(at(p)) \in at(p) /\ \A k \in at(p) : k <= Max(at(p))
    BY <1>1, <2>1, Largest
  <2> QED BY <1>1, <2>2
<1>3. ASSUME NEW p \in Paths
      PROVE  Written(names)[p] = IF \E k \in DOMAIN names : Raw(names[k]) = p
                                 THEN saves + Max(at(p)) ELSE disk[p]
  BY DEF Written
<1> HIDE DEF at
<1>4. ASSUME NEW p \in Paths
      PROVE  /\ disk[p] <= Written(names)[p] /\ Written(names)[p] <= saves + Len(names)
             /\ Written(names)[p] \in 0 .. MaxSaves
  <2>1. disk[p] \in 0 .. MaxSaves /\ disk[p] <= saves /\ MaxSaves \in Nat
    BY Bounds
  <2>2. CASE \E k \in DOMAIN names : Raw(names[k]) = p
    <3>1. Max(at(p)) \in 1 .. Len(names) /\ Written(names)[p] = saves + Max(at(p))
      BY <1>1, <1>2, <1>3, <2>2
    <3> QED BY <1>1, <2>1, <3>1
  <2>3. CASE ~\E k \in DOMAIN names : Raw(names[k]) = p
    BY <1>1, <1>3, <2>1, <2>3
  <2> QED BY <2>2, <2>3
<1>5. Written(names) \in [Paths -> 0 .. MaxSaves]
  BY <1>4 DEF Written
<1>6. \A p \in Paths : p[1] # 0 => Written(names)[p] = disk[p]
  <2>1. \A k \in DOMAIN names : names[k] \in Names
    BY <1>1
  <2>2. \A k \in DOMAIN names : Raw(names[k])[1] = 0
    BY <2>1, PathNames
  <2> QED BY <1>3, <2>2
<1>7. ASSUME NEW k \in 1 .. Len(names) PROVE saves + k <= Written(names)[Raw(names[k])]
  <2>1. names[k] \in Names
    BY <1>1
  <2>2. Raw(names[k]) \in Paths
    BY <2>1, PathNames
  <2>3. Max(at(Raw(names[k]))) \in 1 .. Len(names) /\ k <= Max(at(Raw(names[k])))
    BY <1>2
  <2>4. Written(names)[Raw(names[k])] = saves + Max(at(Raw(names[k])))
    BY <1>1, <1>3, <2>2
  <2> QED BY <1>1, <2>3, <2>4
<1> QED BY <1>4, <1>5, <1>6, <1>7
----------------------------------------------------------------------------
\* The parts of the state under the invariant

LEMMA Types ==
    ASSUME TypeOK
    PROVE  /\ row \in RowSet /\ docs \in [Ids -> DocSet] /\ disk \in [Paths -> 0 .. MaxSaves]
           /\ meta \in MetaSet /\ files \in Seq(Entries) \cup {NoFiles}
           /\ saving.start \in 0 .. MaxDocs /\ saving.names \in Seq(Names)
           /\ Len(saving.names) \in Nat /\ saving = [start |-> saving.start, names |-> saving.names]
           /\ saves \in 0 .. MaxSaves /\ lost \in 0 .. MaxLost
           /\ rejected \in 0 .. MaxRejected /\ evicted \in 0 .. MaxEvictions
           /\ lost \in Nat /\ rejected \in Nat /\ evicted \in Nat /\ saves \in Nat
           /\ replacing.path \in {NoPath} \cup Ids \X Names /\ replacing.path \in Paths
           /\ replacing.content \in 0 .. MaxSaves
<1>1. /\ row \in RowSet /\ docs \in [Ids -> DocSet] /\ disk \in [Paths -> 0 .. MaxSaves]
      /\ meta \in MetaSet /\ files \in Seq(Entries) \cup {NoFiles}
  BY DEF TypeOK, RowSet, DocSet, MetaSet
<1>2. saving \in [start : 0 .. MaxDocs, names : Seq(Names)]
  BY DEF TypeOK
<1>3. /\ saving.start \in 0 .. MaxDocs /\ saving.names \in Seq(Names)
      /\ Len(saving.names) \in Nat /\ saving = [start |-> saving.start, names |-> saving.names]
  BY <1>2
<1>4. /\ saves \in 0 .. MaxSaves /\ lost \in 0 .. MaxLost
      /\ rejected \in 0 .. MaxRejected /\ evicted \in 0 .. MaxEvictions
  BY DEF TypeOK
<1>5. lost \in Nat /\ rejected \in Nat /\ evicted \in Nat /\ saves \in Nat
  BY <1>4, Bounds
<1>6. replacing \in [path : {NoPath} \cup Ids \X Names, content : 0 .. MaxSaves]
  BY DEF TypeOK
<1>7. replacing.path \in {NoPath} \cup Ids \X Names /\ replacing.content \in 0 .. MaxSaves
  BY <1>6
<1>8. replacing.path \in Paths
  BY <1>7, PathNames, Bounds
<1> QED BY <1>1, <1>3, <1>4, <1>5, <1>7, <1>8

LEMMA RowWithStatus ==
    ASSUME NEW r \in RowSet, NEW status \in CaseStatuses
    PROVE  /\ [r EXCEPT !.status = status] \in RowSet
           /\ [r EXCEPT !.status = status] # NoRow
           /\ [r EXCEPT !.status = status].status = status
           /\ [r EXCEPT !.status = status].total = r.total
           /\ [r EXCEPT !.status = status].completed = r.completed
           /\ [r EXCEPT !.status = status].failed = r.failed
           /\ status # "absent"
BY DEF RowSet, NoRow, CaseStatuses

LEMMA MetaRead ==
    ASSUME meta \in MetaSet, NEW r \in RowSet
    PROVE  /\ Meta(r) \in MetaSet
           /\ meta # NoMeta => Meta(r) = meta
           /\ meta = NoMeta => Meta(r).total = r.total /\ Meta(r).status = r.status
           /\ r.status # "absent" => Meta(r) # NoMeta
           /\ Meta(r).total = meta.total \/ Meta(r).total <= MaxDocs
<1>1. r.total \in 0 .. MaxDocs /\ r.status \in CaseStatuses \cup {"absent"}
  BY DEF RowSet
<1>2. [status |-> r.status, total |-> r.total] \in MetaSet
  BY <1>1, Bounds DEF MetaSet
<1> QED BY <1>1, <1>2 DEF Meta, NoMeta

LEMMA MetaMarked ==
    ASSUME NEW m \in MetaSet, NEW status \in CaseStatuses
    PROVE  /\ Marked(m, status) \in MetaSet /\ Marked(m, status) # NoMeta
           /\ Marked(m, status).status = status /\ Marked(m, status).total = m.total
BY DEF Marked, MetaSet, NoMeta, CaseStatuses

LEMMA NoFilesApart == NoFiles \notin Seq(Entries)
<1> SUFFICES ASSUME NoFiles \in Seq(Entries) PROVE FALSE
  OBVIOUS
<1>1. NoFiles = <<[id |-> 0, path |-> NoPath]>>
  BY DEF NoFiles
<1>2. 1 \in DOMAIN NoFiles /\ NoFiles[1].id = 0
  BY <1>1
<1>3. NoFiles[1] \in Entries
  BY <1>2
<1> QED BY <1>2, <1>3, Bounds DEF Entries

\* A list that was just written is the one that is known.
LEMMA KnownWritten ==
    ASSUME files' \in Seq(Entries)
    PROVE  Known' = Listed(files') /\ files' # NoFiles
BY NoFilesApart DEF Known, Files

\* The rows of a case: status, path and content of a document that exists.
LEMMA SameRecords ==
    ASSUME NEW as \in [Ids -> DocSet], NEW bs \in [Ids -> DocSet],
           NEW rev, NEW more, rev \subseteq more,
           \A i \in Ids : /\ as[i].path = bs[i].path \/ i \in more
                          /\ as[i] = NoDoc <=> bs[i] = NoDoc
    PROVE  /\ Stored(as) = Stored(bs)
           /\ \A fs : Agrees(fs, as, rev) => Agrees(fs, bs, more)
<1>1. Stored(as) = Stored(bs)
  BY DEF Stored
<1>2. \A i \in Stored(as) : as[i].path = bs[i].path \/ i \in more
  BY DEF Stored
<1>3. ASSUME NEW fs, Listed(fs) = Stored(as), NEW e \in EntriesOf(fs)
      PROVE  e.id \in Stored(as)
  BY <1>3 DEF Listed, EntriesOf
<1> QED BY <1>1, <1>2, <1>3 DEF Agrees

LEMMA KnownKept ==
    ASSUME files \in Seq(Entries) \cup {NoFiles}, files' = files,
           docs \in [Ids -> DocSet], docs' \in [Ids -> DocSet], Stored(docs') = Stored(docs)
    PROVE  Known' = Known
<1>1. files = NoFiles => Listed(Files(docs)) = Stored(docs)
  BY FilesType
<1>2. Files(docs') = Files(docs)' /\ (files = NoFiles => Listed(Files(docs')) = Stored(docs'))
  BY FilesType DEF Files
<1> QED BY <1>1, <1>2 DEF Known, Files

\* What the list of files, read through the cache, tells about the record.
LEMMA KnownFiles ==
    ASSUME TypeOK, ListOK, AgreeOK
    PROVE  /\ Files(docs) \in Seq(Entries)
           /\ Known \in SUBSET Ids /\ Known \subseteq Stored(docs)
           /\ phase = "open" /\ lost = 0 =>
                 /\ Agrees(Files(docs), docs, reverted)
                 /\ Known = Stored(docs)
<1>1. /\ docs \in [Ids -> DocSet] /\ files \in Seq(Entries) \cup {NoFiles}
      /\ Stored(docs) \subseteq Ids
  BY Types DEF Stored
<1>2. /\ Files(docs) \in Seq(Entries) /\ Listed(Files(docs)) \subseteq Ids
      /\ files = NoFiles => EntriesOf(Files(docs)) = Records(docs)
      /\ files = NoFiles => Listed(Files(docs)) = Stored(docs)
      /\ files # NoFiles => Files(docs) = files
  BY <1>1, FilesType
<1>3. Known \subseteq Stored(docs)
  BY <1>2 DEF Known, ListOK
<1>4. phase = "open" /\ lost = 0 => Agrees(Files(docs), docs, reverted)
  BY <1>2, RecordsAgree DEF AgreeOK
<1> QED BY <1>2, <1>3, <1>4 DEF Known, Agrees

\* No two documents are counted as failed and as resolved.
LEMMA Counts ==
    ASSUME NEW ds \in [Ids -> DocSet]
    PROVE  /\ Count(ds, Resolved) \in 0 .. MaxDocs
           /\ Count(ds, {"failed", "cfailed"}) \in 0 .. MaxDocs
           /\ Count(ds, Resolved) + Count(ds, {"failed", "cfailed"}) <= Cardinality(Stored(ds))
           /\ Count(ds, {"failed", "cfailed"}) = 0 => \A i \in Ids : ds[i].status # "cfailed"
<1> DEFINE done == {i \in Ids : ds[i].status \in Resolved}
           bad == {i \in Ids : ds[i].status \in {"failed", "cfailed"}}
<1>1. done \in SUBSET Ids /\ bad \in SUBSET Ids /\ Stored(ds) \in SUBSET Ids
  BY DEF Stored
<1>2. done \cap bad = {}
  BY DEF Resolved
<1>3. done \cup bad \subseteq Stored(ds)
  BY DEF Stored, NoDoc, Resolved
<1>4. Count(ds, Resolved) = Cardinality(done) /\ Count(ds, {"failed", "cfailed"}) = Cardinality(bad)
  BY DEF Count
<1>5. bad = {} => \A i \in Ids : ds[i].status # "cfailed"
  OBVIOUS
<1> HIDE DEF done, bad
<1>6. /\ IsFiniteSet(done) /\ IsFiniteSet(bad) /\ IsFiniteSet(Stored(ds))
      /\ Cardinality(done) \in 0 .. MaxDocs /\ Cardinality(bad) \in 0 .. MaxDocs
  BY <1>1, IdSets
<1>7. Cardinality(done \cup bad)
        = Cardinality(done) + Cardinality(bad) - Cardinality(done \cap bad)
  BY <1>6, FS_Union
<1>8. Cardinality(done \cap bad) = 0
  BY <1>2, FS_EmptySet
<1>9. Cardinality(done \cup bad) <= Cardinality(Stored(ds))
  BY <1>3, <1>6, FS_Subset
<1>10. Cardinality(bad) = 0 => bad = {}
  BY <1>6, FS_EmptySet
<1> QED BY <1>4, <1>5, <1>6, <1>7, <1>8, <1>9, <1>10

\* Recounting a row: it says "complete" only when no document failed.
LEMMA Recount ==
    ASSUME row \in RowSet, NEW ds \in [Ids -> DocSet]
    PROVE  /\ Recomputed(ds) \in RowSet /\ Recomputed(ds) # NoRow
           /\ Recomputed(ds).status # "absent"
           /\ Recomputed(ds).total = row.total
           /\ Recomputed(ds).completed + Recomputed(ds).failed <= Cardinality(Stored(ds))
           /\ Recomputed(ds).status = "complete" => \A i \in Ids : ds[i].status # "cfailed"
<1> DEFINE c == Count(ds, Resolved)
           f == Count(ds, {"failed", "cfailed"})
           s == IF f > 0 THEN "partial" ELSE IF c = row.total THEN "complete" ELSE "processing"
<1>1. /\ c \in 0 .. MaxDocs /\ f \in 0 .. MaxDocs /\ c + f <= Cardinality(Stored(ds))
      /\ f = 0 => \A i \in Ids : ds[i].status # "cfailed"
  BY Counts
<1>2. s \in CaseStatuses /\ s # "absent" /\ (s = "complete" => ~(f > 0))
  BY DEF CaseStatuses
<1>3. Recomputed(ds) = [row EXCEPT !.completed = c, !.failed = f, !.status = s]
  BY DEF Recomputed
<1> HIDE DEF c, f, s
<1>4. /\ Recomputed(ds) \in RowSet /\ Recomputed(ds).status = s
      /\ Recomputed(ds).total = row.total
      /\ Recomputed(ds).completed = c /\ Recomputed(ds).failed = f
  BY <1>1, <1>2, <1>3 DEF RowSet
<1>5. Recomputed(ds) # NoRow
  BY <1>2, <1>4 DEF NoRow
<1> QED BY <1>1, <1>2, <1>4, <1>5, Bounds

\* A batch of an upload has a file or two.
LEMMA BatchType ==
    ASSUME NEW names \in Batches
    PROVE  names \in Seq(Names) /\ Len(names) \in Nat /\ Len(names) >= 1
<1>1. CASE \E a \in Names : names = <<a>>
  BY <1>1
<1>2. CASE \E a \in Names, b \in Names : names = <<a, b>>
  BY <1>2
<1> QED BY <1>1, <1>2 DEF Batches
\* The list a request reads fills the cache without changing what is known.
LEMMA FilesFilled ==
    ASSUME StoreInv, files' = Files(docs), docs' \in [Ids -> DocSet],
           \A i \in Ids : docs'[i].path = docs[i].path /\ (docs'[i] = NoDoc <=> docs[i] = NoDoc)
    PROVE  /\ files' \in Seq(Entries) /\ Known' = Known
           /\ Stored(docs') = Stored(docs) /\ Listed(files') \subseteq Stored(docs')
           /\ phase = "open" /\ lost = 0 => Agrees(files', docs', reverted)
<1>1. docs \in [Ids -> DocSet]
  BY Types DEF StoreInv
<1>2. /\ Stored(docs') = Stored(docs)
      /\ \A fs : Agrees(fs, docs, reverted) => Agrees(fs, docs', reverted)
  BY <1>1, SameRecords
<1>3. /\ Files(docs) \in Seq(Entries) /\ Known \subseteq Stored(docs)
      /\ phase = "open" /\ lost = 0 => Agrees(Files(docs), docs, reverted)
  BY KnownFiles DEF StoreInv
<1>4. Known' = Listed(files') /\ Listed(files') = Known
  BY <1>3, KnownWritten DEF Known
<1> QED BY <1>2, <1>3, <1>4

\* No status changes what is served, and no path but that of a document left out.
LEMMA ServedKept ==
    ASSUME OriginalIsServed, DocsOK, ReplacingOK, UNCHANGED <<phase, disk, replacing, saves>>,
           held' \subseteq held, reverted \subseteq reverted', Stored(docs') = Stored(docs),
           \A i \in Ids : /\ docs'[i].content = docs[i].content
                          /\ \/ docs'[i].path = docs[i].path
                             \/ i \in reverted' /\ docs'[i].path[1] \in {0, i}
                          /\ i \in Stored(docs) => docs'[i].status # "absent"
    PROVE  OriginalIsServed' /\ DocsOK' /\ ReplacingOK'
<1>1. Stored(docs)' = Stored(docs) /\ Stored(docs) \subseteq Ids
  BY DEF Stored
<1>2. OriginalIsServed'
  <2>1. ASSUME phase = "open", NEW i \in Stored(docs) \ reverted'
        PROVE  /\ disk[docs'[i].path] >= docs'[i].content
               /\ docs'[i].path[1] = i /\ replacing.path[1] # i => disk[docs'[i].path] = docs'[i].content
    <3>1. i \in Stored(docs) \ reverted /\ docs'[i].path = docs[i].path /\ docs'[i].content = docs[i].content
      BY <1>1, <2>1
    <3> QED BY <2>1, <3>1 DEF OriginalIsServed, Served
  <2> QED BY <1>1, <2>1 DEF OriginalIsServed, Served
<1>3. DocsOK'
  BY <1>1 DEF DocsOK
<1>4. ReplacingOK'
  BY DEF ReplacingOK
<1> QED BY <1>2, <1>3, <1>4

\* What an upload passed its gate with outlasts a total read anew.
LEMMA SavingKept ==
    ASSUME TypeOK, SavingOK, saving' = saving,
           Saving => saves' + Len(saving.names) <= MaxSaves,
           meta' \in MetaSet, meta'.total = meta.total \/ meta'.total <= MaxDocs
    PROVE  SavingOK'
<1>1. saving.start \in Nat /\ MaxDocs \in Nat /\ meta'.total \in Nat
  BY Types, Bounds DEF MetaSet
<1>2. Saving' = Saving
  BY DEF Saving
<1>3. Saving => meta'.total <= MaxDocs + saving.start
  <2>1. CASE meta'.total <= MaxDocs
    BY <1>1, <2>1
  <2>2. CASE meta'.total = meta.total
    BY <2>2 DEF SavingOK
  <2> QED BY <2>1, <2>2
<1> QED BY <1>2, <1>3 DEF SavingOK

----------------------------------------------------------------------------
\* Each action keeps the invariant

LEMMA InitInv == Init => StoreInv
<1> SUFFICES ASSUME Init PROVE StoreInv
  OBVIOUS
<1>1. /\ NoRow \in RowSet /\ NoDoc \in DocSet /\ NoMeta \in MetaSet
      /\ NoSave.start = 0 /\ NoSave.names = <<>> /\ NoSave \in [start : 0 .. MaxDocs, names : Seq(Names)]
      /\ NoReplace \in [path : {NoPath} \cup Ids \X Names, content : 0 .. MaxSaves]
      /\ NoReplace.content = 0
  BY Bounds DEF NoRow, NoDoc, NoMeta, NoSave, NoReplace, RowSet, DocSet, MetaSet
<1>2. docs = [i \in Ids |-> NoDoc] /\ disk = [p \in Paths |-> 0]
  BY DEF Init
<1>3. TypeOK
  <2>1. /\ row \in RowSet /\ meta \in MetaSet /\ saving \in [start : 0 .. MaxDocs, names : Seq(Names)]
        /\ replacing \in [path : {NoPath} \cup Ids \X Names, content : 0 .. MaxSaves]
        /\ held = {} /\ reverted = {} /\ docs \in [Ids -> DocSet] /\ files = NoFiles
    BY <1>1, <1>2 DEF Init
  <2>2. /\ phase = "new" /\ lock = FALSE /\ chord = {} /\ fin = "none" /\ outcome \in CaseStatuses
        /\ saves = 0 /\ lost = 0 /\ rejected = 0 /\ evicted = 0
    BY DEF Init, CaseStatuses
  <2>3. /\ 0 \in 0 .. MaxSaves /\ 0 \in 0 .. MaxLost /\ 0 \in 0 .. MaxRejected
        /\ 0 \in 0 .. MaxEvictions
    BY BoundsAssumption
  <2>4. disk \in [Paths -> 0 .. MaxSaves]
    BY <1>2, <2>3
  <2> QED BY <2>1, <2>2, <2>3, <2>4 DEF TypeOK, RowSet, DocSet, MetaSet
<1>4. Stored(docs) = {} /\ ~Saving /\ phase = "new"
  BY <1>2 DEF Stored, Saving, Init
<1>5. meta.total = 0 /\ 0 <= MaxDocs
  BY Bounds DEF Init, NoMeta
<1>6. DocsOK /\ OriginalIsServed /\ ReplacingOK
  BY <1>1, <1>2, <1>4 DEF DocsOK, OriginalIsServed, ReplacingOK, Init
<1> QED BY <1>3, <1>4, <1>5, <1>6
        DEF StoreInv, ListOK, TotalOK, SavingOK, PhaseOK, LockOK, AgreeOK, CompleteOK, CacheOK, Init

LEMMA WarmKeeps == StoreInv /\ Warm => StoreInv'
<1> SUFFICES ASSUME StoreInv, Warm PROVE StoreInv'
  OBVIOUS
<1>1. /\ row \in RowSet /\ docs \in [Ids -> DocSet] /\ meta \in MetaSet
  BY Types DEF StoreInv
<1>2. /\ phase = "open" /\ row.status # "absent" /\ meta' = Meta(row) /\ files' = Files(docs)
      /\ UNCHANGED <<phase, row, docs, disk, lock, saving, replacing, chord, held, reverted, fin, outcome,
                     saves, lost, rejected, evicted>>
  BY DEF Warm, StoreInv, PhaseOK, recordVars, taskVars, chainVars, requestVars, counters
<1>3. /\ files' \in Seq(Entries) /\ Known' = Known /\ Stored(docs') = Stored(docs)
      /\ Listed(files') \subseteq Stored(docs')
      /\ phase = "open" /\ lost = 0 => Agrees(files', docs', reverted)
  BY <1>1, <1>2, FilesFilled
<1>4. /\ Meta(row) \in MetaSet /\ Meta(row) # NoMeta /\ (meta # NoMeta => Meta(row) = meta)
      /\ Meta(row).total = meta.total \/ Meta(row).total <= MaxDocs
  BY <1>1, <1>2, MetaRead
<1>5. TypeOK'
  BY <1>2, <1>3, <1>4 DEF StoreInv, TypeOK, MetaSet
<1>6. DocsOK' /\ OriginalIsServed' /\ ReplacingOK'
  BY <1>2 DEF StoreInv, DocsOK, OriginalIsServed, ReplacingOK, Served, Stored
<1>7. ListOK' /\ TotalOK'
  BY <1>2, <1>3, <1>4 DEF StoreInv, ListOK, TotalOK
<1>8. SavingOK'
  BY <1>2, <1>4, SavingKept DEF StoreInv, SavingOK
<1>9. PhaseOK' /\ LockOK'
  BY <1>2 DEF StoreInv, PhaseOK, LockOK, Saving
<1>10. AgreeOK'
  BY <1>2, <1>3 DEF StoreInv, AgreeOK, Saving
<1>11. CompleteOK' /\ CacheOK'
  BY <1>2, <1>4 DEF StoreInv, CompleteOK, CacheOK, NoneRefused
<1> QED BY <1>5, <1>6, <1>7, <1>8, <1>9, <1>10, <1>11 DEF StoreInv
\* A request that starts the pipeline, or takes it back: the lock was free.
LEMMA StartKeeps ==
    ASSUME StoreInv, phase = "open", ~lock, files' = Files(docs),
           docs' \in [Ids -> DocSet],
           \A i \in Ids : /\ docs'[i].path = docs[i].path /\ docs'[i].content = docs[i].content
                          /\ docs'[i] = NoDoc <=> docs[i] = NoDoc
                          /\ i \in Stored(docs) => docs'[i].status # "absent",
           NEW status \in CaseStatuses, status # "complete", row' = [row EXCEPT !.status = status],
           meta' \in MetaSet, meta'.total = Meta(row).total, lost' \in 0 .. MaxLost,
           lost' = 0 => /\ lost = 0 /\ meta' # NoMeta
                        /\ meta'.status = "processing" => fin' = "chord",
           \/ lock' = TRUE /\ chord' \in SUBSET Ids /\ fin' = "chord"
           \/ lock' = FALSE /\ chord' = chord /\ fin' = fin,
           UNCHANGED <<phase, disk, saving, replacing, held, reverted, outcome, saves, rejected, evicted>>
    PROVE  StoreInv'
<1>1. /\ row \in RowSet /\ docs \in [Ids -> DocSet] /\ meta \in MetaSet
  BY Types DEF StoreInv
<1>2. /\ ~Saving /\ fin = "none" /\ chord = {} /\ ~Saving'
  BY DEF StoreInv, LockOK, Saving
<1>3. /\ row' \in RowSet /\ row' # NoRow /\ row'.status = status /\ row'.total = row.total
      /\ row'.completed = row.completed /\ row'.failed = row.failed /\ status # "absent"
  BY <1>1, RowWithStatus
<1>4. /\ files' \in Seq(Entries) /\ Known' = Known /\ Stored(docs') = Stored(docs)
      /\ Listed(files') \subseteq Stored(docs')
      /\ lost = 0 => Agrees(files', docs', reverted)
  BY FilesFilled
<1>5. meta'.total = meta.total \/ meta'.total <= MaxDocs
  BY <1>1, MetaRead
<1>6. TypeOK'
  BY <1>2, <1>3, <1>4 DEF StoreInv, TypeOK, MetaSet, RowSet, DocSet
<1>7. DocsOK' /\ OriginalIsServed' /\ ReplacingOK'
  BY <1>4, ServedKept DEF StoreInv
<1>8. ListOK' /\ TotalOK'
  BY <1>4, <1>5 DEF StoreInv, ListOK, TotalOK
<1>9. SavingOK' /\ PhaseOK'
  BY <1>2, <1>3 DEF SavingOK, PhaseOK
<1>10. LockOK'
  BY <1>2 DEF LockOK
<1>11. AgreeOK'
  BY <1>2, <1>3, <1>4 DEF StoreInv, AgreeOK
<1>12. CompleteOK' /\ CacheOK'
  BY <1>2, <1>3 DEF StoreInv, CompleteOK, CacheOK
<1> QED BY <1>6, <1>7, <1>8, <1>9, <1>10, <1>11, <1>12 DEF StoreInv

\* The case row and the cached status as a start leaves them, whether the cached one was
\* written or not.
LEMMA StatusSet ==
    ASSUME StoreInv, phase = "open", NEW status \in CaseStatuses,
           SetRow([row EXCEPT !.status = status])
    PROVE  /\ row' = [row EXCEPT !.status = status]
           /\ \A s \in CaseStatuses : /\ Marked(Meta(row), s) \in MetaSet
                                      /\ Marked(Meta(row), s) # NoMeta
                                      /\ Marked(Meta(row), s).status = s
                                      /\ Marked(Meta(row), s).total = Meta(row).total
           /\ Meta(row) \in MetaSet
           /\ \A x : x = lost => x \in 0 .. MaxLost
           /\ Lose => lost' \in 0 .. MaxLost /\ lost' # 0
<1>1. row # NoRow /\ row \in RowSet /\ meta \in MetaSet /\ lost \in 0 .. MaxLost /\ MaxLost \in Nat
  BY Types, Bounds DEF StoreInv, PhaseOK
<1>2. Meta(row) \in MetaSet
  BY <1>1, MetaRead
<1>3. Lose => lost' \in 0 .. MaxLost /\ lost' # 0
  BY <1>1 DEF Lose
<1> QED BY <1>1, <1>2, <1>3, MetaMarked DEF SetRow

LEMMA StartFailsKeeps ==
    ASSUME StoreInv, phase = "open", ~lock, files' = Files(docs), NEW ds, ds \in [Ids -> DocSet],
           \A i \in Ids : /\ ds[i].path = docs[i].path /\ ds[i].content = docs[i].content
                          /\ ds[i] = NoDoc <=> docs[i] = NoDoc
                          /\ i \in Stored(docs) => ds[i].status # "absent",
           StartFails(Meta(row), ds),
           UNCHANGED <<phase, disk, saving, replacing, reverted, saves, rejected, evicted>>
    PROVE  StoreInv'
<1>1. "failed" \in CaseStatuses /\ "processing" \in CaseStatuses
  BY DEF CaseStatuses
<1>2. /\ SetRow([row EXCEPT !.status = "failed"]) /\ docs' = ds /\ lock' = FALSE
      /\ chord' = chord /\ held' = held /\ fin' = fin /\ outcome' = outcome
      /\ \/ meta' = Marked(Meta(row), "failed") /\ lost' = lost
         \/ Lose /\ meta' \in {Marked(Meta(row), "failed"), Marked(Meta(row), "processing")}
  BY DEF StartFails, taskVars, chainVars
<1>3. /\ row' = [row EXCEPT !.status = "failed"]
      /\ meta' \in MetaSet /\ meta'.total = Meta(row).total /\ lost' \in 0 .. MaxLost
      /\ lost' = 0 => lost = 0 /\ meta' # NoMeta /\ meta'.status = "failed"
  BY <1>1, <1>2, StatusSet
<1> QED BY <1>1, <1>2, <1>3, StartKeeps

LEMMA ProcessKeeps == StoreInv /\ Process => StoreInv'
<1> SUFFICES ASSUME StoreInv, Process PROVE StoreInv'
  OBVIOUS
<1>1. docs \in [Ids -> DocSet] /\ phase = "open" /\ ~lock /\ files' = Files(docs)
  BY Types DEF StoreInv, Process, Gate
<1>2. UNCHANGED <<phase, disk, saving, replacing, reverted, saves, rejected, evicted>>
  BY DEF Process, requestVars
<1>3. \A i \in Ids : i \in Stored(docs) => docs[i].status # "absent"
  BY DEF StoreInv, DocsOK
<1>4. CASE SetStatus(Meta(row), "processing") /\ lock' = TRUE /\ Launch(Files(docs), docs) /\ docs' = docs
  <2>1. "processing" \in CaseStatuses
    BY DEF CaseStatuses
  <2>2. /\ SetRow([row EXCEPT !.status = "processing"])
        /\ \/ meta' = Marked(Meta(row), "processing") /\ lost' = lost
           \/ meta' = Meta(row) /\ Lose
    BY <1>4 DEF SetStatus
  <2>3. /\ row' = [row EXCEPT !.status = "processing"]
        /\ meta' \in MetaSet /\ meta'.total = Meta(row).total /\ lost' \in 0 .. MaxLost
        /\ lost' = 0 => lost = 0 /\ meta' # NoMeta
    BY <1>1, <2>1, <2>2, StatusSet
  <2>4. chord' \in SUBSET Ids /\ held' = held /\ fin' = "chord" /\ outcome' = outcome
    BY <1>4, KnownFiles DEF Launch, Known, StoreInv
  <2> QED BY <1>1, <1>2, <1>3, <1>4, <2>1, <2>3, <2>4, StartKeeps
<1>5. CASE StartFails(Meta(row), docs)
  BY <1>1, <1>2, <1>3, <1>5, StartFailsKeeps
<1> QED BY <1>4, <1>5 DEF Process

LEMMA RetryKeeps == StoreInv /\ Retry => StoreInv'
<1> SUFFICES ASSUME StoreInv, Retry PROVE StoreInv'
  OBVIOUS
<1> DEFINE failed == FailedDocs(docs)
           retried == [i \in Ids |-> IF i \in failed
                                     THEN [docs[i] EXCEPT !.status = "pending_retry"] ELSE docs[i]]
<1>1. docs \in [Ids -> DocSet] /\ phase = "open" /\ ~lock /\ files' = Files(docs)
  BY Types DEF StoreInv, Retry
<1>2. UNCHANGED <<phase, disk, saving, replacing, reverted, saves, rejected, evicted>>
  BY DEF Retry, requestVars
<1>3. retried \in [Ids -> DocSet]
  BY <1>1 DEF DocSet, DocStatuses
<1>4. \A i \in Ids : /\ retried[i].path = docs[i].path /\ retried[i].content = docs[i].content
                     /\ retried[i] = NoDoc <=> docs[i] = NoDoc
                     /\ i \in Stored(docs) => retried[i].status # "absent"
  <2> TAKE i \in Ids
  <2>1. docs[i] \in DocSet
    BY <1>1
  <2>2. CASE i \in failed
    <3>1. retried[i] = [docs[i] EXCEPT !.status = "pending_retry"] /\ docs[i].status \in Failed
      BY <2>2 DEF FailedDocs
    <3> HIDE DEF retried, failed
    <3> QED BY <2>1, <3>1 DEF DocSet, NoDoc, Failed
  <2>3. CASE i \notin failed
    BY <2>3 DEF StoreInv, DocsOK
  <2> QED BY <2>2, <2>3
<1>5. failed \in SUBSET Ids
  BY DEF FailedDocs
<1>6. \/ /\ SetStatus(Meta(row), "processing") /\ docs' = retried /\ lock' = TRUE
         /\ chord' = failed /\ held' = held /\ fin' = "chord" /\ outcome' = outcome
      \/ StartFails(Meta(row), retried)
  BY DEF Retry
<1> HIDE DEF failed, retried
<1>7. CASE /\ SetStatus(Meta(row), "processing") /\ docs' = retried /\ lock' = TRUE
           /\ chord' = failed /\ held' = held /\ fin' = "chord" /\ outcome' = outcome
  <2>1. "processing" \in CaseStatuses
    BY DEF CaseStatuses
  <2>2. /\ SetRow([row EXCEPT !.status = "processing"])
        /\ \/ meta' = Marked(Meta(row), "processing") /\ lost' = lost
           \/ meta' = Meta(row) /\ Lose
    BY <1>7 DEF SetStatus
  <2>3. /\ row' = [row EXCEPT !.status = "processing"]
        /\ meta' \in MetaSet /\ meta'.total = Meta(row).total /\ lost' \in 0 .. MaxLost
        /\ lost' = 0 => lost = 0 /\ meta' # NoMeta
    BY <1>1, <2>1, <2>2, StatusSet
  <2> QED BY <1>1, <1>2, <1>3, <1>4, <1>5, <1>7, <2>1, <2>3, StartKeeps
<1>8. CASE StartFails(Meta(row), retried)
  BY <1>1, <1>2, <1>3, <1>4, <1>8, StartFailsKeeps
<1> QED BY <1>6, <1>7, <1>8
\* A new status in one document's row leaves the others, its file and its number alone,
\* and its path unless it is one of those left out.
LEMMA StatusWritten ==
    ASSUME StoreInv, NEW d \in Stored(docs), NEW status \in DocStatuses, NEW path \in Paths,
           path = docs[d].path \/ (d \in reverted' /\ path[1] \in {0, d}),
           docs' \in [Ids -> DocSet],
           docs'[d] = [status |-> status, path |-> path, content |-> docs[d].content],
           \A i \in Ids \ {d} : docs'[i] = docs[i],
           reverted \subseteq reverted', held' \subseteq held,
           UNCHANGED <<phase, files, disk, replacing, saves>>
    PROVE  /\ Stored(docs') = Stored(docs) /\ Known' = Known
           /\ Agrees(files, docs, reverted) => Agrees(files, docs', reverted')
           /\ OriginalIsServed' /\ DocsOK' /\ ReplacingOK'
<1>1. docs \in [Ids -> DocSet] /\ d \in Ids /\ docs[d] \in DocSet /\ docs[d] # NoDoc
  BY Types DEF StoreInv, Stored
<1>2. /\ docs'[d].status = status /\ status # "absent" /\ docs'[d] # NoDoc
      /\ docs'[d].path = path /\ docs'[d].content = docs[d].content
  BY <1>1 DEF DocSet, NoDoc, DocStatuses
<1>3. \A i \in Ids : /\ docs'[i].path = docs[i].path \/ (i \in reverted' /\ docs'[i].path[1] \in {0, i})
                     /\ docs'[i].content = docs[i].content
                     /\ docs'[i] = NoDoc <=> docs[i] = NoDoc
                     /\ i \in Stored(docs) => docs'[i].status # "absent"
  BY <1>1, <1>2 DEF StoreInv, DocsOK
<1>4. /\ Stored(docs') = Stored(docs)
      /\ \A fs : Agrees(fs, docs, reverted) => Agrees(fs, docs', reverted')
  BY <1>1, <1>3, SameRecords
<1>5. Known' = Known
  BY <1>1, <1>4, KnownKept, Types DEF StoreInv
<1>6. OriginalIsServed' /\ DocsOK' /\ ReplacingOK'
  BY <1>3, <1>4, ServedKept DEF StoreInv
<1> QED BY <1>4, <1>5, <1>6

\* A row that takes a status alone.
LEMMA StatusAlone ==
    ASSUME StoreInv, NEW d \in Stored(docs), NEW status \in DocStatuses,
           docs' = [docs EXCEPT ![d].status = status]
    PROVE  /\ docs' \in [Ids -> DocSet] /\ docs[d].path \in Paths
           /\ docs'[d] = [status |-> status, path |-> docs[d].path, content |-> docs[d].content]
           /\ \A i \in Ids \ {d} : docs'[i] = docs[i]
BY Types DEF StoreInv, Stored, DocSet

LEMMA SkipKeeps ==
    ASSUME StoreInv, NEW d \in Ids, Skip(d)
    PROVE  StoreInv'
<1>1. /\ phase = "open" /\ d \in Stored(docs) /\ docs' = [docs EXCEPT ![d].status = "skipped"]
      /\ row' = Recomputed(docs')
      /\ UNCHANGED <<phase, disk, meta, files, lock, saving, replacing, chord, held, reverted, fin,
                     outcome, saves, lost, rejected, evicted>>
  BY DEF Skip, SkippedDoc, Stored, cacheVars, taskVars, chainVars, requestVars, counters
<1>2. /\ docs' \in [Ids -> DocSet] /\ docs'[d].status = "skipped"
      /\ \A i \in Ids \ {d} : docs'[i] = docs[i]
      /\ Stored(docs') = Stored(docs) /\ Known' = Known
      /\ Agrees(files, docs, reverted) => Agrees(files, docs', reverted')
      /\ OriginalIsServed' /\ DocsOK' /\ ReplacingOK'
  <2>1. "skipped" \in DocStatuses
    BY DEF DocStatuses
  <2>2. /\ docs' \in [Ids -> DocSet] /\ docs[d].path \in Paths
        /\ docs'[d] = [status |-> "skipped", path |-> docs[d].path, content |-> docs[d].content]
        /\ \A i \in Ids \ {d} : docs'[i] = docs[i]
    BY <1>1, <2>1, StatusAlone
  <2> QED BY <1>1, <2>1, <2>2, StatusWritten
<1>3. PICK ds \in [Ids -> DocSet] : ds = docs'
  BY <1>2
<1>4. /\ row' \in RowSet /\ row' # NoRow /\ row'.status # "absent" /\ row'.total = row.total
      /\ row'.completed + row'.failed <= Cardinality(Stored(ds))
      /\ row'.status = "complete" => \A i \in Ids : ds[i].status # "cfailed"
  BY <1>1, <1>3, Recount, Types DEF StoreInv
<1>5. TypeOK'
  BY <1>1, <1>2, <1>4 DEF StoreInv, TypeOK, RowSet, DocSet
<1>6. ListOK' /\ TotalOK' /\ SavingOK'
  BY <1>1, <1>2 DEF StoreInv, ListOK, TotalOK, SavingOK, Saving
<1>7. PhaseOK' /\ LockOK'
  BY <1>1, <1>4 DEF StoreInv, PhaseOK, LockOK, Saving
<1>8. AgreeOK'
  <2>1. lost = 0 => Stored(docs') = 1 .. row'.total /\ row'.completed + row'.failed <= row'.total
    <3>1. row.total \in Nat /\ (lost = 0 => Stored(docs) = 1 .. row.total)
      BY <1>1, Types, Bounds DEF StoreInv, AgreeOK, RowSet
    <3>2. Cardinality(1 .. row.total) = row.total
      BY <3>1, FS_Interval
    <3> QED BY <1>2, <1>3, <1>4, <3>1, <3>2
  <2> QED BY <1>1, <1>2, <1>4, <2>1 DEF StoreInv, AgreeOK, Saving
<1>9. CompleteOK' /\ CacheOK'
  <2>1. NoneRefused => NoneRefused'
    BY <1>2 DEF NoneRefused
  <2>2. row'.status = "complete" => NoneRefused'
    BY <1>3, <1>4 DEF NoneRefused
  <2> QED BY <1>1, <2>1, <2>2 DEF StoreInv, CompleteOK, CacheOK
<1> QED BY <1>2, <1>5, <1>6, <1>7, <1>8, <1>9 DEF StoreInv

\* The end of a chain, once it is known what its write leaves of the record.
LEMMA ChainKeeps ==
    ASSUME StoreInv, NEW d \in Ids, d \in chord, chord' = chord \ {d}, held' \subseteq held,
           docs' \in [Ids -> DocSet], reverted' \in SUBSET Ids,
           Stored(docs') = Stored(docs), Known' = Known,
           Agrees(files, docs, reverted) => Agrees(files, docs', reverted'),
           OriginalIsServed', DocsOK', ReplacingOK',
           UNCHANGED <<phase, row, disk, meta, files, lock, saving, replacing, fin, outcome,
                       saves, lost, rejected, evicted>>
    PROVE  StoreInv'
<1>1. TypeOK'
  BY DEF StoreInv, TypeOK, DocSet
<1>2. ListOK' /\ TotalOK' /\ SavingOK'
  BY DEF StoreInv, ListOK, TotalOK, SavingOK, Saving
<1>3. PhaseOK' /\ LockOK'
  BY DEF StoreInv, PhaseOK, LockOK, Saving
<1>4. AgreeOK'
  BY DEF StoreInv, AgreeOK, Saving
<1>5. CompleteOK' /\ CacheOK'
  <2>1. phase = "open" => fin = "chord"
    BY DEF StoreInv, LockOK
  <2> QED BY <2>1 DEF StoreInv, CompleteOK, CacheOK
<1> QED BY <1>1, <1>2, <1>3, <1>4, <1>5 DEF StoreInv

\* A record that is left alone.
LEMMA RecordKept ==
    ASSUME StoreInv, UNCHANGED <<phase, docs, disk, files, replacing, reverted, saves>>,
           held' \subseteq held
    PROVE  /\ docs' \in [Ids -> DocSet] /\ reverted' \in SUBSET Ids
           /\ Stored(docs') = Stored(docs) /\ Known' = Known
           /\ Agrees(files, docs, reverted) => Agrees(files, docs', reverted')
           /\ OriginalIsServed' /\ DocsOK' /\ ReplacingOK'
<1>1. docs' \in [Ids -> DocSet] /\ reverted' \in SUBSET Ids
  BY Types DEF StoreInv, TypeOK
<1>2. Stored(docs') = Stored(docs) /\ Known' = Known
  BY DEF Known, Files, FilesOf, Stored
<1>3. OriginalIsServed' /\ DocsOK' /\ ReplacingOK'
  BY DEF StoreInv, OriginalIsServed, DocsOK, ReplacingOK, Served, Stored
<1> QED BY <1>1, <1>2, <1>3

LEMMA ChainEndsKeeps ==
    ASSUME StoreInv, NEW d \in Ids, ChainEnds(d)
    PROVE  StoreInv'
<1>1. /\ d \in chord /\ chord' = chord \ {d} /\ held' \subseteq held
      /\ UNCHANGED <<phase, row, disk, meta, files, lock, saving, replacing, fin, outcome,
                     reverted, saves, lost, rejected, evicted>>
  BY DEF ChainEnds, cacheVars, requestVars, counters
<1>2. reverted' \in SUBSET Ids
  BY <1>1 DEF StoreInv, TypeOK
<1>3. CASE \E status \in {"failed", "cfailed"} :
             docs[d] # NoDoc /\ docs' = [docs EXCEPT ![d].status = status]
  <2>1. PICK status \in DocStatuses : docs[d] # NoDoc /\ docs' = [docs EXCEPT ![d].status = status]
    BY <1>3 DEF DocStatuses
  <2>2. d \in Stored(docs)
    BY <2>1 DEF Stored
  <2>3. /\ docs' \in [Ids -> DocSet] /\ docs[d].path \in Paths
        /\ docs'[d] = [status |-> status, path |-> docs[d].path, content |-> docs[d].content]
        /\ \A i \in Ids \ {d} : docs'[i] = docs[i]
    BY <2>1, <2>2, StatusAlone
  <2>4. /\ Stored(docs') = Stored(docs) /\ Known' = Known
        /\ Agrees(files, docs, reverted) => Agrees(files, docs', reverted')
        /\ OriginalIsServed' /\ DocsOK' /\ ReplacingOK'
    BY <1>1, <2>2, <2>3, StatusWritten
  <2> QED BY <1>1, <1>2, <2>3, <2>4, ChainKeeps
<1>4. CASE docs' = docs
  <2>1. /\ docs' \in [Ids -> DocSet] /\ Stored(docs') = Stored(docs) /\ Known' = Known
        /\ Agrees(files, docs, reverted) => Agrees(files, docs', reverted')
        /\ OriginalIsServed' /\ DocsOK' /\ ReplacingOK'
    BY <1>1, <1>4, RecordKept
  <2> QED BY <1>1, <1>2, <2>1, ChainKeeps
<1> QED BY <1>3, <1>4 DEF ChainEnds

LEMMA PersistWritesKeeps ==
    ASSUME StoreInv, NEW d \in Ids, PersistWrites(d)
    PROVE  StoreInv'
<1>1. PICK e \in HeldFor(d) :
        /\ d \in chord
        /\ \/ /\ docs[d] # NoDoc
              /\ docs' = [docs EXCEPT ![d].status = "structured", ![d].path = e.path]
              /\ reverted' = IF docs[d].path = e.path THEN reverted ELSE reverted \cup {d}
           \/ docs[d] = NoDoc /\ docs' = docs /\ reverted' = reverted
  BY DEF PersistWrites
<1>2. /\ chord' = chord \ {d} /\ held' \subseteq held
      /\ UNCHANGED <<phase, row, disk, meta, files, lock, saving, replacing, fin, outcome,
                     saves, lost, rejected, evicted>>
  BY DEF PersistWrites, cacheVars, requestVars, counters
<1>3. e \in held /\ e.id = d /\ e.path \in Paths /\ e.path[1] \in {0, d} /\ d \in chord
  <2>1. e \in held /\ e.id = d /\ e \in Entries
    BY DEF HeldFor, StoreInv, TypeOK
  <2> QED BY <1>1, <2>1 DEF StoreInv, DocsOK, Entries
<1>4. reverted' \in SUBSET Ids /\ reverted \subseteq reverted'
  BY <1>1 DEF StoreInv, TypeOK
<1>5. CASE docs[d] # NoDoc
  <2>1. d \in Stored(docs) /\ "structured" \in DocStatuses
    BY <1>5 DEF Stored, DocStatuses
  <2>2. docs \in [Ids -> DocSet] /\ docs[d] \in DocSet
    BY Types DEF StoreInv
  <2>3. /\ docs'[d] = [status |-> "structured", path |-> e.path, content |-> docs[d].content]
        /\ \A i \in Ids \ {d} : docs'[i] = docs[i]
        /\ docs' \in [Ids -> DocSet]
    BY <1>1, <1>3, <1>5, <2>1, <2>2 DEF DocSet
  <2>4. e.path = docs[d].path \/ (d \in reverted' /\ e.path[1] \in {0, d})
    BY <1>1, <1>3, <1>5
  <2>5. /\ Stored(docs') = Stored(docs) /\ Known' = Known
        /\ Agrees(files, docs, reverted) => Agrees(files, docs', reverted')
        /\ OriginalIsServed' /\ DocsOK' /\ ReplacingOK'
    BY <1>2, <1>3, <1>4, <2>1, <2>3, <2>4, StatusWritten
  <2> QED BY <1>2, <1>3, <1>4, <2>3, <2>5, ChainKeeps
<1>6. CASE docs[d] = NoDoc
  <2>1. /\ docs' \in [Ids -> DocSet] /\ Stored(docs') = Stored(docs) /\ Known' = Known
        /\ Agrees(files, docs, reverted) => Agrees(files, docs', reverted')
        /\ OriginalIsServed' /\ DocsOK' /\ ReplacingOK'
    BY <1>1, <1>2, <1>6, RecordKept
  <2> QED BY <1>2, <1>3, <1>4, <2>1, ChainKeeps
<1> QED BY <1>5, <1>6

LEMMA PersistReadsKeeps ==
    ASSUME StoreInv, NEW d \in Ids, PersistReads(d)
    PROVE  StoreInv'
<1> DEFINE e == [id |-> d, path |-> docs[d].path]
<1>1. /\ held' \subseteq held \cup {e} /\ d \in Stored(docs)
      /\ UNCHANGED <<phase, row, docs, disk, meta, files, lock, saving, replacing, chord, fin,
                     outcome, reverted, saves, lost, rejected, evicted>>
  BY DEF PersistReads, Stored, recordVars, cacheVars, requestVars, counters
<1>2. e \in Entries /\ e.id = d /\ e.path[1] \in {0, d}
  BY <1>1, Types DEF StoreInv, DocsOK, DocSet, Entries
<1> HIDE DEF e
<1>3. TypeOK'
  BY <1>1, <1>2 DEF StoreInv, TypeOK
<1>4. Stored(docs)' = Stored(docs) /\ Known' = Known /\ NoneRefused' = NoneRefused
  BY <1>1 DEF Known, Files, FilesOf, Stored, Listed, NoneRefused
<1>5. DocsOK'
  BY <1>1, <1>2, <1>4 DEF StoreInv, DocsOK
<1>6. OriginalIsServed' /\ ReplacingOK'
  BY <1>1 DEF StoreInv, OriginalIsServed, ReplacingOK, Served, Stored
<1>7. ListOK' /\ TotalOK' /\ SavingOK'
  BY <1>1, <1>4 DEF StoreInv, ListOK, TotalOK, SavingOK, Saving
<1>8. PhaseOK' /\ LockOK'
  BY <1>1, <1>4 DEF StoreInv, PhaseOK, LockOK, Saving
<1>9. AgreeOK'
  BY <1>1, <1>4 DEF StoreInv, AgreeOK, Saving
<1>10. CompleteOK' /\ CacheOK'
  BY <1>1, <1>4 DEF StoreInv, CompleteOK, CacheOK
<1> QED BY <1>3, <1>5, <1>6, <1>7, <1>8, <1>9, <1>10 DEF StoreInv

\* A step that leaves the documents, their files and the list alone.
LEMMA DocsKept ==
    ASSUME StoreInv, UNCHANGED <<phase, docs, disk, files, replacing, held, reverted, saves>>
    PROVE  /\ OriginalIsServed' /\ DocsOK' /\ ReplacingOK' /\ ListOK' /\ Known' = Known
           /\ Stored(docs)' = Stored(docs) /\ NoneRefused' = NoneRefused
           /\ Agrees(files, docs, reverted)' = Agrees(files, docs, reverted)
BY DEF StoreInv, OriginalIsServed, Served, DocsOK, ReplacingOK, ListOK, Known, Files, FilesOf, Stored,
       Agrees, EntriesOf, NoneRefused, Listed

LEMMA FinalizeCountKeeps == StoreInv /\ FinalizeCount => StoreInv'
<1> SUFFICES ASSUME StoreInv, FinalizeCount PROVE StoreInv'
  OBVIOUS
<1> DEFINE failed == Count(docs, {"failed", "cfailed"})
<1>1. /\ fin = "chord" /\ chord = {} /\ fin' = "write" /\ SetRow(Recomputed(docs))
      /\ outcome' \in {"complete", "failed", "partial"} /\ (outcome' = "complete" => failed = 0)
      /\ UNCHANGED <<phase, docs, disk, meta, files, lock, saving, replacing, chord, held, reverted,
                     saves, lost, rejected, evicted>>
  BY DEF FinalizeCount, cacheVars, chainVars, requestVars, counters
<1>2. row \in RowSet /\ docs \in [Ids -> DocSet]
  BY Types DEF StoreInv
<1>3. failed = 0 => NoneRefused
  BY <1>2, Counts DEF NoneRefused
<1> HIDE DEF failed
<1>4. /\ Recomputed(docs) \in RowSet /\ Recomputed(docs) # NoRow
      /\ Recomputed(docs).status # "absent" /\ Recomputed(docs).total = row.total
      /\ Recomputed(docs).completed + Recomputed(docs).failed <= Cardinality(Stored(docs))
      /\ Recomputed(docs).status = "complete" => NoneRefused
  BY <1>2, Recount DEF NoneRefused
<1>5. /\ row = NoRow => row' = NoRow
      /\ row # NoRow => row' = Recomputed(docs)
      /\ row' \in RowSet
  BY <1>1, <1>2, <1>4 DEF SetRow
<1>6. /\ OriginalIsServed' /\ DocsOK' /\ ReplacingOK' /\ ListOK' /\ Known' = Known
      /\ Stored(docs)' = Stored(docs) /\ NoneRefused' = NoneRefused
      /\ Agrees(files, docs, reverted)' = Agrees(files, docs, reverted)
  BY <1>1, DocsKept
<1>7. TypeOK'
  BY <1>1, <1>5 DEF StoreInv, TypeOK, RowSet, CaseStatuses
<1>8. TotalOK' /\ SavingOK'
  BY <1>1, <1>6 DEF StoreInv, TotalOK, SavingOK, Saving
<1>9. PhaseOK' /\ LockOK'
  BY <1>1, <1>4, <1>5, <1>6 DEF StoreInv, PhaseOK, LockOK, Saving
<1>10. AgreeOK'
  <2>1. ASSUME phase = "open", lost = 0
        PROVE  row'.total = row.total /\ row'.completed + row'.failed <= row'.total
    <3>1. row.total \in Nat /\ Stored(docs) = 1 .. row.total /\ row # NoRow
      BY <1>2, <2>1, Bounds DEF StoreInv, AgreeOK, RowSet, PhaseOK
    <3>2. Cardinality(1 .. row.total) = row.total
      BY <3>1, FS_Interval
    <3> QED BY <1>4, <1>5, <3>1, <3>2
  <2> QED BY <1>1, <1>6, <2>1 DEF StoreInv, AgreeOK, Saving
<1>11. CompleteOK' /\ CacheOK'
  BY <1>1, <1>3, <1>4, <1>5, <1>6 DEF StoreInv, CompleteOK, CacheOK, PhaseOK
<1> QED BY <1>6, <1>7, <1>8, <1>9, <1>10, <1>11 DEF StoreInv

LEMMA FinalizeWriteKeeps == StoreInv /\ FinalizeWrite => StoreInv'
<1> SUFFICES ASSUME StoreInv, FinalizeWrite PROVE StoreInv'
  OBVIOUS
<1>1. /\ fin = "write" /\ fin' = "cache" /\ SetRow([row EXCEPT !.status = outcome])
      /\ UNCHANGED <<phase, docs, disk, meta, files, lock, saving, replacing, chord, held, reverted, outcome,
                     saves, lost, rejected, evicted>>
  BY DEF FinalizeWrite, cacheVars, chainVars, requestVars, counters
<1>2. row \in RowSet /\ outcome \in CaseStatuses
  BY Types DEF StoreInv, TypeOK
<1>3. /\ row = NoRow => row' = NoRow
      /\ row # NoRow => /\ row' # NoRow /\ row'.status = outcome /\ row'.status # "absent"
                        /\ row'.total = row.total /\ row'.completed = row.completed
                        /\ row'.failed = row.failed
      /\ row' \in RowSet
  BY <1>1, <1>2, RowWithStatus DEF SetRow
<1>4. /\ OriginalIsServed' /\ DocsOK' /\ ReplacingOK' /\ ListOK' /\ Known' = Known
      /\ Stored(docs)' = Stored(docs) /\ NoneRefused' = NoneRefused
      /\ Agrees(files, docs, reverted)' = Agrees(files, docs, reverted)
  BY <1>1, DocsKept
<1>5. TypeOK'
  BY <1>1, <1>3 DEF StoreInv, TypeOK, RowSet
<1>6. TotalOK' /\ SavingOK'
  BY <1>1, <1>4 DEF StoreInv, TotalOK, SavingOK, Saving
<1>7. PhaseOK' /\ LockOK'
  BY <1>1, <1>3, <1>4 DEF StoreInv, PhaseOK, LockOK, Saving
<1>8. AgreeOK'
  BY <1>1, <1>3, <1>4 DEF StoreInv, AgreeOK, Saving, PhaseOK
<1>9. CompleteOK' /\ CacheOK'
  BY <1>1, <1>3, <1>4 DEF StoreInv, CompleteOK, CacheOK, PhaseOK
<1> QED BY <1>4, <1>5, <1>6, <1>7, <1>8, <1>9 DEF StoreInv

LEMMA FinalizeCacheKeeps == StoreInv /\ FinalizeCache => StoreInv'
<1> SUFFICES ASSUME StoreInv, FinalizeCache PROVE StoreInv'
  OBVIOUS
<1>1. /\ fin = "cache" /\ fin' = "release"
      /\ \/ meta' = Marked(meta, outcome) /\ lost' = lost
         \/ Lose /\ meta' = meta
      /\ UNCHANGED <<phase, row, docs, disk, files, lock, saving, replacing, chord, held, reverted, outcome,
                     saves, rejected, evicted>>
  BY DEF FinalizeCache, recordVars, chainVars, requestVars
<1>2. /\ meta \in MetaSet /\ outcome \in CaseStatuses /\ lost \in 0 .. MaxLost /\ MaxLost \in Nat
      /\ outcome \in {"complete", "failed", "partial"}
  BY <1>1, Types, Bounds DEF StoreInv, TypeOK, CacheOK
<1>3. /\ meta' \in MetaSet /\ meta'.total = meta.total /\ lost' \in 0 .. MaxLost
      /\ lost' = 0 => lost = 0 /\ meta' # NoMeta /\ meta'.status = outcome
  <2>1. CASE meta' = Marked(meta, outcome) /\ lost' = lost
    BY <1>2, <2>1, MetaMarked
  <2>2. CASE Lose /\ meta' = meta
    BY <1>2, <2>2 DEF Lose
  <2> QED BY <1>1, <2>1, <2>2
<1>4. /\ OriginalIsServed' /\ DocsOK' /\ ReplacingOK' /\ ListOK' /\ Known' = Known
      /\ Stored(docs)' = Stored(docs) /\ NoneRefused' = NoneRefused
      /\ Agrees(files, docs, reverted)' = Agrees(files, docs, reverted)
  BY <1>1, DocsKept
<1>5. TypeOK'
  BY <1>1, <1>3 DEF StoreInv, TypeOK, MetaSet
<1>6. TotalOK' /\ SavingOK'
  BY <1>1, <1>3, <1>4 DEF StoreInv, TotalOK, SavingOK, Saving
<1>7. PhaseOK' /\ LockOK'
  BY <1>1, <1>4 DEF StoreInv, PhaseOK, LockOK, Saving
<1>8. AgreeOK'
  BY <1>1, <1>3, <1>4 DEF StoreInv, AgreeOK, Saving
<1>9. CompleteOK' /\ CacheOK'
  BY <1>1, <1>2, <1>3, <1>4 DEF StoreInv, CompleteOK, CacheOK
<1> QED BY <1>4, <1>5, <1>6, <1>7, <1>8, <1>9 DEF StoreInv

LEMMA FinalizeReleaseKeeps == StoreInv /\ FinalizeRelease => StoreInv'
<1> SUFFICES ASSUME StoreInv, FinalizeRelease PROVE StoreInv'
  OBVIOUS
<1>1. /\ fin = "release" /\ fin' = "none" /\ lock' = FALSE
      /\ UNCHANGED <<phase, row, docs, disk, meta, files, saving, replacing, chord, held, reverted, outcome,
                     saves, lost, rejected, evicted>>
  BY DEF FinalizeRelease, recordVars, cacheVars, chainVars, requestVars, counters
<1>2. /\ OriginalIsServed' /\ DocsOK' /\ ReplacingOK' /\ ListOK' /\ Known' = Known
      /\ Stored(docs)' = Stored(docs) /\ NoneRefused' = NoneRefused
      /\ Agrees(files, docs, reverted)' = Agrees(files, docs, reverted)
  BY <1>1, DocsKept
<1>3. TypeOK'
  BY <1>1 DEF StoreInv, TypeOK
<1>4. TotalOK' /\ SavingOK'
  BY <1>1, <1>2 DEF StoreInv, TotalOK, SavingOK, Saving
<1>5. PhaseOK' /\ LockOK'
  BY <1>1, <1>2 DEF StoreInv, PhaseOK, LockOK, Saving
<1>6. AgreeOK'
  BY <1>1, <1>2 DEF StoreInv, AgreeOK, Saving
<1>7. CompleteOK' /\ CacheOK'
  BY <1>1, <1>2 DEF StoreInv, CompleteOK, CacheOK
<1> QED BY <1>2, <1>3, <1>4, <1>5, <1>6, <1>7 DEF StoreInv

LEMMA EvictKeeps == StoreInv /\ Evict => StoreInv'
<1> SUFFICES ASSUME StoreInv, Evict PROVE StoreInv'
  OBVIOUS
<1>1. /\ phase = "open" /\ evicted < MaxEvictions /\ evicted' = evicted + 1
      /\ meta' = NoMeta /\ files' = NoFiles
      /\ UNCHANGED <<phase, row, docs, disk, lock, saving, replacing, chord, held, reverted, fin, outcome,
                     saves, lost, rejected>>
  BY DEF Evict, recordVars, taskVars, chainVars, requestVars
<1>2. /\ meta' \in MetaSet /\ meta'.total = 0 /\ evicted' \in 0 .. MaxEvictions /\ evicted' # 0
      /\ MaxDocs \in Nat
  <2>1. evicted \in Nat /\ MaxEvictions \in Nat /\ MaxDocs \in Nat
    BY Types, Bounds DEF StoreInv
  <2>2. NoMeta \in MetaSet /\ NoMeta.total = 0
    BY <2>1 DEF NoMeta, MetaSet
  <2>3. evicted + 1 \in 0 .. MaxEvictions /\ evicted + 1 # 0
    BY <1>1, <2>1
  <2> QED BY <1>1, <2>1, <2>2, <2>3
<1>3. TypeOK'
  BY <1>1, <1>2 DEF StoreInv, TypeOK, MetaSet
<1>4. DocsOK' /\ ListOK' /\ TotalOK' /\ OriginalIsServed' /\ ReplacingOK'
  BY <1>1, <1>2 DEF StoreInv, DocsOK, ListOK, TotalOK, OriginalIsServed, ReplacingOK, Served, Stored
<1>5. SavingOK'
  BY <1>1, <1>2, SavingKept DEF StoreInv, SavingOK
<1>6. PhaseOK' /\ LockOK' /\ AgreeOK'
  BY <1>1 DEF StoreInv, PhaseOK, LockOK, AgreeOK, Saving
<1>7. CompleteOK' /\ CacheOK'
  BY <1>1, <1>2 DEF StoreInv, CompleteOK, CacheOK, NoneRefused
<1> QED BY <1>3, <1>4, <1>5, <1>6, <1>7 DEF StoreInv

LEMMA DeleteKeeps == StoreInv /\ Delete => StoreInv'
<1> SUFFICES ASSUME StoreInv, Delete PROVE StoreInv'
  OBVIOUS
<1>1. /\ phase = "open" /\ phase' = "deleted" /\ chord' \subseteq chord
      /\ meta' = NoMeta /\ files' = NoFiles /\ lock' = FALSE /\ row' = NoRow
      /\ docs' = [i \in Ids |-> NoDoc] /\ disk' = [p \in Paths |-> 0]
      /\ held' \subseteq held /\ reverted' = {}
      /\ UNCHANGED <<saving, replacing, outcome, saves, lost, rejected, evicted>>
  BY DEF Delete, requestVars, counters
<1>2. fin' = fin \/ fin' = "none"
  BY DEF Delete
<1>3. /\ NoMeta \in MetaSet /\ meta'.total = 0 /\ NoRow \in RowSet /\ NoDoc \in DocSet
      /\ MaxDocs \in Nat /\ 0 \in 0 .. MaxSaves /\ saves \in Nat
  BY <1>1, Types, Bounds DEF StoreInv, NoMeta, MetaSet, NoRow, RowSet, NoDoc, DocSet
<1>4. docs' \in [Ids -> DocSet] /\ disk' \in [Paths -> 0 .. MaxSaves]
  BY <1>1, <1>3
<1>5. TypeOK'
  BY <1>1, <1>2, <1>3, <1>4 DEF StoreInv, TypeOK, RowSet, MetaSet, DocSet
<1>6. Stored(docs)' = {}
  BY <1>1 DEF Stored
<1>7. DocsOK' /\ ListOK' /\ TotalOK' /\ OriginalIsServed' /\ ReplacingOK'
  BY <1>1, <1>3, <1>6 DEF StoreInv, DocsOK, ListOK, TotalOK, OriginalIsServed, ReplacingOK
<1>8. SavingOK'
  BY <1>1, <1>3, SavingKept DEF StoreInv, SavingOK
<1>9. PhaseOK' /\ LockOK' /\ AgreeOK' /\ CompleteOK'
  BY <1>1, <1>6 DEF PhaseOK, LockOK, AgreeOK, CompleteOK
<1>10. CacheOK'
  BY <1>1, <1>2 DEF StoreInv, CacheOK
<1> QED BY <1>5, <1>7, <1>8, <1>9, <1>10 DEF StoreInv
\* Storing a batch of files: what is served stays as new as it was, the batch's documents
\* are served with its files, and the record lists the old documents and the new.
LEMMA BatchStored ==
    ASSUME StoreInv, NEW names \in Seq(Names), NEW start \in Nat,
           start + Len(names) <= MaxDocs, saves + Len(names) <= MaxSaves,
           docs' = Inserted(names, start), disk' = Written(names), saves' = saves + Len(names),
           UNCHANGED <<replacing, held>>, reverted \subseteq reverted' \cup (start + 1 .. start + Len(names)),
           phase' = phase \/ (Stored(docs) = {} /\ replacing = NoReplace)
    PROVE  /\ docs' \in [Ids -> DocSet] /\ disk' \in [Paths -> 0 .. MaxSaves]
           /\ saves' \in 0 .. MaxSaves
           /\ Stored(docs') = Stored(docs) \cup (start + 1 .. start + Len(names))
           /\ \A i \in Ids \ (start + 1 .. start + Len(names)) : docs'[i] = docs[i]
           /\ \A k \in 1 .. Len(names) : start + k \in Ids /\ docs'[start + k].path = Raw(names[k])
           /\ OriginalIsServed' /\ DocsOK' /\ ReplacingOK'
<1>1. /\ docs \in [Ids -> DocSet] /\ disk \in [Paths -> 0 .. MaxSaves] /\ saves \in Nat
      /\ saves \in 0 .. MaxSaves /\ Len(names) \in Nat /\ MaxSaves \in Nat /\ MaxDocs \in Nat
  <2>1. TypeOK
    BY DEF StoreInv
  <2>2. docs \in [Ids -> DocSet] /\ disk \in [Paths -> 0 .. MaxSaves] /\ saves \in Nat /\ saves \in 0 .. MaxSaves
    BY <2>1, Types
  <2>3. Len(names) \in Nat
    OBVIOUS
  <2> QED BY <2>2, <2>3, Bounds
<1> DEFINE n == Len(names)
           New == start + 1 .. start + n
<1>2. /\ docs' \in [Ids -> DocSet]
      /\ \A i \in Ids \ New : docs'[i] = docs[i]
      /\ \A k \in 1 .. n :
            /\ start + k \in Ids
            /\ docs'[start + k] = [status |-> IF docs[start + k] = NoDoc THEN "uploaded"
                                              ELSE docs[start + k].status,
                                   path |-> Raw(names[k]), content |-> saves + k]
  BY <1>1, InsertedDocs
<1>3. /\ disk' \in [Paths -> 0 .. MaxSaves]
      /\ \A p \in Paths : disk[p] <= disk'[p] /\ disk'[p] <= saves + n
      /\ \A p \in Paths : p[1] # 0 => disk'[p] = disk[p]
      /\ \A k \in 1 .. n : saves + k <= disk'[Raw(names[k])]
  BY <1>1, WrittenDisk DEF StoreInv, DocsOK
<1>4. ASSUME NEW i \in New
      PROVE  \E k \in 1 .. n : i = start + k
  <2>1. i - start \in 1 .. n /\ i = start + (i - start)
    BY <1>1
  <2> QED BY <2>1
<1>5. New \subseteq Ids
  BY <1>2, <1>4
<1>6. ASSUME NEW k \in 1 .. n
      PROVE  /\ docs'[start + k].path = Raw(names[k]) /\ docs'[start + k].content = saves + k
             /\ docs'[start + k].status # "absent" /\ docs'[start + k] # NoDoc
             /\ Raw(names[k]) \in Paths /\ Raw(names[k])[1] = 0
  <2>1. start + k \in Ids /\ (docs[start + k] # NoDoc => docs[start + k].status # "absent")
    BY <1>2 DEF StoreInv, DocsOK, Stored
  <2>2. Raw(names[k]) \in Paths /\ Raw(names[k])[1] = 0
    <3>1. names[k] \in Names
      BY <1>1
    <3> QED BY <3>1, PathNames
  <2> DEFINE s == IF docs[start + k] = NoDoc THEN "uploaded" ELSE docs[start + k].status
  <2>3. docs'[start + k] = [status |-> s, path |-> Raw(names[k]), content |-> saves + k]
    BY <1>2
  <2>4. s # "absent"
    BY <2>1
  <2> HIDE DEF s
  <2>5. /\ docs'[start + k].path = Raw(names[k]) /\ docs'[start + k].content = saves + k
        /\ docs'[start + k].status = s
    BY <2>3
  <2> QED BY <2>2, <2>4, <2>5 DEF NoDoc
<1> HIDE DEF n
<1>7. Stored(docs') = Stored(docs) \cup New
  <2>1. \A i \in New : docs'[i] # NoDoc
    BY <1>4, <1>6
  <2>2. Stored(docs') \subseteq Stored(docs) \cup New
    BY <1>2 DEF Stored
  <2>3. Stored(docs) \cup New \subseteq Stored(docs')
    <3> HIDE DEF New
    <3> QED BY <1>2, <1>5, <2>1 DEF Stored
  <2> QED BY <2>2, <2>3
<1>8. Stored(docs)' = Stored(docs')
  BY DEF Stored
<1>9. DocsOK'
  <2>1. ASSUME NEW i \in Stored(docs') PROVE docs'[i].status # "absent" /\ docs'[i].path[1] \in {0, i}
    <3>1. CASE i \in New
      BY <1>4, <1>6, <3>1
    <3>2. CASE i \notin New
      <4>1. i \in Stored(docs) /\ i \in Ids
        BY <1>7, <2>1, <3>2 DEF Stored
      <4> QED BY <1>2, <3>2, <4>1 DEF StoreInv, DocsOK
    <3> QED BY <3>1, <3>2
  <2>2. \A e \in held' : e.path[1] \in {0, e.id}
    BY DEF StoreInv, DocsOK
  <2> QED BY <1>3, <1>8, <2>1, <2>2 DEF DocsOK, n
<1>10. OriginalIsServed'
  <2>1. ASSUME phase' = "open", NEW i \in Stored(docs'), i \notin reverted'
        PROVE  /\ disk'[docs'[i].path] >= docs'[i].content
               /\ docs'[i].path[1] = i /\ replacing.path[1] # i
                    => disk'[docs'[i].path] = docs'[i].content
    <3>1. i \in Ids /\ i # 0
      BY Bounds DEF Stored
    <3>2. CASE i \in New
      <4>1. PICK k \in 1 .. n : i = start + k
        BY <1>4, <3>2
      <4> DEFINE q == Raw(names[k])
      <4>2. saves + k <= disk'[q] /\ q[1] = 0 /\ q \in Paths
        BY <1>3, <1>6
      <4>3. docs'[i].path = q /\ docs'[i].content = saves + k
        BY <1>6, <4>1
      <4> HIDE DEF q
      <4>4. disk'[q] \in Int /\ saves + k \in Int
        BY <1>1, <1>3, <4>2
      <4> QED BY <3>1, <4>2, <4>3, <4>4
    <3>3. CASE i \notin New
      <4>1. i \in Stored(docs) /\ docs'[i] = docs[i] /\ docs[i] \in DocSet /\ i \notin reverted
        BY <1>1, <1>2, <1>7, <2>1, <3>1, <3>3 DEF n
      <4>2. phase = "open"
        BY <2>1, <4>1
      <4>3. /\ disk[docs[i].path] >= docs[i].content /\ docs[i].path \in Paths
            /\ docs[i].path[1] = i /\ replacing.path[1] # i => disk[docs[i].path] = docs[i].content
            /\ docs[i].content \in Int
        BY <4>1, <4>2, <1>1 DEF StoreInv, OriginalIsServed, Served, DocSet
      <4>4. /\ disk'[docs[i].path] >= disk[docs[i].path]
            /\ disk'[docs[i].path] \in Int /\ disk[docs[i].path] \in Int
            /\ docs[i].path[1] # 0 => disk'[docs[i].path] = disk[docs[i].path]
        BY <1>1, <1>3, <4>3
      <4> QED BY <3>1, <4>1, <4>3, <4>4
    <3> QED BY <3>2, <3>3
  <2> QED BY <1>8, <2>1 DEF OriginalIsServed, Served
<1>13. ReplacingOK'
  <2>1. CASE phase' = phase
    <3>1. ASSUME replacing.content # 0
          PROVE  replacing.path \in Ids \X Names /\ (phase = "open" => disk'[replacing.path] = replacing.content)
      <4>1. replacing.path \in Ids \X Names /\ replacing.path \in Paths /\ replacing.path[1] # 0
        BY <3>1, PathNames DEF StoreInv, ReplacingOK
      <4> QED BY <1>3, <3>1, <4>1 DEF StoreInv, ReplacingOK
    <3> QED BY <2>1, <3>1 DEF ReplacingOK
  <2>2. CASE replacing = NoReplace
    BY <2>2 DEF ReplacingOK, NoReplace
  <2> QED BY <2>1, <2>2
<1>11. saves' \in 0 .. MaxSaves
  BY <1>1
<1>12. \A k \in 1 .. n : start + k \in Ids /\ docs'[start + k].path = Raw(names[k])
  BY <1>2, <1>6
<1> QED BY <1>2, <1>3, <1>7, <1>9, <1>10, <1>11, <1>12, <1>13 DEF n

LEMMA UploadKeeps ==
    ASSUME StoreInv, NEW names \in Batches, Upload(names)
    PROVE  StoreInv'
<1> DEFINE n == Len(names)
<1>1. names \in Seq(Names) /\ n \in Nat /\ n >= 1
  BY BatchType
<1>2. /\ phase = "new" /\ n <= MaxDocs /\ saves + n <= MaxSaves /\ phase' = "open"
      /\ disk' = Written(names) /\ saves' = saves + n /\ row' = NewCase(n)
      /\ docs' = Inserted(names, 0)
      /\ \/ /\ meta' = [status |-> "uploaded", total |-> n]
            /\ files' = NewEntries(names, 0) /\ lost' = lost
         \/ Lose /\ meta' = meta /\ files' = files
      /\ UNCHANGED <<lock, saving, replacing, chord, held, reverted, fin, outcome, rejected, evicted>>
  BY DEF Upload, taskVars, chainVars, requestVars, cacheVars
<1>3. /\ ~Saving /\ fin = "none" /\ chord = {} /\ ~lock /\ Stored(docs) = {}
      /\ files = NoFiles /\ meta = NoMeta /\ ~Saving' /\ replacing = NoReplace
  BY <1>2 DEF StoreInv, PhaseOK, Saving
<1>4. /\ 0 + n = n /\ 0 + 1 = 1 /\ MaxDocs \in Nat /\ 0 \in Nat
      /\ lost \in 0 .. MaxLost /\ MaxLost \in Nat
  BY <1>1, Types, Bounds DEF StoreInv
<1> HIDE DEF n
<1>5. /\ docs' \in [Ids -> DocSet] /\ disk' \in [Paths -> 0 .. MaxSaves]
      /\ saves' \in 0 .. MaxSaves /\ Stored(docs') = 1 .. n
      /\ \A k \in 1 .. n : 0 + k \in Ids /\ docs'[0 + k].path = Raw(names[k])
      /\ OriginalIsServed' /\ DocsOK' /\ ReplacingOK'
  BY <1>1, <1>2, <1>3, <1>4, BatchStored DEF n
<1>6. /\ row' \in RowSet /\ row' # NoRow /\ row'.status = "uploaded" /\ row'.total = n
      /\ row'.completed + row'.failed <= row'.total
  BY <1>1, <1>2, <1>4 DEF NewCase, RowSet, NoRow, CaseStatuses
<1>7. CASE /\ meta' = [status |-> "uploaded", total |-> n]
           /\ files' = NewEntries(names, 0) /\ lost' = lost
  <2>1. /\ files' \in Seq(Entries) /\ Listed(files') = 1 .. n
        /\ EntriesOf(files') = {[id |-> 0 + k, path |-> Raw(names[k])] : k \in 1 .. n}
    BY <1>1, <1>2, <1>4, <1>7, NewEntriesListed DEF n
  <2>2. Agrees(files', docs', reverted')
    <3>1. \A k \in 1 .. n : 0 + k = k
      BY <1>1
    <3>2. EntriesOf(files') = Records(docs')
      BY <1>5, <2>1, <3>1 DEF Records
    <3> QED BY <3>2, RecordsAgree
  <2>3. meta' \in MetaSet /\ meta' # NoMeta /\ meta'.status = "uploaded" /\ meta'.total <= MaxDocs
    BY <1>1, <1>2, <1>4, <1>7 DEF MetaSet, NoMeta, CaseStatuses
  <2>4. TypeOK'
    BY <1>2, <1>5, <1>6, <1>7, <2>1, <2>3 DEF StoreInv, TypeOK, RowSet, MetaSet, DocSet
  <2>5. ListOK' /\ TotalOK' /\ SavingOK'
    BY <1>3, <1>5, <2>1, <2>3 DEF ListOK, TotalOK, SavingOK
  <2>6. PhaseOK' /\ LockOK'
    BY <1>2, <1>3, <1>6 DEF PhaseOK, LockOK
  <2>7. AgreeOK' /\ CompleteOK' /\ CacheOK'
    BY <1>2, <1>3, <1>5, <1>6, <2>2, <2>3 DEF AgreeOK, CompleteOK, CacheOK
  <2> QED BY <1>5, <2>4, <2>5, <2>6, <2>7 DEF StoreInv
<1>8. CASE Lose /\ meta' = meta /\ files' = files
  <2>1. lost' \in 0 .. MaxLost /\ lost' # 0
    BY <1>4, <1>8 DEF Lose
  <2>2. meta'.total = 0
    BY <1>3, <1>8 DEF NoMeta
  <2>3. TypeOK'
    BY <1>2, <1>5, <1>6, <1>8, <2>1 DEF StoreInv, TypeOK, RowSet, MetaSet, DocSet
  <2>4. ListOK' /\ TotalOK' /\ SavingOK'
    BY <1>3, <1>4, <1>8, <2>2 DEF ListOK, TotalOK, SavingOK
  <2>5. PhaseOK' /\ LockOK'
    BY <1>2, <1>3, <1>6 DEF PhaseOK, LockOK
  <2>6. AgreeOK' /\ CompleteOK' /\ CacheOK'
    BY <1>2, <1>3, <1>6, <2>1 DEF AgreeOK, CompleteOK, CacheOK
  <2> QED BY <1>5, <2>3, <2>4, <2>5, <2>6 DEF StoreInv
<1> QED BY <1>2, <1>7, <1>8

LEMMA UploadAcceptedKeeps ==
    ASSUME StoreInv, NEW names \in Batches, UploadAccepted(names)
    PROVE  StoreInv'
<1> DEFINE start == Max({0} \cup Known)
<1>1. names \in Seq(Names) /\ Len(names) \in Nat /\ Len(names) >= 1
  BY BatchType
<1>2. /\ phase = "open" /\ ~lock /\ Meta(row).status # "processing"
      /\ start + Len(names) <= MaxDocs /\ saves + Len(names) <= MaxSaves
      /\ meta' = Meta(row) /\ files' = Files(docs) /\ lock' = TRUE
      /\ saving' = [start |-> start, names |-> names]
      /\ UNCHANGED <<phase, row, docs, disk, replacing, chord, held, reverted, fin, outcome, saves,
                     lost, rejected, evicted>>
  BY DEF UploadAccepted, Gate, Known, recordVars, taskVars, chainVars, requestVars, counters
<1>3. /\ row \in RowSet /\ docs \in [Ids -> DocSet] /\ meta \in MetaSet /\ MaxDocs \in Nat
      /\ row.status # "absent" /\ fin = "none" /\ chord = {}
  BY <1>2, Types, Bounds DEF StoreInv, PhaseOK, LockOK
<1>4. Known \in SUBSET Ids /\ (lost = 0 => Known = Stored(docs))
  BY <1>2, KnownFiles DEF StoreInv
<1>5. start \in {0} \cup Known /\ \A i \in {0} \cup Known : i <= start
  <2>1. {0} \cup Known \in SUBSET (0 .. MaxDocs) /\ {0} \cup Known # {}
    BY <1>3, <1>4, Bounds
  <2> QED BY <1>3, <2>1, Largest
<1> HIDE DEF start
<1>6. start \in 0 .. MaxDocs /\ start \in Nat
  BY <1>3, <1>4, <1>5, Bounds
<1>7. lost = 0 => start = row.total
  <2>1. row.total \in Nat
    BY <1>3, Bounds DEF RowSet
  <2>2. lost = 0 => Known = 1 .. row.total
    BY <1>2, <1>4 DEF StoreInv, AgreeOK
  <2> QED BY <1>5, <1>6, <2>1, <2>2
<1>8. /\ saving'.start = start /\ saving'.names = names /\ Saving'
      /\ saving' \in [start : 0 .. MaxDocs, names : Seq(Names)]
  BY <1>1, <1>2, <1>6 DEF Saving, NoSave
<1>9. /\ files' \in Seq(Entries) /\ Known' = Known /\ Stored(docs') = Stored(docs)
      /\ Listed(files') \subseteq Stored(docs')
      /\ lost = 0 => Agrees(files', docs', reverted)
  BY <1>2, <1>3, FilesFilled
<1>10. /\ Meta(row) \in MetaSet /\ Meta(row) # NoMeta /\ (meta # NoMeta => Meta(row) = meta)
       /\ Meta(row).total = meta.total \/ Meta(row).total <= MaxDocs
  BY <1>3, MetaRead
<1>11. meta'.total <= MaxDocs \/ \E i \in Known : meta'.total <= MaxDocs + i
  BY <1>2, <1>10 DEF StoreInv, TotalOK
<1>12. meta'.total <= MaxDocs + start
  <2>1. meta'.total \in Nat
    BY <1>2, <1>10, Bounds DEF MetaSet
  <2>2. \A i \in Known : i \in Nat /\ i <= start
    BY <1>4, <1>5, Bounds
  <2> QED BY <1>3, <1>6, <1>11, <2>1, <2>2
<1>13. TypeOK'
  BY <1>2, <1>8, <1>9, <1>10 DEF StoreInv, TypeOK, MetaSet
<1>14. DocsOK' /\ OriginalIsServed' /\ ReplacingOK'
  BY <1>2 DEF StoreInv, DocsOK, OriginalIsServed, ReplacingOK, Served, Stored
<1>15. ListOK' /\ TotalOK'
  BY <1>9, <1>11 DEF ListOK, TotalOK
<1>16. SavingOK'
  BY <1>1, <1>2, <1>8, <1>12 DEF SavingOK
<1>17. PhaseOK' /\ LockOK'
  BY <1>2, <1>3, <1>8 DEF StoreInv, PhaseOK, LockOK
<1>18. AgreeOK'
  BY <1>2, <1>7, <1>8, <1>9 DEF StoreInv, AgreeOK
<1>19. CompleteOK' /\ CacheOK'
  BY <1>2, <1>3, <1>10 DEF StoreInv, CompleteOK, CacheOK, NoneRefused
<1> QED BY <1>13, <1>14, <1>15, <1>16, <1>17, <1>18, <1>19 DEF StoreInv

LEMMA UploadRejectedKeeps == StoreInv /\ UploadRejected => StoreInv'
<1> SUFFICES ASSUME StoreInv, UploadRejected PROVE StoreInv'
  OBVIOUS
<1>1. PICK k \in 0 .. Len(saving.names) - 1 :
          disk' = Written(SubSeq(saving.names, 1, k)) /\ saves' = saves + k
  BY DEF UploadRejected
<1>2. /\ Saving /\ rejected < MaxRejected /\ rejected' = rejected + 1 /\ saving' = NoSave /\ ~Saving'
      /\ UNCHANGED <<phase, row, docs, meta, files, lock, replacing, chord, held, reverted, fin, outcome,
                     lost, evicted>>
  BY DEF UploadRejected, Saving, recordVars, cacheVars, taskVars, chainVars
<1>3. PICK names \in Seq(Names) : names = SubSeq(saving.names, 1, k)
  <2>1. saving.names \in Seq(Names) /\ k \in 0 .. Len(saving.names) - 1 /\ Len(saving.names) \in Nat
    BY <1>1, Types DEF StoreInv
  <2>2. PICK all \in Seq(Names) : all = saving.names
    BY <2>1
  <2>3. SubSeq(all, 1, k) \in Seq(Names)
    BY <2>1, <2>2
  <2> QED BY <2>2, <2>3
<1>4. Len(names) = k /\ k \in Nat /\ saves + k <= MaxSaves
  <2>1. /\ saving.names \in Seq(Names) /\ k \in 0 .. Len(saving.names) - 1
        /\ Len(saving.names) \in Nat /\ saves \in Nat /\ MaxSaves \in Nat
        /\ saves + Len(saving.names) <= MaxSaves
    BY <1>1, <1>2, Types, Bounds DEF StoreInv, SavingOK
  <2>2. Len(SubSeq(saving.names, 1, k)) = k
    BY <2>1
  <2> QED BY <1>3, <2>1, <2>2
<1>5. /\ disk \in [Paths -> 0 .. MaxSaves] /\ saves \in Nat /\ MaxSaves \in Nat
      /\ docs \in [Ids -> DocSet] /\ rejected \in Nat /\ MaxRejected \in Nat
  BY Types, Bounds DEF StoreInv
<1>6. /\ disk' \in [Paths -> 0 .. MaxSaves]
      /\ \A p \in Paths : disk[p] <= disk'[p] /\ disk'[p] <= saves + k
      /\ \A p \in Paths : p[1] # 0 => disk'[p] = disk[p]
  BY <1>1, <1>3, <1>4, <1>5, WrittenDisk DEF StoreInv, DocsOK
<1>7. /\ NoSave \in [start : 0 .. MaxDocs, names : Seq(Names)]
      /\ saves' \in 0 .. MaxSaves /\ rejected' \in 0 .. MaxRejected /\ rejected' > 0
  BY <1>1, <1>2, <1>4, <1>5, Bounds DEF NoSave
<1>8. TypeOK'
  BY <1>2, <1>6, <1>7 DEF StoreInv, TypeOK
<1>9. DocsOK'
  BY <1>1, <1>2, <1>6 DEF StoreInv, DocsOK, Stored
<1>10. OriginalIsServed' /\ ReplacingOK'
  <2>1. ASSUME phase = "open", NEW i \in Stored(docs), i \notin reverted
        PROVE  /\ disk'[docs[i].path] >= docs[i].content
               /\ docs[i].path[1] = i /\ replacing.path[1] # i => disk'[docs[i].path] = docs[i].content
    <3>1. /\ i \in Ids /\ docs[i].path \in Paths /\ docs[i].content \in Int /\ i # 0
          /\ disk[docs[i].path] >= docs[i].content
          /\ docs[i].path[1] = i /\ replacing.path[1] # i => disk[docs[i].path] = docs[i].content
      BY <1>5, <2>1, Bounds DEF StoreInv, OriginalIsServed, Served, Stored, DocSet
    <3>2. disk[docs[i].path] \in Int /\ disk'[docs[i].path] \in Int
      BY <1>5, <1>6, <3>1
    <3> QED BY <1>6, <3>1, <3>2
  <2>2. replacing.content # 0 => replacing.path \in Paths /\ replacing.path[1] # 0
    BY PathNames DEF StoreInv, ReplacingOK
  <2>3. ReplacingOK'
    BY <1>2, <1>6, <2>2 DEF StoreInv, ReplacingOK
  <2> QED BY <1>2, <2>1, <2>3 DEF OriginalIsServed, Served, Stored
<1>11. ListOK' /\ TotalOK' /\ SavingOK'
  BY <1>2 DEF StoreInv, ListOK, TotalOK, SavingOK, Known, Files, Stored, FilesOf
<1>12. PhaseOK' /\ LockOK'
  BY <1>2, <1>7 DEF StoreInv, PhaseOK, LockOK, Stored
<1>13. AgreeOK'
  BY <1>2 DEF StoreInv, AgreeOK, Stored
<1>14. CompleteOK' /\ CacheOK'
  BY <1>2 DEF StoreInv, CompleteOK, CacheOK, NoneRefused
<1> QED BY <1>8, <1>9, <1>10, <1>11, <1>12, <1>13, <1>14 DEF StoreInv
LEMMA ReplaceAcceptedKeeps ==
    ASSUME StoreInv, NEW d \in Ids, NEW n \in Names, ReplaceAccepted(d, n)
    PROVE  StoreInv'
<1>1. /\ phase = "open" /\ replacing = NoReplace /\ replacing' = [path |-> <<d, n>>, content |-> 0]
      /\ meta' = Meta(row)
      /\ files' = files \/ files' = Files(docs)
      /\ UNCHANGED <<phase, row, docs, disk, lock, saving, chord, held, reverted, fin, outcome,
                     saves, lost, rejected, evicted>>
  BY DEF ReplaceAccepted, recordVars, taskVars, chainVars, counters
<1>2. row \in RowSet /\ docs \in [Ids -> DocSet] /\ meta \in MetaSet /\ row.status # "absent"
  BY <1>1, Types DEF StoreInv, PhaseOK
<1>3. /\ files' \in Seq(Entries) \cup {NoFiles} /\ Known' = Known /\ ListOK'
      /\ Stored(docs') = Stored(docs)
      /\ lost = 0 /\ files' # NoFiles => Agrees(files', docs', reverted')
  <2>1. CASE files' = files
    BY <1>1, <2>1, Types DEF StoreInv, ListOK, AgreeOK, Known, Files, FilesOf, Stored
  <2>2. CASE files' = Files(docs)
    <3>1. /\ files' \in Seq(Entries) /\ Known' = Known /\ Stored(docs') = Stored(docs)
          /\ Listed(files') \subseteq Stored(docs')
          /\ lost = 0 => Agrees(files', docs', reverted)
      BY <1>1, <1>2, <2>2, FilesFilled
    <3> QED BY <1>1, <3>1 DEF ListOK
  <2> QED BY <1>1, <2>1, <2>2
<1>4. /\ Meta(row) \in MetaSet /\ Meta(row) # NoMeta /\ (meta # NoMeta => Meta(row) = meta)
      /\ Meta(row).total = meta.total \/ Meta(row).total <= MaxDocs
  BY <1>2, MetaRead
<1>5. replacing' \in [path : {NoPath} \cup Ids \X Names, content : 0 .. MaxSaves]
  BY <1>1, Bounds
<1>6. TypeOK'
  BY <1>1, <1>3, <1>4, <1>5 DEF StoreInv, TypeOK, MetaSet
<1>7. DocsOK' /\ ReplacingOK'
  BY <1>1, <1>3 DEF StoreInv, DocsOK, ReplacingOK
<1>8. OriginalIsServed'
  <2>1. replacing.path[1] = 0 /\ \A i \in Ids : i # 0
    BY <1>1, PathNames, Bounds DEF NoReplace
  <2>2. Stored(docs)' = Stored(docs) /\ Stored(docs) \subseteq Ids
    BY <1>1 DEF Stored
  <2>3. ASSUME phase = "open", NEW i \in Stored(docs) \ reverted
        PROVE  disk[docs[i].path] >= docs[i].content
               /\ (docs[i].path[1] = i => disk[docs[i].path] = docs[i].content)
    BY <2>1, <2>2, <2>3 DEF StoreInv, OriginalIsServed, Served
  <2> QED BY <1>1, <2>2, <2>3 DEF OriginalIsServed, Served
<1>9. TotalOK'
  BY <1>1, <1>3, <1>4 DEF StoreInv, TotalOK
<1>10. SavingOK'
  BY <1>1, <1>4, SavingKept DEF StoreInv, SavingOK
<1>11. PhaseOK' /\ LockOK'
  BY <1>1 DEF StoreInv, PhaseOK, LockOK, Saving
<1>12. AgreeOK'
  BY <1>1, <1>3 DEF StoreInv, AgreeOK, Saving
<1>13. CompleteOK' /\ CacheOK'
  BY <1>1, <1>4 DEF StoreInv, CompleteOK, CacheOK, NoneRefused
<1> QED BY <1>3, <1>6, <1>7, <1>8, <1>9, <1>10, <1>11, <1>12, <1>13 DEF StoreInv

LEMMA ReplaceSavedKeeps == StoreInv /\ ReplaceSaved => StoreInv'
<1> SUFFICES ASSUME StoreInv, ReplaceSaved PROVE StoreInv'
  OBVIOUS
<1> DEFINE q == replacing.path
<1>1. /\ phase = "open" /\ saves + Len(saving.names) < MaxSaves /\ replacing # NoReplace
      /\ replacing.content = 0 /\ saves' = saves + 1 /\ disk' = [disk EXCEPT ![q] = saves + 1]
      /\ replacing' = [replacing EXCEPT !.content = saves + 1]
      /\ UNCHANGED <<phase, row, docs, meta, files, lock, saving, chord, held, reverted, fin, outcome,
                     lost, rejected, evicted>>
  BY DEF ReplaceSaved, recordVars, cacheVars, taskVars, chainVars
<1>2. /\ docs \in [Ids -> DocSet] /\ saves \in Nat /\ MaxSaves \in Nat /\ Len(saving.names) \in Nat
      /\ disk \in [Paths -> 0 .. MaxSaves]
      /\ replacing \in [path : {NoPath} \cup Ids \X Names, content : 0 .. MaxSaves]
  BY Types, Bounds DEF StoreInv, TypeOK
<1>3. q \in Ids \X Names /\ q \in Paths /\ q[1] # 0
  <2>1. q # NoPath
    BY <1>1, <1>2 DEF NoReplace
  <2> QED BY <1>2, <2>1, PathNames
<1> HIDE DEF q
<1>4. saves' \in 0 .. MaxSaves /\ saves + 1 \in 0 .. MaxSaves /\ saves + 1 # 0
  BY <1>1, <1>2
<1>5. /\ replacing' \in [path : {NoPath} \cup Ids \X Names, content : 0 .. MaxSaves]
      /\ replacing'.path = q /\ replacing'.content = saves + 1
  BY <1>1, <1>2, <1>4 DEF q
<1>6. disk' \in [Paths -> 0 .. MaxSaves] /\ disk'[q] = saves + 1
      /\ \A p \in Paths \ {q} : disk'[p] = disk[p]
  BY <1>1, <1>2, <1>3, <1>4
<1>7. \A p \in Paths : disk[p] <= saves /\ disk[p] \in Int
  BY <1>2 DEF StoreInv, DocsOK
<1>8. \A p \in Paths : disk'[p] <= saves' /\ disk[p] <= disk'[p] /\ disk'[p] \in Int
  BY <1>1, <1>2, <1>6, <1>7
<1>9. Stored(docs)' = Stored(docs) /\ Stored(docs) \subseteq Ids /\ Known' = Known
  BY <1>1 DEF Stored, Known, Files, FilesOf
<1>10. TypeOK'
  BY <1>1, <1>4, <1>5, <1>6 DEF StoreInv, TypeOK
<1>11. DocsOK'
  BY <1>1, <1>8, <1>9 DEF StoreInv, DocsOK
<1>12. ReplacingOK'
  BY <1>3, <1>5, <1>6 DEF ReplacingOK
<1>13. OriginalIsServed'
  <2>1. ASSUME NEW i \in Stored(docs) \ reverted
        PROVE  /\ disk'[docs[i].path] >= docs[i].content
               /\ docs[i].path[1] = i /\ q[1] # i => disk'[docs[i].path] = docs[i].content
    <3>1. /\ docs[i].path \in Paths /\ docs[i].content \in Int
          /\ disk[docs[i].path] >= docs[i].content
          /\ docs[i].path[1] = i /\ q[1] # i => disk[docs[i].path] = docs[i].content
      BY <1>1, <1>2, <1>9, <2>1 DEF StoreInv, OriginalIsServed, Served, DocSet, q
    <3>2. docs[i].path[1] = i /\ q[1] # i => docs[i].path # q
      OBVIOUS
    <3> QED BY <1>6, <1>7, <1>8, <3>1, <3>2
  <2> QED BY <1>1, <1>5, <1>9, <2>1 DEF OriginalIsServed, Served
<1>14. ListOK' /\ TotalOK'
  BY <1>1, <1>9 DEF StoreInv, ListOK, TotalOK
<1>15. SavingOK'
  <2>1. saves' + Len(saving.names) <= MaxSaves
    <3> DEFINE n == Len(saving.names)
    <3>1. saves' = saves + 1 /\ saves + n < MaxSaves
      BY <1>1
    <3>2. saves \in Nat /\ n \in Nat /\ MaxSaves \in Nat
      BY <1>2
    <3> SUFFICES saves' + n <= MaxSaves
      OBVIOUS
    <3> HIDE DEF n
    <3> QED BY <3>1, <3>2
  <2>2. meta' \in MetaSet
    BY <1>1, Types DEF StoreInv
  <2> QED BY <1>1, <2>1, <2>2, SavingKept DEF StoreInv
<1>16. PhaseOK' /\ LockOK'
  BY <1>1, <1>9 DEF StoreInv, PhaseOK, LockOK, Saving
<1>17. AgreeOK'
  BY <1>1, <1>9 DEF StoreInv, AgreeOK, Saving
<1>18. CompleteOK' /\ CacheOK'
  BY <1>1 DEF StoreInv, CompleteOK, CacheOK, NoneRefused
<1> QED BY <1>10, <1>11, <1>12, <1>13, <1>14, <1>15, <1>16, <1>17, <1>18 DEF StoreInv

LEMMA ReplaceStoredKeeps == StoreInv /\ ReplaceStored => StoreInv'
<1> SUFFICES ASSUME StoreInv, ReplaceStored PROVE StoreInv'
  OBVIOUS
<1> DEFINE d == replacing.path[1]
           q == replacing.path
           new == [status |-> "failed", path |-> q, content |-> replacing.content]
<1>1. /\ replacing.content # 0 /\ replacing' = NoReplace /\ docs' = ReplacedDoc(d)
      /\ reverted' = reverted \ {d}
      /\ \/ files' = Relisted(Files(docs'), d) /\ lost' = lost
         \/ files' \in {files, Files(docs')} /\ Lose
      /\ UNCHANGED <<phase, row, disk, meta, lock, saving, chord, held, fin, outcome,
                     saves, rejected, evicted>>
  BY DEF ReplaceStored, taskVars, chainVars
<1>2. /\ docs \in [Ids -> DocSet] /\ disk \in [Paths -> 0 .. MaxSaves]
      /\ files \in Seq(Entries) \cup {NoFiles} /\ lost \in 0 .. MaxLost /\ MaxLost \in Nat
      /\ replacing.content \in 0 .. MaxSaves
  BY Types, Bounds DEF StoreInv
<1>3. /\ q \in Ids \X Names /\ q \in Paths /\ d \in Ids /\ d # 0
      /\ phase = "open" => disk[q] = replacing.content
  <2>1. replacing.path \in Ids \X Names /\ (phase = "open" => disk[replacing.path] = replacing.content)
    BY <1>1 DEF StoreInv, ReplacingOK
  <2> QED BY <2>1, PathNames
<1>4. docs' = IF docs[d] = NoDoc THEN docs ELSE [docs EXCEPT ![d] = new]
  BY <1>1 DEF ReplacedDoc
<1>5. new \in DocSet /\ new # NoDoc /\ new.path = q /\ new.content = replacing.content
      /\ new.status = "failed"
  BY <1>2, <1>3 DEF DocSet, DocStatuses, NoDoc
<1> HIDE DEF new, q, d
<1>6. PICK ds \in [Ids -> DocSet] : ds = docs'
  BY <1>2, <1>3, <1>4, <1>5
<1>7. /\ \A i \in Ids \ {d} : ds[i] = docs[i]
      /\ docs[d] = NoDoc => ds[d] = NoDoc
      /\ docs[d] # NoDoc => ds[d] = new
  BY <1>2, <1>3, <1>4, <1>6
<1>8. Stored(ds) = Stored(docs) /\ Stored(docs)' = Stored(ds) /\ Stored(docs) \subseteq Ids
  BY <1>5, <1>6, <1>7 DEF Stored
<1>9. NoneRefused => NoneRefused'
  BY <1>5, <1>6, <1>7 DEF NoneRefused
<1>10. DocsOK'
  <2>1. \A i \in Stored(ds) : ds[i].status # "absent" /\ ds[i].path[1] \in {0, i}
    <3>1. new.status # "absent" /\ new.path[1] = d
      BY <1>5 DEF d, q
    <3> QED BY <1>7, <1>8, <3>1 DEF StoreInv, DocsOK, Stored
  <2>2. \A e \in held : e.path[1] \in {0, e.id}
    BY DEF StoreInv, DocsOK
  <2>3. \A p \in Paths : disk[p] <= saves
    BY DEF StoreInv, DocsOK
  <2> QED BY <1>1, <1>6, <1>8, <2>1, <2>2, <2>3 DEF DocsOK
<1>11. OriginalIsServed' /\ ReplacingOK'
  <2>1. ASSUME phase = "open", NEW i \in Stored(ds) \ reverted'
        PROVE  /\ disk[ds[i].path] >= ds[i].content
               /\ ds[i].path[1] = i => disk[ds[i].path] = ds[i].content
    <3>1. CASE i = d
      <4>1. ds[i] = new
        BY <1>7, <2>1, <3>1 DEF Stored
      <4>2. disk[q] = replacing.content /\ replacing.content \in Int
        BY <1>2, <1>3, <2>1
      <4> QED BY <1>5, <4>1, <4>2
    <3>2. CASE i # d
      <4>1. i \in Stored(docs) \ reverted /\ ds[i] = docs[i]
        BY <1>1, <1>7, <1>8, <2>1, <3>2
      <4> QED BY <2>1, <3>2, <4>1 DEF StoreInv, OriginalIsServed, Served, d
    <3> QED BY <3>1, <3>2
  <2>2. ReplacingOK'
    BY <1>1 DEF ReplacingOK, NoReplace
  <2> QED BY <1>1, <1>6, <1>8, <2>1, <2>2 DEF OriginalIsServed, Served
<1>12. /\ Files(ds) \in Seq(Entries)
       /\ files = NoFiles => /\ EntriesOf(Files(ds)) = Records(ds)
                             /\ Listed(Files(ds)) = Stored(ds) /\ Known = Stored(docs)
       /\ files # NoFiles => Files(ds) = files /\ Known = Listed(files)
       /\ Known \subseteq Stored(docs)
  <2>1. files = NoFiles => Known = Stored(docs)
    BY <1>2, FilesType DEF Known
  <2>2. Known \subseteq Stored(docs)
    BY KnownFiles DEF StoreInv
  <2> QED BY <1>2, <2>1, <2>2, FilesType DEF Files, Known
<1>13. /\ files' \in Seq(Entries) \cup {NoFiles} /\ Known' = Known
       /\ files' # NoFiles => Listed(files') \subseteq Stored(ds)
       /\ lost' \in 0 .. MaxLost
       /\ lost' = 0 => lost = 0 /\ (phase = "open" => Agrees(files', ds, reverted'))
  <2>1. CASE files' = Relisted(Files(ds), d) /\ lost' = lost
    <3> DEFINE relist(e) == IF e.id = d THEN [e EXCEPT !.path = q] ELSE e
    <3>1. /\ files' \in Seq(Entries) /\ Listed(files') = Listed(Files(ds))
          /\ EntriesOf(files') = {relist(e) : e \in EntriesOf(Files(ds))}
      <4>1. replacing.path \in Paths
        BY <1>3 DEF q
      <4> QED BY <1>3, <1>12, <2>1, <4>1, RelistedListed DEF q
    <3>2. Known' = Known /\ Listed(files') \subseteq Stored(ds)
      <4>1. Known' = Listed(files')
        BY <3>1, KnownWritten
      <4> QED BY <1>8, <1>12, <3>1, <4>1
    <3>3. ASSUME lost = 0, phase = "open" PROVE Agrees(files', ds, reverted')
      <4>1. Listed(Files(ds)) = Stored(ds) /\ \A e \in EntriesOf(Files(ds)) :
              e.id = d \/ e.id \in reverted' \/ e.path = ds[e.id].path
        <5>1. CASE files = NoFiles
          <6>1. Agrees(Files(ds), ds, reverted')
            BY <1>12, <5>1, RecordsAgree
          <6> QED BY <6>1 DEF Agrees
        <5>2. CASE files # NoFiles
          <6>1. Files(ds) = files /\ Agrees(files, docs, reverted)
            BY <1>12, <3>3, <5>2 DEF StoreInv, AgreeOK
          <6>2. ASSUME NEW e \in EntriesOf(files), e.id # d, e.id \notin reverted'
                PROVE  e.path = ds[e.id].path
            <7>1. e.id \in Stored(docs) /\ e.id \notin reverted
              BY <1>1, <6>1, <6>2 DEF Agrees, EntriesOf, Listed
            <7> QED BY <1>7, <1>8, <6>1, <6>2, <7>1 DEF Agrees
          <6> QED BY <1>8, <6>1, <6>2 DEF Agrees
        <5> QED BY <5>1, <5>2
      <4>2. ASSUME NEW e \in EntriesOf(Files(ds))
            PROVE  LET f == relist(e) IN f.id \in reverted' \/ f.path = ds[f.id].path
        <5>1. e \in Entries /\ e.id \in Stored(ds)
          <6>1. \A k \in DOMAIN Files(ds) : Files(ds)[k] \in Entries
            BY <1>12
          <6> QED BY <4>1, <6>1 DEF EntriesOf, Listed
        <5>2. CASE e.id = d
          <6>1. relist(e).id = d /\ relist(e).path = q
            BY <5>1, <5>2 DEF Entries
          <6>2. ds[d].path = q
            BY <1>5, <1>7, <5>1, <5>2 DEF Stored
          <6> HIDE DEF relist
          <6> QED BY <6>1, <6>2
        <5>3. CASE e.id # d
          <6>1. relist(e) = e
            BY <5>3
          <6> HIDE DEF relist
          <6> QED BY <4>1, <5>3, <6>1
        <5> QED BY <5>2, <5>3
      <4> HIDE DEF relist
      <4> QED BY <3>1, <4>1, <4>2 DEF Agrees
    <3> QED BY <1>2, <2>1, <3>1, <3>2, <3>3
  <2>2. CASE files' \in {files, Files(ds)} /\ Lose
    <3>1. lost' \in 0 .. MaxLost /\ lost' # 0
      BY <1>2, <2>2 DEF Lose
    <3>2. CASE files' = Files(ds)
      <4>1. Known' = Listed(files') /\ files' \in Seq(Entries)
        BY <1>12, <3>2, KnownWritten
      <4> QED BY <1>8, <1>12, <3>1, <3>2, <4>1
    <3>3. CASE files' = files
      <4>1. Known' = Known
        BY <1>2, <1>6, <1>8, <3>3, KnownKept
      <4> QED BY <1>2, <1>8, <1>12, <3>1, <3>3, <4>1
    <3> QED BY <2>2, <3>2, <3>3
  <2> QED BY <1>1, <1>6, <2>1, <2>2
<1>14. TypeOK'
  <2>1. replacing' \in [path : {NoPath} \cup Ids \X Names, content : 0 .. MaxSaves]
    BY <1>1, Bounds DEF NoReplace
  <2> QED BY <1>1, <1>6, <1>13, <2>1 DEF StoreInv, TypeOK, DocSet
<1>15. ListOK' /\ TotalOK'
  BY <1>1, <1>8, <1>13 DEF StoreInv, ListOK, TotalOK
<1>16. SavingOK'
  BY <1>1 DEF StoreInv, SavingOK, Saving
<1>17. PhaseOK'
  BY <1>1, <1>8 DEF StoreInv, PhaseOK, Saving, NoReplace
<1>18. LockOK'
  BY <1>1 DEF StoreInv, LockOK, Saving
<1>19. AgreeOK'
  BY <1>1, <1>6, <1>8, <1>13 DEF StoreInv, AgreeOK, Saving
<1>20. CompleteOK' /\ CacheOK'
  BY <1>1, <1>9, <1>13 DEF StoreInv, CompleteOK, CacheOK
<1> QED BY <1>10, <1>11, <1>14, <1>15, <1>16, <1>17, <1>18, <1>19, <1>20 DEF StoreInv

LEMMA UploadStoredKeeps ==
    ASSUME StoreInv, NEW kept \in BOOLEAN, NEW marked \in BOOLEAN, UploadStored(kept, marked)
    PROVE  StoreInv'
<1> DEFINE n == Len(saving.names)
           start == saving.start
           reset == IF row = NoRow THEN NoRow ELSE Reset(row, start + n)
           ds == Inserted(saving.names, start)
           known == kept /\ Meta(reset) # NoMeta
           m == IF known THEN Extended(Meta(reset), n) ELSE meta
           fs == IF known THEN Appended(Files(ds), saving.names, start) ELSE Files(ds)
           losses == (IF kept THEN 0 ELSE 1) + (IF marked THEN 0 ELSE 1)
           New == start + 1 .. start + n
<1>1. /\ Saving /\ saving' = NoSave /\ ~Saving' /\ disk' = Written(saving.names)
      /\ saves' = saves + n /\ lost + losses <= MaxLost /\ lost' = lost + losses
      /\ docs' = ds /\ files' = fs /\ held' = held
      /\ reverted' = reverted \ Listed(NewEntries(saving.names, start))
      /\ UNCHANGED <<phase, replacing, rejected, evicted>>
  BY DEF UploadStored, Saving, Launch, taskVars, chainVars
<1>2. \/ /\ row' = IF row = NoRow THEN NoRow ELSE [reset EXCEPT !.status = "processing"]
         /\ meta' = IF marked THEN Marked(m, "processing") ELSE m
         /\ chord' = {i \in Listed(fs) : ds[i].status \notin Resolved}
         /\ fin' = "chord" /\ outcome' = outcome /\ lock' = lock
      \/ /\ row' = IF row = NoRow THEN NoRow ELSE [reset EXCEPT !.status = "failed"]
         /\ meta' = Marked(m, IF marked THEN "failed" ELSE "processing")
         /\ lock' = FALSE /\ chord' = chord /\ fin' = fin /\ outcome' = outcome
  BY DEF UploadStored, Launch, taskVars, chainVars
<1>3. /\ row \in RowSet /\ docs \in [Ids -> DocSet] /\ meta \in MetaSet
      /\ files \in Seq(Entries) \cup {NoFiles} /\ saving.names \in Seq(Names)
      /\ start \in Nat /\ n \in Nat /\ saves \in Nat /\ MaxDocs \in Nat
      /\ lost \in Nat /\ MaxLost \in Nat
  BY Types, Bounds DEF StoreInv
<1>4. /\ n >= 1 /\ start + n <= MaxDocs /\ saves + n <= MaxSaves
      /\ meta.total <= MaxDocs + start
  BY <1>1 DEF StoreInv, SavingOK
<1>5. /\ phase # "new"
      /\ phase = "open" => lock /\ fin = "none" /\ chord = {} /\ row # NoRow
      /\ phase # "open" => row = NoRow
  BY <1>1 DEF StoreInv, PhaseOK, LockOK
<1>6. PICK names \in Seq(Names), first \in Nat : names = saving.names /\ first = start
  BY <1>3
<1>0. /\ NewEntries(saving.names, start) \in Seq(Entries)
      /\ EntriesOf(NewEntries(saving.names, start))
           = {[id |-> start + k, path |-> Raw(names[k])] : k \in 1 .. n}
      /\ Listed(NewEntries(saving.names, start)) = New
  BY <1>3, <1>4, <1>6, NewEntriesListed
<1>7. /\ docs' \in [Ids -> DocSet] /\ disk' \in [Paths -> 0 .. MaxSaves]
      /\ saves' \in 0 .. MaxSaves
      /\ Stored(docs') = Stored(docs) \cup New
      /\ \A i \in Ids \ New : docs'[i] = docs[i]
      /\ \A k \in 1 .. n : start + k \in Ids /\ docs'[start + k].path = Raw(names[k])
      /\ OriginalIsServed' /\ DocsOK' /\ ReplacingOK'
  <2>1. reverted \subseteq reverted' \cup (start + 1 .. start + Len(names))
    BY <1>0, <1>1, <1>6
  <2> QED BY <1>1, <1>4, <1>6, <2>1, BatchStored
<1>8. /\ lost' \in 0 .. MaxLost
      /\ lost' = 0 => lost = 0 /\ kept /\ marked
  BY <1>1, <1>3
<1>9. /\ reset \in RowSet /\ (row = NoRow => reset = NoRow)
      /\ row # NoRow => /\ reset.status = "uploaded" /\ reset.total = start + n
                        /\ reset.completed = row.completed /\ reset.failed = row.failed
  <2>1. start + n \in 0 .. MaxDocs
    BY <1>3, <1>4
  <2>2. NoRow \in RowSet
    BY Bounds DEF NoRow, RowSet
  <2> HIDE DEF n, start
  <2> QED BY <1>3, <2>1, <2>2 DEF Reset, RowSet, CaseStatuses
<1> HIDE DEF n, start, reset, ds, New
<1>10. PICK stored \in [Ids -> DocSet] : stored = docs' /\ stored = ds
  BY <1>1, <1>7
<1>11. /\ Meta(reset) \in MetaSet /\ (meta # NoMeta => Meta(reset) = meta)
       /\ meta = NoMeta => Meta(reset).total = reset.total
       /\ reset.status # "absent" => Meta(reset) # NoMeta
  BY <1>3, <1>9, MetaRead
<1>12. Meta(reset).total \in Nat /\ Meta(reset).total <= MaxDocs + start
  <2>1. Meta(reset).total \in Nat
    BY <1>11, <1>3 DEF MetaSet
  <2>2. reset.total \in Nat /\ reset.total <= MaxDocs
    BY <1>9, <1>3 DEF RowSet
  <2> QED BY <1>3, <1>4, <1>11, <2>1, <2>2
<1>13. /\ m \in MetaSet /\ (known => m.total <= MaxDocs + (start + n)) /\ (~known => m = meta)
  <2>1. CASE known
    <3>1. m = [status |-> "uploaded", total |-> Meta(reset).total + n]
      BY <2>1 DEF Extended
    <3> HIDE DEF m, known
    <3>2. Meta(reset).total + n \in 0 .. 2 * MaxDocs /\ Meta(reset).total + n <= MaxDocs + (start + n)
      BY <1>3, <1>4, <1>12
    <3> QED BY <2>1, <3>1, <3>2 DEF MetaSet, CaseStatuses
  <2>2. CASE ~known
    BY <1>3, <2>2
  <2> QED BY <2>1, <2>2
<1>14. /\ Files(ds) \in Seq(Entries)
       /\ files = NoFiles => EntriesOf(Files(ds)) = Records(ds) /\ Listed(Files(ds)) = Stored(ds)
       /\ files # NoFiles => Files(ds) = files
  BY <1>3, <1>10, FilesType
<1>16. /\ Appended(Files(ds), saving.names, start) \in Seq(Entries)
       /\ EntriesOf(Appended(Files(ds), saving.names, start))
            = EntriesOf(Files(ds)) \cup EntriesOf(NewEntries(saving.names, start))
       /\ Listed(Appended(Files(ds), saving.names, start)) = Listed(Files(ds)) \cup New
  <2>1. PICK old \in Seq(Entries) : old = Files(ds)
    BY <1>14
  <2> QED BY <1>3, <1>4, <1>6, <2>1, AppendedListed DEF n, start, New
<1>17. /\ files' \in Seq(Entries)
       /\ known => Listed(files') = Listed(Files(ds)) \cup New
       /\ ~known => Listed(files') = Listed(Files(ds))
  BY <1>1, <1>14, <1>16
<1>18. Listed(Files(ds)) \subseteq Stored(docs') /\ Known \subseteq Listed(Files(ds))
  <2>1. Known \subseteq Stored(docs) /\ (files # NoFiles => Known = Listed(files))
    BY KnownFiles DEF StoreInv, Known, Files
  <2> QED BY <1>7, <1>10, <1>14, <2>1
<1>19. /\ Listed(files') \subseteq Stored(docs') /\ Known' = Listed(files')
       /\ Stored(docs') \subseteq Ids /\ New \subseteq Stored(docs')
  BY <1>7, <1>17, <1>18, KnownWritten DEF Stored
<1>20. chord' \in SUBSET Ids
  <2>1. chord \in SUBSET Ids
    BY DEF StoreInv, TypeOK
  <2> QED BY <1>1, <1>2, <1>19, <2>1
<1>21. /\ row' \in RowSet /\ (row = NoRow => row' = NoRow)
       /\ row # NoRow => /\ row' # NoRow /\ row'.status \in {"processing", "failed"}
                         /\ row'.total = start + n
                         /\ row'.completed = row.completed /\ row'.failed = row.failed
  <2>1. \A s \in CaseStatuses : /\ [reset EXCEPT !.status = s] \in RowSet
                                /\ [reset EXCEPT !.status = s] # NoRow
                                /\ [reset EXCEPT !.status = s].status = s
                                /\ [reset EXCEPT !.status = s].total = reset.total
                                /\ [reset EXCEPT !.status = s].completed = reset.completed
                                /\ [reset EXCEPT !.status = s].failed = reset.failed
    BY <1>9, RowWithStatus
  <2>2. "processing" \in CaseStatuses /\ "failed" \in CaseStatuses
    BY DEF CaseStatuses
  <2>3. row = NoRow => row' = NoRow
    BY <1>2
  <2>4. ASSUME row # NoRow
        PROVE  row' = [reset EXCEPT !.status = "processing"] \/ row' = [reset EXCEPT !.status = "failed"]
    BY <1>2, <2>4
  <2> QED BY <1>3, <1>9, <2>1, <2>2, <2>3, <2>4
<1>22. /\ meta' \in MetaSet /\ meta'.total = m.total
       /\ marked => /\ meta' # NoMeta
                    /\ fin' = "chord" \/ meta'.status = "failed"
  <2>1. "processing" \in CaseStatuses /\ "failed" \in CaseStatuses
    BY DEF CaseStatuses
  <2>2. \A s \in CaseStatuses : /\ Marked(m, s) \in MetaSet /\ Marked(m, s) # NoMeta
                                /\ Marked(m, s).status = s /\ Marked(m, s).total = m.total
    BY <1>13, MetaMarked
  <2> HIDE DEF m
  <2> QED BY <1>2, <1>13, <2>1, <2>2
<1> HIDE DEF m, fs, losses
<1>23. ASSUME phase = "open", lost' = 0
       PROVE  /\ Stored(docs') = 1 .. row'.total /\ Agrees(files', docs', reverted')
              /\ row'.completed + row'.failed <= row'.total
  <2>1. /\ lost = 0 /\ kept /\ row # NoRow /\ known
        /\ Stored(docs) = 1 .. row.total /\ row.completed + row.failed <= row.total
        /\ start = row.total /\ (files # NoFiles => Agrees(files, docs, reverted))
    <3>1. lost = 0 /\ kept /\ row # NoRow
      BY <1>5, <1>8, <1>23
    <3>2. known
      BY <1>9, <1>11, <3>1
    <3> QED BY <1>1, <1>23, <3>1, <3>2 DEF StoreInv, AgreeOK, start
  <2>2. Stored(docs') = 1 .. start + n
    BY <1>3, <1>7, <2>1 DEF New
  <2>3. row'.completed + row'.failed <= start + n
    <3>1. row.completed \in Nat /\ row.failed \in Nat
      BY <1>3 DEF RowSet
    <3> QED BY <1>3, <1>21, <2>1, <3>1
  <2>4. Agrees(files', ds, reverted')
    <3>1. /\ EntriesOf(files') = EntriesOf(Files(ds)) \cup EntriesOf(NewEntries(saving.names, start))
          /\ Listed(files') = Listed(Files(ds)) \cup New
      BY <1>1, <1>16, <2>1 DEF fs
    <3>2. \A i \in Stored(docs) : i \notin New
      BY <1>3, <2>1 DEF New
    <3>3. Stored(ds) = Stored(docs) \cup New /\ Stored(docs) \subseteq Ids
      BY <1>7, <1>10 DEF Stored
    <3>4. \A i \in Stored(docs) : ds[i] = docs[i] /\ (i \in reverted => i \in reverted')
      BY <1>0, <1>1, <1>7, <1>10, <3>2, <3>3
    <3>5. ASSUME NEW e \in EntriesOf(NewEntries(saving.names, start))
          PROVE  e.path = ds[e.id].path
      <4>1. PICK k \in 1 .. n : e = [id |-> start + k, path |-> Raw(names[k])]
        BY <1>0
      <4> QED BY <1>7, <1>10, <4>1
    <3>6. CASE files = NoFiles
      <4>1. Agrees(Files(ds), ds, reverted')
        BY <1>14, <3>6, RecordsAgree
      <4> QED BY <3>1, <3>3, <3>5, <4>1 DEF Agrees
    <3>7. CASE files # NoFiles
      <4>1. Files(ds) = files /\ Agrees(files, docs, reverted)
        BY <1>14, <2>1, <3>7
      <4>2. ASSUME NEW e \in EntriesOf(files)
            PROVE  e.id \in reverted' \/ e.path = ds[e.id].path
        <5>1. e.id \in Stored(docs) /\ (e.id \in reverted \/ e.path = docs[e.id].path)
          BY <4>1 DEF Agrees, EntriesOf, Listed
        <5> QED BY <3>4, <5>1
      <4>3. Listed(files') = Stored(ds)
        BY <3>1, <3>3, <4>1 DEF Agrees
      <4> QED BY <3>1, <3>5, <4>1, <4>2, <4>3 DEF Agrees
    <3> QED BY <3>6, <3>7
  <2> QED BY <1>10, <1>21, <2>1, <2>2, <2>3, <2>4
<1>24. TypeOK'
  <2>1. saving' \in [start : 0 .. MaxDocs, names : Seq(Names)]
    BY <1>1, Bounds DEF NoSave
  <2>2. fin' \in {"none", "chord", "write", "cache", "release"} /\ lock' \in BOOLEAN
        /\ outcome' \in CaseStatuses
    BY <1>2 DEF StoreInv, TypeOK
  <2>3. held' \in SUBSET Entries /\ reverted' \in SUBSET Ids
    BY <1>1 DEF StoreInv, TypeOK
  <2> QED BY <1>1, <1>7, <1>8, <1>17, <1>20, <1>21, <1>22, <2>1, <2>2, <2>3
          DEF StoreInv, TypeOK, RowSet, MetaSet, DocSet
<1>25. TotalOK'
  <2>1. CASE known
    <3>1. start + n \in New
      BY <1>3, <1>4 DEF New
    <3> QED BY <1>13, <1>17, <1>19, <1>22, <2>1, <3>1 DEF TotalOK
  <2>2. CASE ~known
    BY <1>13, <1>17, <1>18, <1>19, <1>22, <2>2 DEF StoreInv, TotalOK
  <2> QED BY <2>1, <2>2
<1>26. ListOK' /\ SavingOK'
  BY <1>1, <1>19 DEF ListOK, SavingOK
<1>27. PhaseOK'
  BY <1>1, <1>5, <1>21 DEF StoreInv, PhaseOK
<1>28. LockOK'
  BY <1>1, <1>2, <1>5 DEF LockOK
<1>29. AgreeOK'
  BY <1>1, <1>23 DEF AgreeOK
<1>30. CompleteOK'
  BY <1>1, <1>2, <1>5, <1>21 DEF CompleteOK
<1>31. CacheOK'
  BY <1>1, <1>2, <1>5, <1>8, <1>22 DEF StoreInv, CacheOK
<1> QED BY <1>7, <1>24, <1>25, <1>26, <1>27, <1>28, <1>29, <1>30, <1>31 DEF StoreInv
LEMMA StutterKeeps == StoreInv /\ UNCHANGED vars => StoreInv'
<1> SUFFICES ASSUME StoreInv, UNCHANGED vars PROVE StoreInv'
  OBVIOUS
<1>1. UNCHANGED <<phase, row, docs, disk, meta, files, lock, saving, replacing, chord, held, reverted, fin, outcome,
                  saves, lost, rejected, evicted>>
  BY DEF vars, recordVars, cacheVars, taskVars, chainVars, requestVars, counters
<1>2. /\ OriginalIsServed' /\ DocsOK' /\ ReplacingOK' /\ ListOK' /\ Known' = Known
      /\ Stored(docs)' = Stored(docs) /\ NoneRefused' = NoneRefused
      /\ Agrees(files, docs, reverted)' = Agrees(files, docs, reverted)
  BY <1>1, DocsKept
<1>3. TypeOK' /\ TotalOK' /\ SavingOK'
  BY <1>1, <1>2 DEF StoreInv, TypeOK, TotalOK, SavingOK, Saving
<1>4. PhaseOK' /\ LockOK' /\ AgreeOK' /\ CompleteOK' /\ CacheOK'
  BY <1>1, <1>2 DEF StoreInv, PhaseOK, LockOK, AgreeOK, CompleteOK, CacheOK, Saving
<1> QED BY <1>2, <1>3, <1>4 DEF StoreInv

LEMMA NextKeeps == StoreInv /\ [Next]_vars => StoreInv'
BY UploadKeeps, UploadAcceptedKeeps, ProcessKeeps, RetryKeeps, WarmKeeps, UploadStoredKeeps,
   UploadRejectedKeeps, ReplaceAcceptedKeeps, ReplaceSavedKeeps, ReplaceStoredKeeps, SkipKeeps,
   PersistReadsKeeps, PersistWritesKeeps, ChainEndsKeeps, FinalizeCountKeeps,
   FinalizeWriteKeeps, FinalizeCacheKeeps, FinalizeReleaseKeeps, DeleteKeeps, EvictKeeps,
   StutterKeeps, Zenon DEF Next

LEMMA Invariant == Spec => []StoreInv
BY InitInv, NextKeeps, PTL DEF Spec

----------------------------------------------------------------------------
\* What the invariant says

\* The progress shown is at most ninety percent while no more documents are counted than
\* the case has.
LEMMA ProgressBelow ==
    ASSUME StoreInv, row.status = "processing", lost = 0
    PROVE  Payload.progress <= 90
<1>1. /\ row.total \in Nat /\ row.completed \in Nat /\ row.failed \in Nat
      /\ row.completed + row.failed <= row.total
  <2>1. row \in RowSet /\ MaxDocs \in Nat
    BY Types, Bounds DEF StoreInv
  <2>2. phase = "open"
    BY DEF StoreInv, PhaseOK, NoRow
  <2> QED BY <2>1, <2>2 DEF StoreInv, AgreeOK, RowSet
<1> DEFINE share == ((row.completed + row.failed) * 90) \div row.total
<1>2. /\ row.total = 0 => Payload.progress = 0
      /\ row.total > 0 => Payload.progress = Min({100, share})
  BY <1>1 DEF Payload
<1>3. ASSUME row.total > 0 PROVE share \in Int /\ share <= 90
  <2> DEFINE a == row.completed + row.failed
             b == row.total
  <2>1. a \in Nat /\ b \in Nat /\ a <= b /\ b > 0
    BY <1>1, <1>3
  <2>2. share = (a * 90) \div b
    OBVIOUS
  <2> HIDE DEF a, b, share
  <2>3. (a * 90) \div b \in Int /\ (a * 90) \div b <= 90
    BY <2>1
  <2> QED BY <2>2, <2>3
<1>4. ASSUME NEW x \in Int, x <= 90 PROVE Min({100, x}) <= 90
  <2>1. x \in {100, x} /\ \A y \in {100, x} : x <= y
    BY <1>4
  <2>2. Min({100, x}) \in {100, x} /\ \A y \in {100, x} : Min({100, x}) <= y
    BY <2>1 DEF Min
  <2>3. Min({100, x}) <= x /\ Min({100, x}) \in Int
    BY <1>4, <2>2
  <2> QED BY <1>4, <2>3
<1> HIDE DEF share
<1>5. CASE row.total = 0
  BY <1>2, <1>5
<1>6. CASE row.total > 0
  <2>1. PICK x \in Int : x = share /\ x <= 90
    BY <1>3, <1>6
  <2> QED BY <1>2, <1>4, <1>6, <2>1
<1> QED BY <1>1, <1>5, <1>6

LEMMA InvAgrees == StoreInv => RecordAgrees
<1> SUFFICES ASSUME StoreInv PROVE RecordAgrees
  OBVIOUS
<1>1. OriginalIsServed
  BY DEF StoreInv
<1>2. TotalCountsDocuments
  <2>1. row.total \in Nat
    BY Types, Bounds DEF StoreInv, RowSet
  <2>2. Cardinality(1 .. row.total) = row.total
    BY <2>1, FS_Interval
  <2> QED BY <2>2 DEF StoreInv, AgreeOK, TotalCountsDocuments
<1>3. CachedFilesAgree
  BY DEF StoreInv, AgreeOK, CachedFilesAgree, Agrees, EntriesOf
<1>4. PageIsConsistent
  <2>1. Payload.status = row.status /\ Payload.needsAction = {i \in Ids : docs[i].status = "cfailed"}
    BY DEF Payload
  <2>2. row.status = "complete" /\ AtRest => {i \in Ids : docs[i].status = "cfailed"} = {}
    BY DEF StoreInv, PhaseOK, CompleteOK, NoneRefused, AtRest, NoRow
  <2> QED BY <2>1, <2>2, ProgressBelow DEF PageIsConsistent
<1> QED BY <1>1, <1>2, <1>3, <1>4 DEF RecordAgrees

LEMMA InvOpen == StoreInv => CaseStaysOpen
<1> SUFFICES ASSUME StoreInv, phase = "open", AtRest, lost = 0, rejected = 0, evicted = 0
             PROVE  Gate
  BY DEF CaseStaysOpen
<1>1. ~lock
  BY DEF StoreInv, LockOK, AtRest, Saving
<1>2. Meta(row).status # "processing"
  BY DEF StoreInv, CacheOK, AtRest, Meta
<1> QED BY <1>1, <1>2 DEF Gate

\* The step that ends an upload, whether its files were stored or refused.
LEMMA UploadEnds ==
    ASSUME StoreInv, Next, saving # NoSave, saving' = NoSave, lost = 0, NEW i \in Stored(docs)
    PROVE  docs'[i] = docs[i]
<1>1. phase # "new" /\ (phase = "open" => lock)
  BY DEF StoreInv, PhaseOK, LockOK, Saving
<1>2. CASE \E kept \in BOOLEAN, marked \in BOOLEAN : UploadStored(kept, marked)
  <2>1. docs' = Inserted(saving.names, saving.start)
    BY <1>2 DEF UploadStored
  <2>2. /\ Len(saving.names) \in Nat /\ saving.start \in Nat
        /\ saving.names \in Seq(Names) /\ MaxDocs \in Nat
    BY Types, Bounds DEF StoreInv
  <2>3. phase = "open" /\ Stored(docs) = 1 .. row.total /\ saving.start = row.total
    BY <1>1 DEF StoreInv, TypeOK, PhaseOK, AgreeOK, Saving
  <2>4. i \in Ids \ (saving.start + 1 .. saving.start + Len(saving.names))
    BY <2>2, <2>3 DEF Stored
  <2>5. /\ docs \in [Ids -> DocSet] /\ saves \in Nat
        /\ saving.start + Len(saving.names) <= MaxDocs
        /\ saves + Len(saving.names) <= MaxSaves
    BY Types DEF StoreInv, SavingOK, Saving
  <2>6. PICK names \in Seq(Names), start \in Nat : names = saving.names /\ start = saving.start
    BY <2>2
  <2> QED BY <2>1, <2>4, <2>5, <2>6, InsertedDocs
<1>3. CASE UploadRejected
  BY <1>3 DEF UploadRejected, recordVars
<1>4. CASE \E names \in Batches : Upload(names) \/ UploadAccepted(names)
  BY <1>1, <1>4 DEF Upload, UploadAccepted, Gate
<1>5. CASE Process \/ Retry \/ Warm
  BY <1>5 DEF Process, Retry, Warm, requestVars
<1>6. CASE \/ \E d \in Ids, n \in Names : ReplaceAccepted(d, n)
           \/ ReplaceSaved \/ ReplaceStored
  BY <1>6 DEF ReplaceAccepted, ReplaceSaved, ReplaceStored
<1>9. CASE \E d \in Ids : Skip(d) \/ PersistReads(d) \/ PersistWrites(d) \/ ChainEnds(d)
  BY <1>9 DEF Skip, PersistReads, PersistWrites, ChainEnds, requestVars
<1>7. CASE FinalizeCount \/ FinalizeWrite \/ FinalizeCache \/ FinalizeRelease
  BY <1>7 DEF FinalizeCount, FinalizeWrite, FinalizeCache, FinalizeRelease, requestVars
<1>8. CASE Delete \/ Evict
  BY <1>8 DEF Delete, Evict, requestVars
<1> QED BY <1>2, <1>3, <1>4, <1>5, <1>6, <1>7, <1>8, <1>9 DEF Next

----------------------------------------------------------------------------
\* Theorems

\* The values of the record, its cache, the disk and the tasks stay in their types: the
\* numbers given to documents and to stored files stay within the bounds the gates check.
THEOREM TypeCorrect == Spec => []TypeOK
BY Invariant, PTL DEF StoreInv

\* The record is consistent with itself, its cache, its files and what is shown of it.
THEOREM RecordStaysConsistent == Spec => []RecordAgrees
BY Invariant, InvAgrees, PTL

\* A case whose pipeline is over can be worked on, as long as no cache write was lost, no
\* upload was refused half way and no key vanished.
THEOREM StaysOpen == Spec => []CaseStaysOpen
BY Invariant, InvOpen, PTL

\* A further upload leaves the documents stored before it alone, as long as no cache write
\* was lost.
THEOREM UploadsAdd == Spec => UploadAddsOnly
<1> DEFINE Ends == saving # NoSave /\ saving' = NoSave /\ lost = 0
                      => \A i \in Stored(docs) : docs'[i] = docs[i]
<1>1. StoreInv /\ [Next]_vars => [Ends]_vars
  BY UploadEnds
<1>2. UploadAddsOnly <=> [][Ends]_vars
  BY DEF UploadAddsOnly
<1> HIDE DEF Ends
<1> QED BY <1>1, <1>2, Invariant, PTL DEF Spec
=============================================================================
