---------------------------- MODULE IoCache_proofs ----------------------------
(***************************************************************************)
(* Proofs about IoCache: what the tree says is in the file is there, and   *)
(* what a reader gets is what it asked for - for any resource, capacities, *)
(* chunk and number of failures.                                           *)
(***************************************************************************)
EXTENDS IoCache, WellFoundedInduction, TLAPS

(***************************************************************************)
(* The inductive invariant.                                                *)
(***************************************************************************)
Contexts ==
    [forwards : Nat, readPos : Nat, readInner : Nat, fileLogical : Nat, fileInner : Nat, fileEnd : Nat,
     cachePhysical : Nat, closed : BOOLEAN, eof : BOOLEAN, retry : Nat, abort : BOOLEAN, running : BOOLEAN,
     paused : BOOLEAN, seekRequest : BOOLEAN, seekPos : Nat, seekDone : BOOLEAN]
Entries == [logical : Nat, physical : Nat, size : Nat]
TaskPlaces == {"gone", "top", "decide", "rest", "woken", "overslept", "write", "store", "stored", "exit"}
CallNames  == {"none", "read", "seek", "direct", "pause", "close", "gone"}

CacheTypeOK ==
    /\ c \in Contexts /\ c.forwards \in ForwardsOptions
    /\ app \in [entries : SUBSET Entries, last : Nat, shared : BOOLEAN]
    /\ disk \in [bytes : [0 .. CacheCapacity - 1 -> Int], at : Nat]
    /\ saved \in [tree : [entries : SUBSET Entries, last : Nat], stale : BOOLEAN]
    /\ origin \in Nat
    /\ task \in [pc : TaskPlaces, bytes : Seq(Nat)]
    /\ io \in [op : CallNames, left : Nat, got : Nat, at : Nat, calls : Nat]
    /\ urgent \in BOOLEAN /\ faithful \in BOOLEAN

\* The entry e is true of the bytes b of the file, and ends before the end.
IsTrue(e, b)        == \A i \in 0 .. e.size - 1 : b[e.physical + i] = e.logical + i
Within(tree, end)   == \A e \in tree : e.physical + e.size <= end

\* The tree and the file; with no entry the file is empty.
FileInv ==
    /\ app.last <= CacheCapacity /\ Within(app.entries, app.last) /\ (app.entries = {} => app.last = 0)
    /\ TreeIsTrue

\* A tree that was saved and is not stale is true of what is in the file now, and what will
\* be written comes after it.
SavedInv ==
    /\ saved.tree.last <= CacheCapacity /\ Within(saved.tree.entries, saved.tree.last)
    /\ saved.tree.entries = {} => saved.tree.last = 0
    /\ ~saved.stale => /\ saved.tree.last <= app.last
                       /\ \A e \in saved.tree.entries : IsTrue(e, disk.bytes)

\* Where the code takes the offset of the file to be.
OffsetInv ==
    /\ c.forwards = 0 => c.cachePhysical = disk.at
    /\ c.forwards > 0 => c.cachePhysical = app.last

\* A task that is past the test of closed lets the reader wait, if the cache is closed.
Working == task.pc \in {"decide", "rest", "write", "store", "stored"}
ClosedInv ==
    /\ c.forwards = 0 => task.pc = "gone" /\ ~c.closed
    /\ c.closed => "closed" \in astray
    /\ c.closed /\ Working => io.op = "read" /\ "main" \in waits
    /\ io.op = "direct" => c.closed /\ ~Working

\* Where the code takes the inner protocol to be, and the bytes the task holds.
InnerInv ==
    /\ c.forwards > 0 /\ ~TreeAstray /\ (~c.closed \/ Working) => c.fileInner = origin
    /\ c.forwards = 0 /\ ~TreeAstray => c.readInner = origin
    /\ task.pc = "store" => origin # 0 /\ Len(task.bytes) > 0
    /\ task.pc = "store" /\ ~TreeAstray => \A i \in 1 .. Len(task.bytes) : task.bytes[i] = c.fileLogical + i - 1

\* Where the reader takes itself to be.
PosInv ==
    /\ c.paused => io.op \in {"none", "gone"}
    /\ io.op \in {"none", "read", "direct", "seek"} /\ ~c.paused /\ c.abort => urgent
    /\ c.seekRequest => io.op = "seek" \/ urgent \/ io.op = "gone"
    /\ c.seekDone => ~c.seekRequest
    /\ astray = {} /\ ~urgent => IF io.op = "seek" THEN c.seekDone => c.readPos = c.seekPos
                                 ELSE io.op = "gone" \/ io.at = c.readPos
    /\ c.forwards = 0 /\ io.op # "gone" => io.at = c.readPos /\ io.op # "seek"
    /\ io.left <= CacheChunk
    /\ ReadsAreTrue

CacheInv == CacheTypeOK /\ FileInv /\ SavedInv /\ OffsetInv /\ ClosedInv /\ InnerInv /\ PosInv

-----------------------------------------------------------------------------
(***************************************************************************)
(* The tree.                                                               *)
(***************************************************************************)
LEMMA CacheFields ==
    ASSUME CacheTypeOK
    PROVE  /\ c.forwards \in Nat /\ c.readPos \in Nat /\ c.readInner \in Nat /\ c.fileLogical \in Nat
           /\ c.fileInner \in Nat /\ c.fileEnd \in Nat /\ c.cachePhysical \in Nat /\ c.closed \in BOOLEAN
           /\ c.eof \in BOOLEAN /\ c.retry \in Nat /\ c.abort \in BOOLEAN /\ c.running \in BOOLEAN
           /\ c.paused \in BOOLEAN /\ c.seekRequest \in BOOLEAN /\ c.seekPos \in Nat /\ c.seekDone \in BOOLEAN
           /\ app.entries \subseteq Entries /\ app.last \in Nat /\ app.shared \in BOOLEAN
           /\ disk.bytes \in [0 .. CacheCapacity - 1 -> Int] /\ disk.at \in Nat
           /\ saved.tree.entries \subseteq Entries /\ saved.tree.last \in Nat /\ saved.stale \in BOOLEAN
           /\ origin \in Nat /\ task.bytes \in Seq(Nat)
           /\ io.left \in Nat /\ io.got \in Nat /\ io.at \in Nat /\ io.calls \in Nat
  BY DEF CacheTypeOK, Contexts

LEMMA EntryFields == \A e \in Entries : e.logical \in Nat /\ e.physical \in Nat /\ e.size \in Nat
  BY DEF Entries

\* A set of naturals has a least member.
LEMMA MinIs ==
    ASSUME NEW S, S \subseteq Nat, S # {}
    PROVE  Min(S) \in S /\ \A y \in S : Min(S) <= y
<1>1. PICK x \in S : \A y \in S : ~ (<<y, x>> \in OpToRel(<, Nat))
  BY WFMin, NatLessThanWellFounded
<1>2. \A y \in S : x <= y
  <2> TAKE y \in S
  <2>1. <<y, x>> \in OpToRel(<, Nat) <=> y < x
    BY DEF OpToRel
  <2>2. ~ (y < x) /\ x \in Nat /\ y \in Nat
    BY <1>1, <2>1
  <2> QED BY <2>2
<1> QED BY <1>1, <1>2 DEF Min

LEMMA MinOfTwo ==
    ASSUME NEW a \in Int, NEW b \in Int
    PROVE  Min({a, b}) \in {a, b} /\ Min({a, b}) <= a /\ Min({a, b}) <= b
<1>1. \E x \in {a, b} : \A y \in {a, b} : x <= y
  <2>1. CASE a <= b BY <2>1
  <2>2. CASE ~ (a <= b) BY <2>2
  <2> QED BY <2>1, <2>2
<1>2. Min({a, b}) \in {a, b} /\ \A y \in {a, b} : Min({a, b}) <= y
  BY <1>1 DEF Min
<1> QED BY <1>2

\* The entry a position falls into or follows.
LEMMA NearestIs ==
    ASSUME CacheTypeOK, NEW pos \in Nat, UpTo(pos) # {}
    PROVE  /\ Nearest(pos) \in app.entries
           /\ Nearest(pos).logical <= pos
<1> DEFINE Behind == {pos - d.logical : d \in UpTo(pos)}
<1>1. \A d \in UpTo(pos) : d \in app.entries /\ d.logical \in Nat /\ d.logical <= pos
  BY CacheFields, EntryFields DEF UpTo
<1>2. Behind \subseteq Nat /\ Behind # {}
  BY <1>1
<1> HIDE DEF Behind
<1>3. PICK m \in Behind : \A n \in Behind : m <= n
  BY <1>2, MinIs
<1>4. PICK e \in UpTo(pos) : m = pos - e.logical
  BY <1>3 DEF Behind
<1>5. ASSUME NEW d \in UpTo(pos) PROVE d.logical <= e.logical
  <2>1. pos - d.logical \in Behind
    BY DEF Behind
  <2>2. m <= pos - d.logical
    BY <1>3, <2>1
  <2> QED BY <1>1, <1>4, <2>2
<1>6. Nearest(pos) \in UpTo(pos)
  BY <1>4, <1>5 DEF Nearest
<1> QED BY <1>1, <1>6

LEMMA GapIs ==
    ASSUME CacheTypeOK, NEW from \in Nat, NEW pos \in Nat
    PROVE  Gap(from, pos) \in Int /\ Gap(from, pos) <= CacheChunk
<1>1. CacheChunk \in Nat
  BY CacheAssumption
<1>2. CASE After(from) = {}
  BY <1>1, <1>2 DEF Gap
<1>3. CASE After(from) # {}
  <2>1. After(from) \subseteq Nat
    BY CacheFields, EntryFields DEF After
  <2>2. Min(After(from)) \in Nat
    BY <1>3, <2>1, MinIs
  <2> DEFINE left == Min(After(from)) - pos
  <2>4. left \in Int
    BY <2>2
  <2>5. Gap(from, pos) = Min({left, CacheChunk})
    BY <1>3 DEF Gap
  <2> HIDE DEF left
  <2>6. Min({left, CacheChunk}) \in {left, CacheChunk} /\ Min({left, CacheChunk}) <= CacheChunk
    <3>1. CacheChunk \in Int
      BY <1>1
    <3> QED BY <2>4, <3>1, MinOfTwo, Zenon
  <2>7. Min({left, CacheChunk}) \in Int
    BY <1>1, <2>4, <2>6
  <2> QED BY <2>5, <2>6, <2>7
<1> QED BY <1>2, <1>3

LEMMA FilePosIs == ASSUME CacheTypeOK PROVE FilePos \in Nat
<1>1. CASE Holds(c.fileLogical)
  <2>1. Nearest(c.fileLogical) \in Entries
    BY <1>1, CacheFields, NearestIs DEF Holds
  <2> QED BY <1>1, <2>1, EntryFields DEF FilePos
<1> QED BY <1>1, CacheFields DEF FilePos

LEMMA CapacityIs == CacheCapacity \in Nat /\ CacheChunk \in Nat
  BY CacheAssumption

\* Bytes are written: what is below stays, and there they are.
LEMMA WrittenIs ==
    ASSUME CacheTypeOK, NEW at \in Nat, NEW bytes \in Seq(Nat), at + Len(bytes) <= CacheCapacity
    PROVE  /\ Written(at, bytes) \in [bytes : [0 .. CacheCapacity - 1 -> Int], at : Nat]
           /\ Written(at, bytes).at = at + Len(bytes)
           /\ \A p \in 0 .. at - 1 : Written(at, bytes).bytes[p] = disk.bytes[p]
           /\ \A i \in 0 .. Len(bytes) - 1 : Written(at, bytes).bytes[at + i] = bytes[i + 1]
<1>0. Len(bytes) \in Nat
  OBVIOUS
<1>1. CacheCapacity \in Nat /\ disk.bytes \in [0 .. CacheCapacity - 1 -> Int] /\ Len(bytes) \in Nat
  BY <1>0, CacheFields, CacheAssumption
<1>2. \A i \in 1 .. Len(bytes) : bytes[i] \in Nat
  BY <1>1
<1> DEFINE New == [p \in DOMAIN disk.bytes |->
                    IF p >= at /\ p < at + Len(bytes) THEN bytes[p - at + 1] ELSE disk.bytes[p]]
<1>3. Written(at, bytes) = [bytes |-> New, at |-> at + Len(bytes)]
  BY DEF Written
<1>4. DOMAIN disk.bytes = 0 .. CacheCapacity - 1
  BY <1>1
<1>5. ASSUME NEW p \in 0 .. CacheCapacity - 1
      PROVE  (IF p >= at /\ p < at + Len(bytes) THEN bytes[p - at + 1] ELSE disk.bytes[p]) \in Int
  <2>1. CASE p >= at /\ p < at + Len(bytes)
    <3>1. p - at + 1 \in 1 .. Len(bytes)
      BY <1>1, <2>1
    <3> QED BY <1>2, <2>1, <3>1
  <2>2. CASE ~ (p >= at /\ p < at + Len(bytes))
    BY <1>1, <2>2
  <2> QED BY <2>1, <2>2
<1>6. New \in [0 .. CacheCapacity - 1 -> Int]
  BY <1>4, <1>5
<1>7. \A p \in 0 .. at - 1 : p \in DOMAIN disk.bytes /\ ~ (p >= at)
  BY <1>1, <1>4
<1>8. \A p \in 0 .. at - 1 : New[p] = disk.bytes[p]
  BY <1>7
<1>9. \A i \in 0 .. Len(bytes) - 1 :
         /\ at + i \in DOMAIN disk.bytes /\ at + i >= at /\ at + i < at + Len(bytes)
         /\ at + i - at + 1 = i + 1
  BY <1>1, <1>4
<1>10. \A i \in 0 .. Len(bytes) - 1 : New[at + i] = bytes[i + 1]
  BY <1>9
<1> HIDE DEF New
<1> QED BY <1>1, <1>3, <1>6, <1>8, <1>10

\* What is true of the bytes up to the end stays true when bytes are put after it.
LEMMA TrueStays ==
    ASSUME NEW e \in Entries, NEW end \in Nat, e.physical + e.size <= end, NEW b, NEW d,
           \A p \in 0 .. end - 1 : d[p] = b[p], IsTrue(e, b)
    PROVE  IsTrue(e, d)
<1>1. e.physical \in Nat /\ e.size \in Nat
  BY EntryFields
<1>2. \A i \in 0 .. e.size - 1 : e.physical + i \in 0 .. end - 1
  BY <1>1
<1> QED BY <1>2 DEF IsTrue

\* n bytes of position pos were put at the end: a new entry, or a longer one.
NewEntry(pos, end, n) == [logical |-> pos, physical |-> end, size |-> n]
Longer(near, n)       == [near EXCEPT !.size = @ + n]

LEMMA NewEntryIs ==
    ASSUME NEW pos \in Nat, NEW end \in Nat, NEW n \in Nat, NEW d,
           \A i \in 0 .. n - 1 : d[end + i] = pos + i
    PROVE  /\ NewEntry(pos, end, n) \in Entries
           /\ NewEntry(pos, end, n).physical + NewEntry(pos, end, n).size <= end + n
           /\ IsTrue(NewEntry(pos, end, n), d)
  BY DEF NewEntry, Entries, IsTrue

LEMMA LongerIs ==
    ASSUME NEW near \in Entries, NEW n \in Nat
    PROVE  /\ Longer(near, n) \in Entries
           /\ Longer(near, n).physical = near.physical /\ Longer(near, n).logical = near.logical
           /\ Longer(near, n).size = near.size + n
  BY DEF Longer, Entries

LEMMA LongerIsTrue ==
    ASSUME NEW near \in Entries, NEW end \in Nat, NEW n \in Nat, NEW b, NEW d,
           near.physical + near.size = end, IsTrue(near, b),
           \A p \in 0 .. end - 1 : d[p] = b[p],
           \A i \in 0 .. n - 1 : d[end + i] = near.logical + near.size + i
    PROVE  IsTrue(Longer(near, n), d)
<1>1. near.physical \in Nat /\ near.size \in Nat /\ near.logical \in Nat
  BY EntryFields
<1>2. IsTrue(near, d)
  BY <1>1, TrueStays
<1>3. ASSUME NEW i \in 0 .. (near.size + n) - 1 PROVE d[near.physical + i] = near.logical + i
  <2>1. CASE i < near.size
    BY <1>1, <1>2, <2>1 DEF IsTrue
  <2>2. CASE ~ (i < near.size)
    <3>1. PICK k \in 0 .. n - 1 : i = near.size + k
      <4>1. i - near.size \in 0 .. n - 1 /\ i = near.size + (i - near.size)
        BY <1>1, <2>2
      <4> QED BY <4>1
    <3>2. near.physical + i = end + k /\ near.logical + i = near.logical + near.size + k
      BY <1>1, <3>1
    <3> QED BY <3>2
  <2> QED BY <2>1, <2>2
<1>4. /\ Longer(near, n).physical = near.physical /\ Longer(near, n).logical = near.logical
      /\ Longer(near, n).size = near.size + n
  BY LongerIs
<1>5. 0 .. Longer(near, n).size - 1 = 0 .. (near.size + n) - 1
  BY <1>4, Zenon
<1>6. ASSUME NEW i \in 0 .. Longer(near, n).size - 1
      PROVE  d[Longer(near, n).physical + i] = Longer(near, n).logical + i
  <2>1. d[near.physical + i] = near.logical + i
    BY <1>3, <1>5
  <2> QED BY <1>4, <2>1, Zenon
<1> QED BY <1>6 DEF IsTrue

\* Below the end the bytes are the same; the tree has those bytes.
Below(end, b, d) == \A p \in 0 .. end - 1 : d[p] = b[p]
Grown(tree, end, pos, n, grown) ==
    \/ grown = tree \cup {NewEntry(pos, end, n)}
    \/ \E near \in tree : /\ near.logical + near.size = pos /\ near.physical + near.size = end
                          /\ grown = (tree \ {near}) \cup {Longer(near, n)}

GrownWell(tree, end, pos, n, b, d, grown) ==
    /\ grown \in SUBSET Entries /\ grown # {} /\ Within(grown, end + n)
    /\ (\A e \in tree : IsTrue(e, b)) /\ (\A i \in 0 .. n - 1 : d[end + i] = pos + i)
          => \A e \in grown : IsTrue(e, d)

LEMMA TreeGrows ==
    ASSUME NEW tree \in SUBSET Entries, NEW end \in Nat, Within(tree, end),
           NEW pos \in Nat, NEW n \in Nat, NEW b, NEW d, NEW grown,
           Below(end, b, d), Grown(tree, end, pos, n, grown)
    PROVE  GrownWell(tree, end, pos, n, b, d, grown)
<1> SUFFICES /\ grown \in SUBSET Entries /\ grown # {}
             /\ Within(grown, end + n)
             /\ (\A e \in tree : IsTrue(e, b)) /\ (\A i \in 0 .. n - 1 : d[end + i] = pos + i)
                   => \A e \in grown : IsTrue(e, d)
  BY DEF GrownWell
<1>0. \A p \in 0 .. end - 1 : d[p] = b[p]
  BY DEF Below
<1>1. ASSUME NEW e \in tree
      PROVE  /\ e \in Entries /\ e.physical + e.size <= end + n
             /\ IsTrue(e, b) => IsTrue(e, d)
  <2>1. e \in Entries /\ e.physical \in Nat /\ e.size \in Nat /\ e.physical + e.size <= end
    BY EntryFields DEF Within
  <2> QED BY <1>0, <2>1, TrueStays
<1>2. CASE grown = tree \cup {NewEntry(pos, end, n)}
  <2>1. NewEntry(pos, end, n) \in Entries
        /\ NewEntry(pos, end, n).physical + NewEntry(pos, end, n).size <= end + n
    BY DEF NewEntry, Entries
  <2>2. (\A i \in 0 .. n - 1 : d[end + i] = pos + i) => IsTrue(NewEntry(pos, end, n), d)
    BY NewEntryIs
  <2> QED BY <1>1, <1>2, <2>1, <2>2 DEF Within
<1>3. ASSUME NEW near \in tree, near.logical + near.size = pos, near.physical + near.size = end,
             grown = (tree \ {near}) \cup {Longer(near, n)}
      PROVE  /\ grown \in SUBSET Entries /\ grown # {} /\ Within(grown, end + n)
             /\ (\A e \in tree : IsTrue(e, b)) /\ (\A i \in 0 .. n - 1 : d[end + i] = pos + i)
                   => \A e \in grown : IsTrue(e, d)
  <2>1. near.physical \in Nat /\ near.size \in Nat /\ near.logical \in Nat
    BY EntryFields
  <2>2. Longer(near, n) \in Entries /\ Longer(near, n).physical + Longer(near, n).size <= end + n
    <3>1. /\ Longer(near, n) \in Entries /\ Longer(near, n).physical = near.physical
          /\ Longer(near, n).size = near.size + n
      BY LongerIs
    <3> QED BY <1>3, <2>1, <3>1
  <2>3. IsTrue(near, b) /\ (\A i \in 0 .. n - 1 : d[end + i] = pos + i) => IsTrue(Longer(near, n), d)
    <3>1. SUFFICES ASSUME IsTrue(near, b), \A i \in 0 .. n - 1 : d[end + i] = pos + i
                   PROVE  IsTrue(Longer(near, n), d)
      OBVIOUS
    <3>2. \A i \in 0 .. n - 1 : d[end + i] = near.logical + near.size + i
      BY <1>3, <2>1, <3>1
    <3> QED BY <1>0, <1>3, <3>1, <3>2, LongerIsTrue
  <2> QED BY <1>1, <1>3, <2>2, <2>3 DEF Within
<1> QED BY <1>2, <1>3 DEF Grown

-----------------------------------------------------------------------------
(***************************************************************************)
(* What a step leaves alone.                                               *)
(***************************************************************************)
LEMMA NotAstray == astray = {} => ~ TreeAstray
  BY Zenon DEF TreeAstray

LEMMA StaysAstray == ASSUME astray \subseteq astray', TreeAstray PROVE TreeAstray'
  BY Zenon DEF TreeAstray

LEMMA TreeIs == TreeIsTrue <=> (~ TreeAstray => \A e \in app.entries : IsTrue(e, disk.bytes))
  BY DEF TreeIsTrue, IsTrue

LEMMA TreeIsNext == TreeIsTrue' <=> (~ TreeAstray' => \A e \in app'.entries : IsTrue(e, disk'.bytes))
  BY DEF TreeIsTrue, IsTrue

\* A step that leaves the file as it is.
LEMMA FileStays ==
    ASSUME FileInv, SavedInv, app'.entries = app.entries, app'.last = app.last, saved' = saved,
           disk'.bytes = disk.bytes, astray \subseteq astray'
    PROVE  FileInv' /\ SavedInv'
<1>1. TreeIsTrue'
  BY StaysAstray, TreeIs, TreeIsNext DEF FileInv
<1>2. FileInv'
  BY <1>1 DEF FileInv, Within
<1>3. SavedInv'
  BY DEF SavedInv, IsTrue
<1> QED BY <1>2, <1>3

\* A step that leaves the reader where it is.
LEMMA PosStays ==
    ASSUME PosInv, io' = io, urgent' = urgent, faithful' = faithful, astray \subseteq astray',
           c'.forwards = c.forwards, c'.readPos = c.readPos, c'.paused = c.paused,
           c'.seekRequest = c.seekRequest, c'.seekPos = c.seekPos, c'.seekDone = c.seekDone,
           c'.abort => c.abort \/ urgent
    PROVE  PosInv'
  BY DEF PosInv, ReadsAreTrue

\* A step of the task that changes neither the file nor the places in it.
LEMMA TaskMoves ==
    ASSUME CacheInv, UNCHANGED <<app, disk, saved, io, urgent, faithful, origin>>, astray' = astray,
           c' \in Contexts, c'.forwards = c.forwards, c'.cachePhysical = c.cachePhysical,
           c'.closed = c.closed, c'.fileInner = c.fileInner, c'.readInner = c.readInner,
           CacheTypeOK', PosInv', task.pc # "gone", task'.pc # "store",
           c.closed /\ Working' => Working /\ waits' = waits
    PROVE  CacheInv'
<1>1. FileInv' /\ SavedInv'
  BY FileStays DEF CacheInv
<1>2. OffsetInv'
  BY DEF CacheInv, OffsetInv
<1>3. TreeAstray' = TreeAstray
  BY DEF TreeAstray
<1>4. ClosedInv'
  BY DEF CacheInv, ClosedInv, Working
<1>5. InnerInv'
  BY <1>3 DEF CacheInv, InnerInv, ClosedInv
<1> QED BY <1>1, <1>2, <1>4, <1>5 DEF CacheInv

LEMMA TaskStepType ==
    ASSUME CacheTypeOK, UNCHANGED <<app, disk, saved, io, urgent, faithful, origin>>,
           c' \in Contexts, c'.forwards = c.forwards,
           NEW pc \in TaskPlaces, task' = [task EXCEPT !.pc = pc] \/ task' = [pc |-> pc, bytes |-> << >>]
    PROVE  CacheTypeOK' /\ task'.pc = pc
<1>1. task \in [pc : TaskPlaces, bytes : Seq(Nat)] /\ << >> \in Seq(Nat)
  BY DEF CacheTypeOK
<1>2. CASE task' = [task EXCEPT !.pc = pc]
  BY <1>1, <1>2 DEF CacheTypeOK
<1>3. CASE task' = [pc |-> pc, bytes |-> << >>]
  BY <1>1, <1>3 DEF CacheTypeOK
<1> QED BY <1>2, <1>3

-----------------------------------------------------------------------------
(***************************************************************************)
(* The steps of the task.                                                  *)
(***************************************************************************)
LEMMA TaskBeginsKeeps == ASSUME CacheInv, TaskBegins PROVE CacheInv'
<1>1. /\ task.pc = "top" /\ ~ c.closed /\ ~ urgent /\ ~ c.abort /\ task' = [task EXCEPT !.pc = "decide"]
      /\ UNCHANGED <<app, disk, saved, io, urgent, faithful, origin>> /\ astray' = astray
      /\ CacheTypeOK /\ PosInv /\ c \in Contexts
  BY DEF TaskBegins, TaskAt, Goto, MustStop, theFile, theReader, CacheInv, CacheTypeOK
<1>2. task'.pc = "decide" /\ "decide" \in TaskPlaces
  BY <1>1 DEF CacheTypeOK, TaskPlaces
<1>3. CASE c.seekRequest
  <2>1. c' = [c EXCEPT !.eof = FALSE, !.seekDone = TRUE, !.seekRequest = FALSE,
                       !.readPos = c.seekPos, !.fileLogical = c.seekPos]
    BY <1>3 DEF TaskBegins
  <2>2. c' \in Contexts
    BY <1>1, <2>1, CacheFields DEF Contexts
  <2>3. /\ c'.forwards = c.forwards /\ c'.cachePhysical = c.cachePhysical /\ c'.closed = c.closed
        /\ c'.fileInner = c.fileInner /\ c'.readInner = c.readInner /\ c'.paused = c.paused
        /\ c'.seekPos = c.seekPos /\ c'.abort = c.abort
        /\ c'.seekRequest = FALSE /\ c'.seekDone = TRUE /\ c'.readPos = c.seekPos
    BY <1>1, <2>1 DEF Contexts
  <2>4. c.forwards # 0
    BY <1>1 DEF CacheInv, ClosedInv
  <2>5. PosInv'
    BY <1>1, <1>3, <2>3, <2>4 DEF PosInv, ReadsAreTrue
  <2>6. CacheTypeOK'
    BY <1>1, <1>2, <2>2, <2>3, TaskStepType
  <2> QED BY <1>1, <1>2, <2>2, <2>3, <2>5, <2>6, TaskMoves
<1>4. CASE ~ c.seekRequest
  <2>1. c' = c
    BY <1>4 DEF TaskBegins
  <2>2. PosInv'
    BY <1>1, <2>1, PosStays
  <2>3. CacheTypeOK'
    BY <1>1, <1>2, <2>1, TaskStepType
  <2> QED BY <1>1, <1>2, <2>1, <2>2, <2>3, TaskMoves
<1> QED BY <1>3, <1>4

\* A step of the task that may look for its place in the file, and does no more.
LEMMA TaskGoes ==
    ASSUME CacheInv, UNCHANGED <<app, disk, saved, io, urgent, faithful, origin>>, astray' = astray,
           NEW pc \in TaskPlaces, pc # "store", task.pc # "gone",
           task' = [task EXCEPT !.pc = pc] \/ task' = [pc |-> pc, bytes |-> << >>],
           NEW place \in Nat, NEW eof \in BOOLEAN, NEW abort \in BOOLEAN, NEW running \in BOOLEAN,
           c' = [c EXCEPT !.fileLogical = place, !.eof = eof, !.abort = abort, !.running = running],
           abort => c.abort \/ urgent,
           c.closed /\ pc \in {"decide", "rest", "write", "stored"} => Working /\ waits' = waits
    PROVE  CacheInv'
<1>1. c \in Contexts /\ CacheTypeOK /\ PosInv
  BY DEF CacheInv, CacheTypeOK
<1>2. /\ c' \in Contexts /\ c'.forwards = c.forwards /\ c'.cachePhysical = c.cachePhysical
      /\ c'.closed = c.closed /\ c'.fileInner = c.fileInner /\ c'.readInner = c.readInner
      /\ c'.paused = c.paused /\ c'.readPos = c.readPos /\ c'.seekRequest = c.seekRequest
      /\ c'.seekPos = c.seekPos /\ c'.seekDone = c.seekDone /\ c'.abort = abort
  <2>1. c' = [c EXCEPT !.fileLogical = place, !.eof = eof, !.abort = abort, !.running = running]
    OBVIOUS
  <2>2. c' \in Contexts
    BY <1>1, <2>1 DEF Contexts
  <2>3. /\ c'.forwards = c.forwards /\ c'.cachePhysical = c.cachePhysical
        /\ c'.closed = c.closed /\ c'.fileInner = c.fileInner /\ c'.readInner = c.readInner
        /\ c'.paused = c.paused /\ c'.readPos = c.readPos
    BY <1>1, <2>1 DEF Contexts
  <2>4. /\ c'.seekRequest = c.seekRequest
        /\ c'.seekPos = c.seekPos /\ c'.seekDone = c.seekDone /\ c'.abort = abort
    BY <1>1, <2>1 DEF Contexts
  <2> QED BY <2>2, <2>3, <2>4
<1>3. PosInv'
  BY <1>1, <1>2, PosStays
<1>4. CacheTypeOK' /\ task'.pc = pc
  BY <1>1, <1>2, TaskStepType
<1>5. c.closed /\ Working' => Working /\ waits' = waits
  BY <1>4 DEF Working
<1> QED BY <1>2, <1>3, <1>4, <1>5, TaskMoves

\* Nothing of it changes.
LEMMA TaskOnlyGoes ==
    ASSUME CacheInv, UNCHANGED <<c, app, disk, saved, io, urgent, faithful, origin>>, astray' = astray,
           NEW pc \in TaskPlaces, pc # "store", task.pc # "gone",
           task' = [task EXCEPT !.pc = pc],
           c.closed /\ pc \in {"decide", "rest", "write", "stored"} => Working /\ waits' = waits
    PROVE  CacheInv'
<1>1. c = [c EXCEPT !.fileLogical = c.fileLogical, !.eof = c.eof, !.abort = c.abort, !.running = c.running]
  BY DEF CacheInv, CacheTypeOK, Contexts
<1>2. c.fileLogical \in Nat /\ c.eof \in BOOLEAN /\ c.abort \in BOOLEAN /\ c.running \in BOOLEAN
  BY CacheFields DEF CacheInv
<1> QED BY <1>1, <1>2, TaskGoes

LEMMA TaskStopsKeeps == ASSUME CacheInv, TaskStops PROVE CacheInv'
<1>1. /\ task.pc = "top" /\ (c.closed \/ c.abort \/ urgent) /\ task' = [task EXCEPT !.pc = "exit"]
      /\ UNCHANGED <<app, disk, saved, io, urgent, faithful, origin>> /\ astray' = astray
      /\ "exit" \in TaskPlaces
  BY DEF TaskStops, TaskAt, Goto, MustStop, theFile, theReader, TaskPlaces
<1>2. CASE c.closed
  BY <1>1, <1>2, TaskOnlyGoes DEF TaskStops
<1>3. CASE ~ c.closed
  <2>1. c' = [c EXCEPT !.abort = TRUE, !.eof = TRUE]
    BY <1>3 DEF TaskStops
  <2>2. c' = [c EXCEPT !.fileLogical = c.fileLogical, !.eof = TRUE, !.abort = TRUE, !.running = c.running]
    BY <2>1 DEF CacheInv, CacheTypeOK, Contexts
  <2>3. c.fileLogical \in Nat /\ c.running \in BOOLEAN
    BY CacheFields DEF CacheInv
  <2> QED BY <1>1, <1>3, <2>2, <2>3, TaskGoes
<1> QED BY <1>2, <1>3

LEMMA TaskDecidesKeeps == ASSUME CacheInv, TaskDecides PROVE CacheInv'
<1>1. PICK pc \in {"rest", "write"} : task' = [task EXCEPT !.pc = pc]
  BY DEF TaskDecides, Goto
<1>2. /\ task.pc = "decide" /\ pc \in TaskPlaces /\ pc # "store" /\ waits' = waits
      /\ UNCHANGED <<c, app, disk, saved, io, urgent, faithful, origin>> /\ astray' = astray
  BY DEF TaskDecides, TaskAt, theFile, theReader, TaskPlaces
<1>3. Working
  BY <1>2 DEF Working
<1> QED BY <1>1, <1>2, <1>3, TaskOnlyGoes

LEMMA TaskRestsKeeps == ASSUME CacheInv, TaskRests PROVE CacheInv'
<1>1. PICK pc \in {"overslept", "woken"} : task' = [task EXCEPT !.pc = pc]
  BY DEF TaskRests, Goto
<1> QED BY <1>1, TaskOnlyGoes DEF TaskRests, TaskAt, theFile, theReader, TaskPlaces

LEMMA TaskWakesKeeps == ASSUME CacheInv, TaskWakes PROVE CacheInv'
  BY TaskOnlyGoes DEF TaskWakes, TaskAt, Goto, theFile, theReader, TaskPlaces

LEMMA TaskTellsKeeps == ASSUME CacheInv, TaskTells PROVE CacheInv'
  BY TaskOnlyGoes DEF TaskTells, TaskAt, Goto, theFile, theReader, TaskPlaces

LEMMA TaskEndsKeeps == ASSUME CacheInv, TaskEnds PROVE CacheInv'
<1>1. /\ task.pc = "exit" /\ task' = [pc |-> "gone", bytes |-> << >>] /\ "gone" \in TaskPlaces
      /\ UNCHANGED <<app, disk, saved, io, urgent, faithful, origin>> /\ astray' = astray
      /\ c' = [c EXCEPT !.running = FALSE]
  BY DEF TaskEnds, TaskAt, NoTask, theFile, theReader, TaskPlaces
<1>2. c' = [c EXCEPT !.fileLogical = c.fileLogical, !.eof = c.eof, !.abort = c.abort, !.running = FALSE]
  BY <1>1 DEF CacheInv, CacheTypeOK, Contexts
<1>3. c.fileLogical \in Nat /\ c.eof \in BOOLEAN /\ c.abort \in BOOLEAN
  BY CacheFields DEF CacheInv
<1> QED BY <1>1, <1>2, <1>3, TaskGoes

LEMMA WriteNothingKeeps == ASSUME CacheInv, WriteNothing PROVE CacheInv'
<1>1. /\ task.pc = "write" /\ task' = [task EXCEPT !.pc = "top"] /\ "top" \in TaskPlaces
      /\ UNCHANGED <<app, disk, saved, io, urgent, faithful, origin>> /\ astray' = astray
  BY DEF WriteNothing, TaskAt, Goto, theFile, theReader, TaskPlaces
<1>2. FilePos \in Nat /\ c.eof \in BOOLEAN /\ c.abort \in BOOLEAN /\ c.running \in BOOLEAN /\ c \in Contexts
  BY FilePosIs, CacheFields DEF CacheInv, CacheTypeOK
<1>3. PICK eof \in BOOLEAN : c' = [c EXCEPT !.fileLogical = FilePos, !.eof = eof]
  BY <1>2 DEF WriteNothing
<1>4. c' = [c EXCEPT !.fileLogical = FilePos, !.eof = eof, !.abort = c.abort, !.running = c.running]
  BY <1>2, <1>3 DEF Contexts
<1> QED BY <1>1, <1>2, <1>4, TaskGoes

\* The fields of the context such a step leaves alone.
ReadsOnly ==
    /\ c' \in Contexts /\ c'.forwards = c.forwards /\ c'.cachePhysical = c.cachePhysical
    /\ c'.closed = c.closed /\ c'.paused = c.paused /\ c'.readPos = c.readPos
    /\ c'.seekRequest = c.seekRequest /\ c'.seekPos = c.seekPos /\ c'.seekDone = c.seekDone
    /\ c'.abort = c.abort

LEMMA ReadsOnlyIs ==
    ASSUME CacheInv, NEW place \in Nat, NEW inner \in Nat, NEW end \in Nat, NEW eof \in BOOLEAN,
           c' = [c EXCEPT !.fileLogical = place, !.fileInner = inner, !.fileEnd = end, !.eof = eof]
    PROVE  ReadsOnly /\ c'.fileInner = inner /\ c'.fileLogical = place
<1>1. c \in Contexts
  BY DEF CacheInv, CacheTypeOK
<1> QED BY <1>1 DEF ReadsOnly, Contexts

\* A step of the task that reads the inner protocol, or tries to.
LEMMA TaskReads ==
    ASSUME CacheInv, task.pc = "write", UNCHANGED <<app, disk, saved, io, urgent, faithful, waits>>,
           astray \subseteq astray', origin' \in Nat,
           ReadsOnly, ~ TreeAstray' => c'.fileInner = origin',
           task' \in [pc : {"top", "store"}, bytes : Seq(Nat)],
           task'.pc = "store" =>
              /\ origin' # 0 /\ Len(task'.bytes) > 0
              /\ ~ TreeAstray' => \A i \in 1 .. Len(task'.bytes) : task'.bytes[i] = c'.fileLogical + i - 1
    PROVE  CacheInv'
<1>1. c \in Contexts /\ CacheTypeOK /\ PosInv
  BY DEF CacheInv, CacheTypeOK
<1>2. /\ c' \in Contexts /\ c'.forwards = c.forwards /\ c'.cachePhysical = c.cachePhysical
      /\ c'.closed = c.closed
      /\ c'.paused = c.paused /\ c'.readPos = c.readPos /\ c'.seekRequest = c.seekRequest
      /\ c'.seekPos = c.seekPos /\ c'.seekDone = c.seekDone /\ c'.abort = c.abort
  BY DEF ReadsOnly
<1>3. task' \in [pc : TaskPlaces, bytes : Seq(Nat)]
  BY DEF TaskPlaces
<1>4. CacheTypeOK'
  BY <1>1, <1>2, <1>3 DEF CacheTypeOK
<1>5. PosInv'
  BY <1>1, <1>2, PosStays
<1>6. FileInv' /\ SavedInv'
  BY FileStays DEF CacheInv
<1>7. OffsetInv'
  BY <1>2 DEF CacheInv, OffsetInv
<1>8. c.forwards # 0 /\ Working
  BY DEF CacheInv, ClosedInv, Working
<1>9. ClosedInv'
  BY <1>2, <1>3, <1>8 DEF CacheInv, ClosedInv, Working
<1>10. InnerInv'
  BY <1>2, <1>3, <1>8, CacheFields DEF CacheInv, InnerInv
<1> QED BY <1>4, <1>5, <1>6, <1>7, <1>9, <1>10 DEF CacheInv

LEMMA TaskHasForwards == ASSUME CacheInv, task.pc # "gone" PROVE c.forwards > 0
<1>1. c.forwards # 0
  BY DEF CacheInv, ClosedInv
<1>2. c.forwards \in Nat
  BY CacheFields DEF CacheInv
<1> QED BY <1>1, <1>2

\* The inner protocol is read at the place in the file.
LEMMA FromIs ==
    ASSUME CacheInv, task.pc = "write"
    PROVE  /\ From \in Nat /\ FilePos \in Nat
           /\ ~ TreeAstray => From = FilePos
<1>1. From \in Nat /\ FilePos \in Nat
  BY FilePosIs, CacheFields DEF CacheInv, From
<1>2. c.forwards > 0 /\ Working
  BY TaskHasForwards DEF Working
<1> QED BY <1>1, <1>2 DEF CacheInv, InnerInv, From

LEMMA BackToTop ==
    ASSUME CacheInv, task' = [task EXCEPT !.pc = "top"]
    PROVE  task' \in [pc : {"top", "store"}, bytes : Seq(Nat)] /\ task'.pc # "store"
<1>1. task \in [pc : TaskPlaces, bytes : Seq(Nat)]
  BY DEF CacheInv, CacheTypeOK
<1> QED BY <1>1

LEMMA WriteFailsKeeps == ASSUME CacheInv, WriteFails PROVE CacheInv'
<1>1. /\ task.pc = "write" /\ task' = [task EXCEPT !.pc = "top"] /\ origin' = From
      /\ UNCHANGED <<app, disk, saved, io, urgent, faithful, waits>> /\ astray' = astray
  BY DEF WriteFails, Wanting, TaskAt, Goto, theFile, theReader
<1>2. c' = [c EXCEPT !.fileLogical = FilePos, !.fileInner = FilePos, !.fileEnd = c.fileEnd, !.eof = TRUE]
  BY DEF WriteFails, CacheInv, CacheTypeOK, Contexts
<1>3. c.fileEnd \in Nat
  BY CacheFields DEF CacheInv
<1>4. ~ TreeAstray' => ~ TreeAstray
  BY <1>1, StaysAstray
<1>5. FilePos \in Nat
  BY <1>1, FromIs
<1>6. ReadsOnly /\ c'.fileInner = FilePos
  BY <1>2, <1>3, <1>5, ReadsOnlyIs
<1> QED BY <1>1, <1>4, <1>6, BackToTop, FromIs, TaskReads

LEMMA WriteFindsEndKeeps == ASSUME CacheInv, WriteFindsEnd PROVE CacheInv'
<1>1. /\ task.pc = "write" /\ task' = [task EXCEPT !.pc = "top"] /\ origin' = From
      /\ UNCHANGED <<app, disk, saved, io, urgent, faithful, waits>> /\ astray' = astray
      /\ c' = [c EXCEPT !.fileLogical = FilePos, !.fileInner = FilePos, !.fileEnd = FilePos, !.eof = TRUE]
  BY DEF WriteFindsEnd, Wanting, TaskAt, Goto, theFile, theReader
<1>2. ~ TreeAstray' => ~ TreeAstray
  BY <1>1, StaysAstray
<1>3. ReadsOnly /\ c'.fileInner = FilePos
  BY <1>1, FromIs, ReadsOnlyIs
<1> QED BY <1>1, <1>2, <1>3, BackToTop, FromIs, TaskReads

LEMMA CannotSeekAstray ==
    ASSUME WriteCannotSeek
    PROVE  astray \subseteq astray' /\ (c.fileEnd = FilePos => TreeAstray')
  BY Zenon DEF WriteCannotSeek, TreeAstray

LEMMA WriteCannotSeekKeeps == ASSUME CacheInv, WriteCannotSeek PROVE CacheInv'
<1>1. /\ task.pc = "write" /\ task' = [task EXCEPT !.pc = "top"] /\ origin' = origin
      /\ UNCHANGED <<app, disk, saved, io, urgent, faithful, waits>>
      /\ c' = [c EXCEPT !.fileLogical = FilePos, !.eof = TRUE,
                        !.fileInner = IF c.fileEnd = FilePos THEN c.fileEnd ELSE @]
  BY Zenon DEF WriteCannotSeek, Wanting, TaskAt, Goto, theFile, theReader
<1> DEFINE inner == IF c.fileEnd = FilePos THEN c.fileEnd ELSE c.fileInner
<1>2. c' = [c EXCEPT !.fileLogical = FilePos, !.fileInner = inner, !.fileEnd = c.fileEnd, !.eof = TRUE]
  BY <1>1 DEF CacheInv, CacheTypeOK, Contexts
<1>3. c.fileEnd \in Nat /\ inner \in Nat /\ origin \in Nat
  BY CacheFields DEF CacheInv
<1>4. astray \subseteq astray' /\ (c.fileEnd = FilePos => TreeAstray')
  BY CannotSeekAstray
<1>5. ~ TreeAstray' => inner = origin'
  <2>1. c.forwards > 0 /\ Working
    BY <1>1, TaskHasForwards DEF Working
  <2> QED BY <1>1, <1>4, <2>1, StaysAstray DEF CacheInv, InnerInv
<1> HIDE DEF inner
<1>6. FilePos \in Nat
  BY FilePosIs DEF CacheInv
<1>7. ReadsOnly /\ c'.fileInner = inner
  BY <1>2, <1>3, <1>6, ReadsOnlyIs
<1> QED BY <1>1, <1>3, <1>4, <1>5, <1>7, BackToTop, TaskReads

LEMMA WriteReadsKeeps == ASSUME CacheInv, WriteReads PROVE CacheInv'
<1>1. /\ task.pc = "write"
      /\ UNCHANGED <<app, disk, saved, io, urgent, faithful, waits>> /\ astray' = astray
  BY DEF WriteReads, Wanting, TaskAt, theFile, theReader
<1>2. From \in Nat /\ FilePos \in Nat /\ Gap(c.fileLogical, FilePos) \in Int
  BY <1>1, FromIs, GapIs, CacheFields DEF CacheInv
<1>3. PICK n \in 1 .. Gap(c.fileLogical, FilePos) :
          /\ origin' = From + n
          /\ task' = [pc |-> "store", bytes |-> [i \in 1 .. n |-> From + i - 1]]
          /\ c' = [c EXCEPT !.fileLogical = FilePos, !.fileInner = FilePos + n]
  BY DEF WriteReads
<1>4. n \in Nat /\ n > 0
  BY <1>2, <1>3
<1> DEFINE bytes == [i \in 1 .. n |-> From + i - 1]
<1>5. bytes \in Seq(Nat) /\ Len(bytes) = n /\ \A i \in 1 .. n : bytes[i] = From + i - 1
  <2>1. \A i \in 1 .. n : From + i - 1 \in Nat
    BY <1>2, <1>4
  <2> QED BY <1>4, <2>1
<1>6. task' = [pc |-> "store", bytes |-> bytes]
  BY <1>3
<1> HIDE DEF bytes
<1>7. ~ TreeAstray' => From = FilePos
  BY <1>1, StaysAstray, FromIs
<1> DEFINE inner == FilePos + n
<1>8. c' = [c EXCEPT !.fileLogical = FilePos, !.fileInner = inner, !.fileEnd = c.fileEnd, !.eof = c.eof]
  BY <1>3 DEF CacheInv, CacheTypeOK, Contexts
<1>9. c.fileEnd \in Nat /\ c.eof \in BOOLEAN /\ inner \in Nat /\ From + n \in Nat /\ From + n # 0
  BY <1>2, <1>4, CacheFields DEF CacheInv
<1>10. ~ TreeAstray' => inner = origin'
  BY <1>3, <1>7
<1> HIDE DEF inner
<1>11. ~ TreeAstray' => \A i \in 1 .. Len(bytes) : bytes[i] = FilePos + i - 1
  BY <1>5, <1>7
<1>12. task'.bytes = bytes /\ origin' # 0 /\ origin' \in Nat /\ Len(bytes) > 0
  BY <1>3, <1>4, <1>5, <1>6, <1>9
<1>13. task' \in [pc : {"top", "store"}, bytes : Seq(Nat)]
  BY <1>5, <1>6
<1>14. ReadsOnly /\ c'.fileInner = inner /\ c'.fileLogical = FilePos
  BY <1>2, <1>8, <1>9, ReadsOnlyIs
<1>15. ~ TreeAstray' => \A i \in 1 .. Len(task'.bytes) : task'.bytes[i] = c'.fileLogical + i - 1
  BY <1>11, <1>12, <1>14
<1> QED BY <1>1, <1>10, <1>12, <1>13, <1>14, <1>15, TaskReads

-----------------------------------------------------------------------------
(***************************************************************************)
(* The file is written, and begun anew.                                    *)
(***************************************************************************)
\* A file without entries holds what any tree without entries says.
LEMMA FileEmptied ==
    ASSUME CacheTypeOK, SavedInv, app'.entries = {}, app'.last = 0,
           saved'.tree = saved.tree, saved'.stale = (saved.tree # NoTree)
    PROVE  FileInv' /\ SavedInv'
<1>1. CacheCapacity \in Nat
  BY CacheAssumption
<1>2. FileInv'
  BY <1>1, TreeIsNext DEF FileInv, Within
<1>3. ~ saved'.stale => saved'.tree.entries = {} /\ saved'.tree.last = 0
  <2>1. ~ saved'.stale => saved'.tree = NoTree
    BY Zenon
  <2>2. NoTree.entries = {} /\ NoTree.last = 0
    BY DEF NoTree
  <2> QED BY <2>1, <2>2, Zenon
<1>4. SavedInv'
  BY <1>3 DEF SavedInv
<1> QED BY <1>2, <1>4

\* Bytes after the end leave what was saved true.
LEMMA SavedStays ==
    ASSUME CacheTypeOK, SavedInv, saved'.tree = saved.tree, saved.stale => saved'.stale,
           ~ saved'.stale => /\ saved.tree.last <= app'.last
                             /\ \A p \in 0 .. saved.tree.last - 1 : disk'.bytes[p] = disk.bytes[p]
    PROVE  SavedInv'
<1>1. saved.tree.entries \subseteq Entries /\ saved.tree.last \in Nat
  BY CacheFields
<1>2. ASSUME ~ saved'.stale, NEW e \in saved.tree.entries
      PROVE  IsTrue(e, disk'.bytes)
  <2>1. IsTrue(e, disk.bytes) /\ e.physical + e.size <= saved.tree.last
    BY <1>2 DEF SavedInv, Within
  <2> QED BY <1>1, <1>2, <2>1, TrueStays
<1>3. ~ saved'.stale => \A e \in saved'.tree.entries : IsTrue(e, disk'.bytes)
  BY <1>2
<1>4. /\ saved'.tree.last <= CacheCapacity /\ Within(saved'.tree.entries, saved'.tree.last)
      /\ saved'.tree.entries = {} => saved'.tree.last = 0
  BY DEF SavedInv
<1> QED BY <1>3, <1>4 DEF SavedInv

LEMMA MadeAnewIs ==
    ASSUME CacheInv, MadeAnew
    PROVE  /\ app' = [app EXCEPT !.entries = {}, !.last = 0]
           /\ saved' = [saved EXCEPT !.stale = saved.tree # NoTree] /\ disk' = EmptyFile
           /\ \E gone \in BOOLEAN :
                 c' = [c EXCEPT !.cachePhysical = 0, !.fileInner = 0, !.eof = FALSE,
                                !.fileLogical = c.readPos, !.retry = 0, !.closed = gone]
           /\ astray \subseteq astray'
           /\ c'.closed => "closed" \in astray'
           /\ origin # 0 => TreeAstray'
<1>1. PICK gone \in BOOLEAN :
          /\ c' = [c EXCEPT !.cachePhysical = 0, !.fileInner = 0, !.eof = FALSE,
                            !.fileLogical = c.readPos, !.retry = 0, !.closed = gone]
          /\ astray' = astray \cup (IF gone THEN {"closed"} ELSE {})
                              \cup (IF origin # 0 THEN {"inner position"} ELSE {})
  BY Zenon DEF MadeAnew
<1>2. astray \subseteq astray' /\ (gone => "closed" \in astray') /\ (origin # 0 => TreeAstray')
  BY <1>1, Zenon DEF TreeAstray
<1> DEFINE stray == "inner position"
<1>3. astray' = astray \cup (IF gone THEN {"closed"} ELSE {})
                       \cup (IF origin # 0 THEN {stray} ELSE {})
  BY <1>1, Zenon
<1> HIDE DEF stray
<1>4. \E g \in BOOLEAN : c' = [c EXCEPT !.cachePhysical = 0, !.fileInner = 0, !.eof = FALSE,
                                        !.fileLogical = c.readPos, !.retry = 0, !.closed = g]
  BY <1>1, Zenon
<1>5. c' = [c EXCEPT !.cachePhysical = 0, !.fileInner = 0, !.eof = FALSE,
                     !.fileLogical = c.readPos, !.retry = 0, !.closed = gone]
  BY <1>1, Zenon
<1>6. c'.closed = gone
  BY <1>5 DEF CacheInv, CacheTypeOK, Contexts
<1>7. /\ app' = [app EXCEPT !.entries = {}, !.last = 0]
      /\ saved' = [saved EXCEPT !.stale = saved.tree # NoTree] /\ disk' = EmptyFile
  BY Zenon DEF MadeAnew, Forgotten
<1> QED BY <1>2, <1>4, <1>6, <1>7, Zenon

\* The new file, and the places in it.
AnewStays ==
    /\ c' \in Contexts /\ c'.forwards = c.forwards /\ c'.paused = c.paused /\ c'.abort = c.abort
    /\ c'.readPos = c.readPos /\ c'.seekRequest = c.seekRequest /\ c'.seekPos = c.seekPos
    /\ c'.seekDone = c.seekDone /\ c'.readInner = c.readInner

LEMMA EmptyFileIs == EmptyFile \in [bytes : [0 .. CacheCapacity - 1 -> Int], at : Nat] /\ EmptyFile.at = 0
  BY DEF EmptyFile

LEMMA MadeAnewKeeps ==
    ASSUME CacheInv, MadeAnew
    PROVE  /\ AnewStays /\ c'.cachePhysical = 0 /\ c'.fileInner = 0 /\ c'.eof = FALSE
           /\ app' \in [entries : SUBSET Entries, last : Nat, shared : BOOLEAN] /\ app'.last = 0
           /\ saved' \in [tree : [entries : SUBSET Entries, last : Nat], stale : BOOLEAN]
           /\ disk' \in [bytes : [0 .. CacheCapacity - 1 -> Int], at : Nat]
           /\ FileInv' /\ SavedInv'
<1>1. CacheTypeOK /\ SavedInv /\ c \in Contexts
  BY DEF CacheInv, CacheTypeOK
<1>2. app' = [app EXCEPT !.entries = {}, !.last = 0]
  BY MadeAnewIs
<1>3. app' \in [entries : SUBSET Entries, last : Nat, shared : BOOLEAN] /\ app'.last = 0 /\ app'.entries = {}
  BY <1>1, <1>2 DEF CacheTypeOK
<1>4. saved' = [saved EXCEPT !.stale = saved.tree # NoTree]
  BY MadeAnewIs
<1>5. /\ saved' \in [tree : [entries : SUBSET Entries, last : Nat], stale : BOOLEAN]
      /\ saved'.tree = saved.tree /\ saved'.stale = (saved.tree # NoTree)
  BY <1>1, <1>4 DEF CacheTypeOK
<1>6. disk' \in [bytes : [0 .. CacheCapacity - 1 -> Int], at : Nat]
  BY MadeAnewIs, EmptyFileIs
<1>7. PICK gone \in BOOLEAN : c' = [c EXCEPT !.cachePhysical = 0, !.fileInner = 0, !.eof = FALSE,
                                             !.fileLogical = c.readPos, !.retry = 0, !.closed = gone]
  BY MadeAnewIs
<1>8. AnewStays /\ c'.cachePhysical = 0 /\ c'.fileInner = 0 /\ c'.eof = FALSE
  BY <1>1, <1>7, CacheFields DEF AnewStays, Contexts
<1>9. FileInv' /\ SavedInv'
  BY <1>1, <1>3, <1>5, FileEmptied
<1> QED BY <1>3, <1>5, <1>6, <1>8, <1>9

LEMMA StoreFailsKeeps == ASSUME CacheInv, StoreFails PROVE CacheInv'
<1>1. /\ task.pc = "store" /\ FileFails /\ UNCHANGED <<io, urgent, faithful, origin, waits>>
      /\ task' = [pc |-> IF c'.closed THEN "exit" ELSE "top", bytes |-> << >>]
  BY Zenon DEF StoreFails, TaskAt, theReader
<1>2. PICK pc \in {"exit", "top"} : task' = [pc |-> pc, bytes |-> << >>]
  BY <1>1, Zenon
<1>3. pc \in TaskPlaces /\ task'.pc = pc /\ task' \in [pc : TaskPlaces, bytes : Seq(Nat)]
  BY <1>2 DEF TaskPlaces
<1>4. Working /\ ~ Working' /\ task.pc # "gone" /\ c.forwards > 0
  BY <1>1, <1>2, TaskHasForwards DEF Working
<1>5. CASE MadeAnew
  <2>1. /\ AnewStays /\ c'.cachePhysical = 0 /\ c'.fileInner = 0
        /\ app' \in [entries : SUBSET Entries, last : Nat, shared : BOOLEAN] /\ app'.last = 0
        /\ saved' \in [tree : [entries : SUBSET Entries, last : Nat], stale : BOOLEAN]
        /\ disk' \in [bytes : [0 .. CacheCapacity - 1 -> Int], at : Nat]
        /\ FileInv' /\ SavedInv'
    BY <1>5, MadeAnewKeeps
  <2>2. /\ astray \subseteq astray' /\ (c'.closed => "closed" \in astray')
        /\ (origin # 0 => TreeAstray')
    BY <1>5, MadeAnewIs
  <2>3. CacheTypeOK'
    BY <1>1, <1>3, <2>1 DEF CacheInv, CacheTypeOK, AnewStays
  <2>4. OffsetInv'
    BY <1>4, <2>1 DEF OffsetInv, AnewStays
  <2>5. ClosedInv'
    BY <1>1, <1>3, <1>4, <2>1, <2>2 DEF CacheInv, ClosedInv, AnewStays
  <2>6. InnerInv'
    BY <1>1, <1>2, <1>3, <1>4, <2>1, <2>2 DEF InnerInv, AnewStays
  <2>7. PosInv'
    BY <1>1, <2>1, <2>2, PosStays DEF CacheInv, AnewStays
  <2> QED BY <2>1, <2>3, <2>4, <2>5, <2>6, <2>7 DEF CacheInv
<1>6. CASE c' = [c EXCEPT !.retry = @ + 1] /\ UNCHANGED <<theFile, astray>>
  <2>1. c \in Contexts /\ CacheTypeOK /\ PosInv
    BY DEF CacheInv, CacheTypeOK
  <2>2. /\ c' \in Contexts /\ c'.forwards = c.forwards /\ c'.cachePhysical = c.cachePhysical
        /\ c'.closed = c.closed /\ c'.fileInner = c.fileInner /\ c'.readInner = c.readInner
        /\ c'.paused = c.paused /\ c'.readPos = c.readPos /\ c'.seekRequest = c.seekRequest
        /\ c'.seekPos = c.seekPos /\ c'.seekDone = c.seekDone /\ c'.abort = c.abort
    BY <1>6, <2>1 DEF Contexts
  <2>3. UNCHANGED <<app, disk, saved>> /\ astray' = astray
    BY <1>6 DEF theFile
  <2>4. PosInv'
    BY <1>1, <2>1, <2>2, <2>3, PosStays
  <2>5. CacheTypeOK'
    BY <1>1, <1>2, <1>3, <2>1, <2>2, <2>3, TaskStepType
  <2> QED BY <1>1, <1>2, <1>3, <1>4, <2>2, <2>3, <2>4, <2>5, TaskMoves
<1> QED BY <1>1, <1>5, <1>6, Zenon DEF FileFails

LEMMA StoreGivesUpKeeps == ASSUME CacheInv, StoreGivesUp PROVE CacheInv'
<1>1. /\ task.pc = "store" /\ task' = [pc |-> "exit", bytes |-> << >>]
      /\ c' = [c EXCEPT !.closed = TRUE] /\ astray' = astray \cup {"closed"}
      /\ UNCHANGED <<app, disk, saved, io, urgent, faithful, origin, waits>>
  BY DEF StoreGivesUp, TaskAt, theFile, theReader
<1>2. task'.pc = "exit" /\ task' \in [pc : TaskPlaces, bytes : Seq(Nat)]
  BY <1>1 DEF TaskPlaces
<1>3. Working /\ ~ Working' /\ c.forwards > 0
  BY <1>1, <1>2, TaskHasForwards DEF Working
<1>4. c \in Contexts /\ CacheTypeOK /\ PosInv
  BY DEF CacheInv, CacheTypeOK
<1>5. /\ c' \in Contexts /\ c'.forwards = c.forwards /\ c'.cachePhysical = c.cachePhysical
      /\ c'.closed /\ c'.fileInner = c.fileInner /\ c'.readInner = c.readInner
      /\ c'.paused = c.paused /\ c'.readPos = c.readPos /\ c'.seekRequest = c.seekRequest
      /\ c'.seekPos = c.seekPos /\ c'.seekDone = c.seekDone /\ c'.abort = c.abort
  BY <1>1, <1>4 DEF Contexts
<1>6. CacheTypeOK'
  BY <1>1, <1>2, <1>4, <1>5 DEF CacheTypeOK
<1>7. PosInv'
  BY <1>1, <1>4, <1>5, PosStays
<1>8. FileInv' /\ SavedInv'
  BY <1>1, FileStays DEF CacheInv
<1>9. OffsetInv'
  BY <1>1, <1>5 DEF CacheInv, OffsetInv
<1>10. ClosedInv'
  BY <1>1, <1>2, <1>3, <1>5 DEF CacheInv, ClosedInv
<1>11. InnerInv'
  BY <1>1, <1>2, <1>3, <1>5 DEF InnerInv
<1> QED BY <1>6, <1>7, <1>8, <1>9, <1>10, <1>11 DEF CacheInv

LEMMA StoreOverrunsKeeps == ASSUME CacheInv, StoreOverruns PROVE CacheInv'
<1>1. /\ task.pc = "store" /\ task' = [pc |-> "top", bytes |-> << >>] /\ Forgotten
      /\ c' = [c EXCEPT !.cachePhysical = 0, !.eof = FALSE, !.fileLogical = c.readPos]
      /\ disk' = [disk EXCEPT !.at = 0]
      /\ UNCHANGED <<io, urgent, faithful, origin, waits>> /\ astray' = astray
  BY DEF StoreOverruns, TaskAt, theReader
<1>2. task'.pc = "top" /\ task' \in [pc : TaskPlaces, bytes : Seq(Nat)]
  BY <1>1 DEF TaskPlaces
<1>3. Working /\ ~ Working' /\ c.forwards > 0
  BY <1>1, <1>2, TaskHasForwards DEF Working
<1>4. c \in Contexts /\ CacheTypeOK /\ PosInv /\ SavedInv
  BY DEF CacheInv, CacheTypeOK
<1>5. /\ c' \in Contexts /\ c'.forwards = c.forwards /\ c'.cachePhysical = 0
      /\ c'.closed = c.closed /\ c'.fileInner = c.fileInner /\ c'.readInner = c.readInner
      /\ c'.paused = c.paused /\ c'.readPos = c.readPos /\ c'.seekRequest = c.seekRequest
      /\ c'.seekPos = c.seekPos /\ c'.seekDone = c.seekDone /\ c'.abort = c.abort
  BY <1>1, <1>4, CacheFields DEF Contexts
<1>6. /\ app' \in [entries : SUBSET Entries, last : Nat, shared : BOOLEAN]
      /\ app'.last = 0 /\ app'.entries = {}
  <2>1. app' = [app EXCEPT !.entries = {}, !.last = 0]
    BY <1>1 DEF Forgotten
  <2> QED BY <1>4, <2>1 DEF CacheTypeOK
<1>7. /\ saved' \in [tree : [entries : SUBSET Entries, last : Nat], stale : BOOLEAN]
      /\ saved'.tree = saved.tree /\ saved'.stale = (saved.tree # NoTree)
  <2>1. saved' = [saved EXCEPT !.stale = saved.tree # NoTree]
    BY <1>1 DEF Forgotten
  <2> QED BY <1>4, <2>1 DEF CacheTypeOK
<1>8. disk' \in [bytes : [0 .. CacheCapacity - 1 -> Int], at : Nat]
  BY <1>1, <1>4 DEF CacheTypeOK
<1>9. CacheTypeOK'
  BY <1>1, <1>2, <1>4, <1>5, <1>6, <1>7, <1>8 DEF CacheTypeOK
<1>10. PosInv'
  BY <1>1, <1>4, <1>5, PosStays
<1>11. FileInv' /\ SavedInv'
  BY <1>4, <1>6, <1>7, FileEmptied
<1>12. OffsetInv'
  BY <1>3, <1>5, <1>6 DEF OffsetInv
<1>13. ClosedInv'
  BY <1>1, <1>2, <1>3, <1>5 DEF CacheInv, ClosedInv
<1>14. InnerInv'
  <2>1. TreeAstray' = TreeAstray
    BY <1>1 DEF TreeAstray
  <2> QED BY <1>1, <1>2, <1>3, <1>5, <2>1 DEF CacheInv, InnerInv
<1> QED BY <1>9, <1>10, <1>11, <1>12, <1>13, <1>14 DEF CacheInv

\* The tree with n bytes more.
LEMMA FiledIs ==
    ASSUME CacheTypeOK, NEW pos \in Nat, NEW n
    PROVE  \/ Filed(pos, n) = app.entries \cup {NewEntry(pos, app.last, n)}
           \/ \E near \in app.entries :
                /\ near.logical + near.size = pos /\ near.physical + near.size = app.last
                /\ Filed(pos, n) = (app.entries \ {near}) \cup {Longer(near, n)}
<1> DEFINE near == Nearest(pos)
<1>1. CASE /\ UpTo(pos) # {}
           /\ near.logical + near.size = pos /\ near.physical + near.size = app.last
  <2>1. near \in app.entries
    BY <1>1, NearestIs
  <2>2. Filed(pos, n) = (app.entries \ {near}) \cup {Longer(near, n)}
    BY <1>1, Zenon DEF Filed, Longer
  <2> HIDE DEF near
  <2> QED BY <1>1, <2>1, <2>2
<1>2. CASE ~ (/\ UpTo(pos) # {}
              /\ near.logical + near.size = pos /\ near.physical + near.size = app.last)
  BY <1>2, Zenon DEF Filed, NewEntry
<1> QED BY <1>1, <1>2

\* Bytes of position pos, if anything is true of them, go to the end of the file.
LEMMA FileGrows ==
    ASSUME CacheTypeOK, FileInv, SavedInv, NEW pos \in Nat, NEW bytes \in Seq(Nat),
           app.last + Len(bytes) < CacheCapacity, disk' = Written(app.last, bytes),
           app' = [app EXCEPT !.last = @ + Len(bytes), !.entries = Filed(pos, Len(bytes))],
           saved' = saved, astray' = astray,
           ~ TreeAstray => \A i \in 1 .. Len(bytes) : bytes[i] = pos + i - 1
    PROVE  /\ FileInv' /\ SavedInv'
           /\ app' \in [entries : SUBSET Entries, last : Nat, shared : BOOLEAN]
           /\ app'.last = app.last + Len(bytes)
           /\ disk' \in [bytes : [0 .. CacheCapacity - 1 -> Int], at : Nat]
           /\ disk'.at = app.last + Len(bytes)
<1> DEFINE n == Len(bytes)
<1>1. n \in Nat /\ app.last \in Nat /\ app.entries \in SUBSET Entries /\ CacheCapacity \in Nat
  <2>1. n \in Nat
    OBVIOUS
  <2>2. app.last \in Nat /\ app.entries \in SUBSET Entries
    BY CacheFields
  <2> QED BY <2>1, <2>2, CapacityIs
<1>2. app.last + Len(bytes) <= CacheCapacity
  BY <1>1
<1>3. /\ disk' \in [bytes : [0 .. CacheCapacity - 1 -> Int], at : Nat]
      /\ disk'.at = app.last + n
      /\ \A p \in 0 .. app.last - 1 : disk'.bytes[p] = disk.bytes[p]
      /\ \A i \in 0 .. n - 1 : disk'.bytes[app.last + i] = bytes[i + 1]
  BY <1>1, <1>2, WrittenIs
<1> DEFINE grown == Filed(pos, n)
<1>4. \/ grown = app.entries \cup {NewEntry(pos, app.last, n)}
      \/ \E near \in app.entries :
            /\ near.logical + near.size = pos /\ near.physical + near.size = app.last
            /\ grown = (app.entries \ {near}) \cup {Longer(near, n)}
  BY <1>1, FiledIs
<1>5. app' = [app EXCEPT !.last = @ + n, !.entries = grown]
  OBVIOUS
<1> HIDE DEF n, grown
<1>6. /\ grown \in SUBSET Entries /\ grown # {} /\ Within(grown, app.last + n)
      /\ (\A e \in app.entries : IsTrue(e, disk.bytes))
         /\ (\A i \in 0 .. n - 1 : disk'.bytes[app.last + i] = pos + i)
             => \A e \in grown : IsTrue(e, disk'.bytes)
  <2>1. Within(app.entries, app.last)
    BY DEF FileInv
  <2> DEFINE tree == app.entries
             end  == app.last
             b    == disk.bytes
             d    == disk'.bytes
  <2>2. /\ tree \in SUBSET Entries /\ end \in Nat /\ n \in Nat /\ Within(tree, end)
        /\ Below(end, b, d) /\ Grown(tree, end, pos, n, grown)
    BY <1>1, <1>3, <1>4, <2>1, Zenon DEF Below, Grown
  <2> HIDE DEF tree, end, b, d
  <2>3. GrownWell(tree, end, pos, n, b, d, grown)
    BY <2>2, TreeGrows
  <2> QED BY <2>3, Zenon DEF tree, end, b, d, GrownWell
<1>7. /\ app' \in [entries : SUBSET Entries, last : Nat, shared : BOOLEAN]
      /\ app'.last = app.last + n /\ app'.entries = grown
  <2>1. app \in [entries : SUBSET Entries, last : Nat, shared : BOOLEAN]
    BY DEF CacheTypeOK
  <2>2. app.last + n \in Nat
    BY <1>1
  <2> QED BY <1>5, <1>6, <2>1, <2>2
<1>8. ~ TreeAstray => \A i \in 0 .. n - 1 : disk'.bytes[app.last + i] = pos + i
  <2>1. SUFFICES ASSUME ~ TreeAstray, NEW i \in 0 .. n - 1
                 PROVE  disk'.bytes[app.last + i] = pos + i
    OBVIOUS
  <2>2. i + 1 \in 1 .. n /\ pos + (i + 1) - 1 = pos + i
    BY <1>1
  <2>3. bytes[i + 1] = pos + (i + 1) - 1
    BY <2>1, <2>2 DEF n
  <2> QED BY <1>3, <2>2, <2>3
<1>9. TreeIsTrue'
  <2>1. ~ TreeAstray' => ~ TreeAstray
    BY StaysAstray
  <2> QED BY <1>6, <1>7, <1>8, <2>1, TreeIs, TreeIsNext DEF FileInv
<1>10. app.last + n <= CacheCapacity
  BY <1>2 DEF n
<1>11. FileInv'
  BY <1>6, <1>7, <1>9, <1>10 DEF FileInv
<1>12. SavedInv'
  <2>1. saved.tree.last \in Nat
    BY CacheFields
  <2>2. ~ saved.stale => saved.tree.last <= app.last
    BY DEF SavedInv
  <2>3. ~ saved.stale => /\ saved.tree.last <= app.last + n
                         /\ \A p \in 0 .. saved.tree.last - 1 : p \in 0 .. app.last - 1
    BY <1>1, <2>1, <2>2
  <2>4. ~ saved.stale => /\ saved.tree.last <= app'.last
                         /\ \A p \in 0 .. saved.tree.last - 1 : disk'.bytes[p] = disk.bytes[p]
    BY <1>3, <1>7, <2>3
  <2> QED BY <2>4, SavedStays
<1> QED BY <1>3, <1>7, <1>11, <1>12 DEF n

LEMMA StoreKeeps == ASSUME CacheInv, Store PROVE CacheInv'
<1>1. /\ task.pc = "store" /\ ~ Full /\ task' = [pc |-> "stored", bytes |-> << >>]
      /\ UNCHANGED <<saved, io, urgent, faithful, origin, waits>> /\ astray' = astray
  BY DEF Store, TaskAt, theReader
<1>2. PICK n \in 1 .. Len(task.bytes) :
          /\ disk' = Written(app.last, SubSeq(task.bytes, 1, n))
          /\ app' = [app EXCEPT !.last = @ + n, !.entries = Filed(c.fileLogical, n)]
          /\ c' = [c EXCEPT !.cachePhysical = app.last + n, !.retry = 0, !.fileLogical = @ + n]
  BY DEF Store
<1>3. CacheTypeOK /\ FileInv /\ SavedInv /\ PosInv /\ InnerInv /\ c \in Contexts
  BY DEF CacheInv, CacheTypeOK
<1>4. task.bytes \in Seq(Nat) /\ Len(task.bytes) \in Nat /\ n \in Nat /\ c.fileLogical \in Nat /\ app.last \in Nat
  <2>1. task.bytes \in Seq(Nat) /\ c.fileLogical \in Nat /\ app.last \in Nat
    BY <1>3, CacheFields
  <2>2. Len(task.bytes) \in Nat
    BY <2>1
  <2> QED BY <1>2, <2>1, <2>2
<1> DEFINE bytes == SubSeq(task.bytes, 1, n)
<1>5. bytes \in Seq(Nat) /\ Len(bytes) = n /\ \A i \in 1 .. n : bytes[i] = task.bytes[i]
  BY <1>2, <1>4
<1>6. ~ TreeAstray => \A i \in 1 .. Len(bytes) : bytes[i] = c.fileLogical + i - 1
  BY <1>1, <1>2, <1>3, <1>4, <1>5 DEF InnerInv
<1>7. app.last + Len(bytes) < CacheCapacity
  BY <1>1, <1>2, <1>4, <1>5, CapacityIs DEF Full
<1>8. disk' = Written(app.last, bytes)
  BY <1>2
<1> HIDE DEF bytes
<1>9. app' = [app EXCEPT !.last = @ + Len(bytes), !.entries = Filed(c.fileLogical, Len(bytes))]
  BY <1>2, <1>5
<1>10. /\ FileInv' /\ SavedInv'
       /\ app' \in [entries : SUBSET Entries, last : Nat, shared : BOOLEAN]
       /\ app'.last = app.last + n
       /\ disk' \in [bytes : [0 .. CacheCapacity - 1 -> Int], at : Nat]
  BY <1>1, <1>3, <1>4, <1>5, <1>6, <1>7, <1>8, <1>9, FileGrows
<1>20. app.last + n \in Nat /\ c.fileLogical + n \in Nat
  BY <1>4
<1>11. /\ c' \in Contexts /\ c'.forwards = c.forwards /\ c'.cachePhysical = app.last + n
       /\ c'.closed = c.closed /\ c'.fileInner = c.fileInner /\ c'.readInner = c.readInner
       /\ c'.paused = c.paused /\ c'.readPos = c.readPos /\ c'.seekRequest = c.seekRequest
       /\ c'.seekPos = c.seekPos /\ c'.seekDone = c.seekDone /\ c'.abort = c.abort
  BY <1>2, <1>3, <1>20 DEF Contexts
<1>12. task'.pc = "stored" /\ task' \in [pc : TaskPlaces, bytes : Seq(Nat)]
  BY <1>1 DEF TaskPlaces
<1>13. Working /\ c.forwards > 0
  BY <1>1, TaskHasForwards DEF Working
<1>14. CacheTypeOK'
  BY <1>1, <1>3, <1>10, <1>11, <1>12 DEF CacheTypeOK
<1>15. PosInv'
  BY <1>1, <1>3, <1>11, PosStays
<1>16. OffsetInv'
  BY <1>10, <1>11, <1>13 DEF OffsetInv
<1>17. ClosedInv'
  BY <1>1, <1>11, <1>13 DEF CacheInv, ClosedInv
<1>18. InnerInv'
  <2>1. TreeAstray' = TreeAstray
    BY <1>1 DEF TreeAstray
  <2> QED BY <1>1, <1>3, <1>11, <1>12, <1>13, <2>1 DEF InnerInv
<1> QED BY <1>10, <1>14, <1>15, <1>16, <1>17, <1>18 DEF CacheInv

-----------------------------------------------------------------------------
(***************************************************************************)
(* The steps of the reader that leave the file alone.                      *)
(***************************************************************************)
\* The places the context knows.
SamePlaces ==
    /\ c' \in Contexts /\ c'.forwards = c.forwards /\ c'.cachePhysical = c.cachePhysical
    /\ c'.closed = c.closed /\ c'.fileInner = c.fileInner /\ c'.readInner = c.readInner
    /\ c'.fileLogical = c.fileLogical /\ c'.readPos = c.readPos
    /\ c'.seekRequest = c.seekRequest /\ c'.seekPos = c.seekPos /\ c'.seekDone = c.seekDone

Calling == [op : CallNames, left : Nat, got : Nat, at : Nat, calls : Nat]

LEMMA ReaderMoves ==
    ASSUME CacheInv, UNCHANGED <<app, disk, saved, origin, task>>, astray' = astray,
           SamePlaces, io' \in Calling, urgent' \in BOOLEAN, faithful' = faithful, PosInv',
           c.closed /\ Working => io'.op = "read" /\ "main" \in waits',
           io'.op = "direct" => io.op = "direct"
    PROVE  CacheInv'
<1>1. /\ c' \in Contexts /\ c'.forwards = c.forwards /\ c'.cachePhysical = c.cachePhysical
      /\ c'.closed = c.closed /\ c'.fileInner = c.fileInner /\ c'.readInner = c.readInner
      /\ c'.fileLogical = c.fileLogical
  BY DEF SamePlaces
<1>2. CacheTypeOK'
  BY <1>1 DEF CacheInv, CacheTypeOK, Calling
<1>3. FileInv' /\ SavedInv'
  BY FileStays DEF CacheInv
<1>4. OffsetInv'
  BY <1>1 DEF CacheInv, OffsetInv
<1>5. Working' = Working
  BY DEF Working
<1>6. ClosedInv'
  BY <1>1, <1>5 DEF CacheInv, ClosedInv
<1>7. TreeAstray' = TreeAstray
  BY DEF TreeAstray
<1>8. InnerInv'
  BY <1>1, <1>5, <1>7 DEF CacheInv, InnerInv
<1> QED BY <1>2, <1>3, <1>4, <1>6, <1>8 DEF CacheInv

LEMMA SamePlacesIs ==
    ASSUME CacheInv, NEW abort \in BOOLEAN, NEW eof \in BOOLEAN, NEW paused \in BOOLEAN,
           c' = [c EXCEPT !.abort = abort, !.eof = eof, !.paused = paused]
    PROVE  SamePlaces /\ c'.abort = abort /\ c'.paused = paused
<1>1. c \in Contexts
  BY DEF CacheInv, CacheTypeOK
<1> DEFINE d == [c EXCEPT !.abort = abort]
           e == [d EXCEPT !.eof = eof]
<1>a. d \in Contexts /\ c' = [d EXCEPT !.eof = eof, !.paused = paused]
  BY <1>1 DEF Contexts
<1>b. e \in Contexts /\ c' = [e EXCEPT !.paused = paused]
  <2> HIDE DEF d
  <2> QED BY <1>a DEF Contexts
<1>2. c' \in Contexts
  <2> HIDE DEF d, e
  <2> QED BY <1>b DEF Contexts
<1>3. c'.abort = abort /\ c'.paused = paused
  BY <1>1 DEF Contexts
<1> QED BY <1>1, <1>2, <1>3 DEF Contexts, SamePlaces

LEMMA Unmoved == ASSUME CacheInv, c' = c PROVE SamePlaces /\ c'.abort = c.abort /\ c'.paused = c.paused
  BY DEF CacheInv, CacheTypeOK, SamePlaces

LEMMA ReturnsIs ==
    ASSUME CacheInv, CacheReturns
    PROVE  io' \in Calling /\ io'.op = "none" /\ io'.left = 0 /\ io'.at = io.at
<1>1. io \in Calling /\ "none" \in CallNames
  BY DEF CacheInv, CacheTypeOK, Calling, CallNames
<1> QED BY <1>1 DEF CacheReturns, Calling

LEMMA CacheReadInterruptedKeeps == ASSUME CacheInv, CacheReadInterrupted PROVE CacheInv'
<1>1. /\ io.op = "read" /\ "main" \notin waits /\ (c.abort \/ urgent) /\ CacheReturns
      /\ UNCHANGED <<app, disk, saved, origin, task, urgent, faithful>> /\ astray' = astray
      /\ c' = [c EXCEPT !.abort = TRUE]
  BY DEF CacheReadInterrupted, Reading, Awake, MustStop, theFile
<1>2. c' = [c EXCEPT !.abort = TRUE, !.eof = c.eof, !.paused = c.paused]
  BY <1>1 DEF CacheInv, CacheTypeOK, Contexts
<1>3. c.eof \in BOOLEAN /\ c.paused \in BOOLEAN
  BY CacheFields DEF CacheInv
<1>4. SamePlaces /\ c'.paused = c.paused
  BY <1>2, <1>3, SamePlacesIs
<1>5. io' \in Calling /\ io'.op = "none" /\ io'.left = 0 /\ io'.at = io.at
  BY <1>1, ReturnsIs
<1>6. urgent /\ urgent' \in BOOLEAN
  BY <1>1 DEF CacheInv, PosInv, CacheTypeOK
<1>7. PosInv'
  BY <1>1, <1>4, <1>5, <1>6, CapacityIs DEF CacheInv, PosInv, SamePlaces, ReadsAreTrue
<1>8. ~ (c.closed /\ Working)
  BY <1>1 DEF CacheInv, ClosedInv
<1> QED BY <1>1, <1>4, <1>5, <1>6, <1>7, <1>8, ReaderMoves

LEMMA ReadFindsNothingKeeps == ASSUME CacheInv, ReadFindsNothing PROVE CacheInv'
<1>1. /\ io.op = "read" /\ ~ c.closed /\ UNCHANGED <<app, disk, saved, origin, task, urgent, faithful>>
      /\ astray' = astray /\ c' = c /\ (io' = io \/ CacheReturns)
  BY DEF ReadFindsNothing, ReadEndsOrWaits, Reading, Awake, MustStop, theFile
<1>2. io \in Calling /\ urgent' \in BOOLEAN
  BY <1>1 DEF CacheInv, CacheTypeOK, Calling
<1>3. /\ io' \in Calling /\ io'.at = io.at /\ io'.left <= CacheChunk /\ io'.op \in {"none", "read"}
  BY <1>1, <1>2, ReturnsIs, CapacityIs DEF CacheInv, PosInv
<1>4. PosInv'
  BY <1>1, <1>3 DEF CacheInv, PosInv, ReadsAreTrue
<1> QED BY <1>1, <1>2, <1>3, <1>4, Unmoved, ReaderMoves

LEMMA CacheSeekInterruptedKeeps == ASSUME CacheInv, CacheSeekInterrupted PROVE CacheInv'
<1>1. /\ io.op = "seek" /\ "main" \notin waits /\ (c.abort \/ urgent) /\ CacheReturns
      /\ UNCHANGED <<app, disk, saved, origin, task, urgent, faithful>> /\ astray' = astray
      /\ c' = [c EXCEPT !.abort = TRUE]
  BY DEF CacheSeekInterrupted, Seeking, Awake, MustStop, theFile
<1>2. c' = [c EXCEPT !.abort = TRUE, !.eof = c.eof, !.paused = c.paused]
  BY <1>1 DEF CacheInv, CacheTypeOK, Contexts
<1>3. c.eof \in BOOLEAN /\ c.paused \in BOOLEAN
  BY CacheFields DEF CacheInv
<1>4. SamePlaces /\ c'.paused = c.paused
  BY <1>2, <1>3, SamePlacesIs
<1>5. io' \in Calling /\ io'.op = "none" /\ io'.left = 0 /\ io'.at = io.at
  BY <1>1, ReturnsIs
<1>6. urgent /\ urgent' \in BOOLEAN
  BY <1>1 DEF CacheInv, PosInv, CacheTypeOK
<1>7. PosInv'
  BY <1>1, <1>4, <1>5, <1>6, CapacityIs DEF CacheInv, PosInv, SamePlaces, ReadsAreTrue
<1>8. ~ (c.closed /\ Working)
  BY <1>1 DEF CacheInv, ClosedInv
<1> QED BY <1>1, <1>4, <1>5, <1>6, <1>7, <1>8, ReaderMoves

LEMMA CacheSeekEndsKeeps == ASSUME CacheInv, CacheSeekEnds PROVE CacheInv'
<1>1. /\ io.op = "seek" /\ ~ c.abort /\ ~ urgent /\ c.seekDone
      /\ io' = [io EXCEPT !.op = "none", !.at = c.seekPos]
      /\ UNCHANGED <<app, disk, saved, origin, task, urgent, faithful>> /\ astray' = astray /\ c' = c
  BY DEF CacheSeekEnds, Seeking, MustStop, theFile
<1>2. io \in Calling /\ "none" \in CallNames /\ urgent' \in BOOLEAN /\ c.seekPos \in Nat
  BY <1>1, CacheFields DEF CacheInv, CacheTypeOK, Calling, CallNames
<1>3. io' \in Calling /\ io'.op = "none" /\ io'.left = io.left /\ io'.at = c.seekPos
  BY <1>1, <1>2 DEF Calling
<1>4. PosInv'
  BY <1>1, <1>3 DEF CacheInv, PosInv, ReadsAreTrue
<1>5. ~ (c.closed /\ Working)
  BY <1>1 DEF CacheInv, ClosedInv
<1> QED BY <1>1, <1>2, <1>3, <1>4, <1>5, Unmoved, ReaderMoves

LEMMA CacheSeekWaitsKeeps == ASSUME CacheInv, CacheSeekWaits PROVE CacheInv'
<1>1. /\ io.op = "seek" /\ UNCHANGED <<app, disk, saved, origin, task, urgent, faithful, io>>
      /\ astray' = astray /\ c' = c
  BY DEF CacheSeekWaits, Seeking, theFile, theReader
<1>2. io' \in Calling /\ urgent' \in BOOLEAN /\ io'.op # "direct"
  BY <1>1 DEF CacheInv, CacheTypeOK, Calling
<1>3. PosInv'
  BY <1>1, PosStays DEF CacheInv
<1>4. ~ (c.closed /\ Working)
  BY <1>1 DEF CacheInv, ClosedInv
<1> QED BY <1>1, <1>2, <1>3, <1>4, Unmoved, ReaderMoves

LEMMA EndsKeeps == ASSUME CacheInv, NEW op \in {"pause", "close"}, Ends(op) PROVE CacheInv'
<1>1. /\ io.op = "none" /\ ~ c.paused /\ UNCHANGED <<app, disk, saved, origin, task, urgent, faithful>>
      /\ astray' = astray /\ c' = [c EXCEPT !.abort = TRUE]
      /\ io' = [io EXCEPT !.op = op, !.left = 0, !.got = 0, !.calls = @ + 1]
  BY DEF Ends, CacheIdle, Calls, theFile
<1>2. c' = [c EXCEPT !.abort = TRUE, !.eof = c.eof, !.paused = c.paused]
  BY <1>1 DEF CacheInv, CacheTypeOK, Contexts
<1>3. c.eof \in BOOLEAN /\ c.paused \in BOOLEAN /\ io.calls + 1 \in Nat
  <2>1. c.eof \in BOOLEAN /\ c.paused \in BOOLEAN /\ io.calls \in Nat
    BY CacheFields DEF CacheInv
  <2> QED BY <2>1
<1>4. SamePlaces /\ c'.paused = c.paused
  BY <1>2, <1>3, SamePlacesIs
<1>5. io \in Calling /\ op \in CallNames
  BY DEF CacheInv, CacheTypeOK, Calling, CallNames
<1>6. io' \in Calling /\ io'.op = op /\ io'.left = 0 /\ io'.at = io.at
  BY <1>1, <1>3, <1>5 DEF Calling
<1>7. urgent' \in BOOLEAN
  BY <1>1 DEF CacheInv, CacheTypeOK
<1>8. PosInv'
  BY <1>1, <1>4, <1>6, CapacityIs DEF CacheInv, PosInv, SamePlaces, ReadsAreTrue
<1>9. ~ (c.closed /\ Working)
  BY <1>1 DEF CacheInv, ClosedInv
<1> QED BY <1>1, <1>4, <1>6, <1>7, <1>8, <1>9, ReaderMoves

LEMMA PauseEndsKeeps == ASSUME CacheInv, PauseEnds PROVE CacheInv'
<1>1. /\ io.op = "pause" /\ UNCHANGED <<app, disk, saved, origin, task, urgent, faithful>>
      /\ astray' = astray /\ c' = [c EXCEPT !.paused = TRUE] /\ CacheReturns
  BY DEF PauseEnds, theFile
<1>2. c' = [c EXCEPT !.abort = c.abort, !.eof = c.eof, !.paused = TRUE]
  BY <1>1 DEF CacheInv, CacheTypeOK, Contexts
<1>3. c.eof \in BOOLEAN /\ c.abort \in BOOLEAN
  BY CacheFields DEF CacheInv
<1>4. SamePlaces /\ c'.paused = TRUE
  BY <1>2, <1>3, SamePlacesIs
<1>5. io' \in Calling /\ io'.op = "none" /\ io'.left = 0 /\ io'.at = io.at
  BY <1>1, ReturnsIs
<1>6. urgent' \in BOOLEAN
  BY <1>1 DEF CacheInv, CacheTypeOK
<1>7. PosInv'
  BY <1>1, <1>4, <1>5, CapacityIs DEF CacheInv, PosInv, SamePlaces, ReadsAreTrue
<1>8. ~ (c.closed /\ Working)
  BY <1>1 DEF CacheInv, ClosedInv
<1> QED BY <1>1, <1>4, <1>5, <1>6, <1>7, <1>8, ReaderMoves

LEMMA SyncEndsKeeps == ASSUME CacheInv, SyncEnds PROVE CacheInv'
<1>1. /\ io.op = "read" /\ c.forwards = 0
      /\ UNCHANGED <<app, disk, saved, origin, task, urgent, faithful>>
      /\ astray' = astray /\ c' = [c EXCEPT !.eof = TRUE] /\ CacheReturns
  BY DEF SyncEnds, Alone, theFile
<1>2. c' = [c EXCEPT !.abort = c.abort, !.eof = TRUE, !.paused = c.paused]
  BY <1>1 DEF CacheInv, CacheTypeOK, Contexts
<1>3. c.paused \in BOOLEAN /\ c.abort \in BOOLEAN
  BY CacheFields DEF CacheInv
<1>4. SamePlaces /\ c'.paused = c.paused /\ c'.abort = c.abort
  BY <1>2, <1>3, SamePlacesIs
<1>5. io' \in Calling /\ io'.op = "none" /\ io'.left = 0 /\ io'.at = io.at
  BY <1>1, ReturnsIs
<1>6. urgent' \in BOOLEAN
  BY <1>1 DEF CacheInv, CacheTypeOK
<1>7. PosInv'
  BY <1>1, <1>4, <1>5, CapacityIs DEF CacheInv, PosInv, SamePlaces, ReadsAreTrue
<1>8. ~ (c.closed /\ Working)
  BY <1>1 DEF CacheInv, ClosedInv
<1> QED BY <1>1, <1>4, <1>5, <1>6, <1>7, <1>8, ReaderMoves

LEMMA CacheInterruptKeeps == ASSUME CacheInv, CacheInterrupt PROVE CacheInv'
<1>1. /\ UNCHANGED <<app, disk, saved, origin, task, waits, io>> /\ faithful' = faithful
      /\ urgent' = TRUE /\ astray' = astray /\ c' = c
  BY DEF CacheInterrupt, theFile
<1>2. io' \in Calling /\ urgent' \in BOOLEAN
  BY <1>1 DEF CacheInv, CacheTypeOK, Calling
<1>3. PosInv'
  BY <1>1 DEF CacheInv, PosInv, ReadsAreTrue
<1>4. c.closed /\ Working => io'.op = "read" /\ "main" \in waits'
  BY <1>1 DEF CacheInv, ClosedInv
<1> QED BY <1>1, <1>2, <1>3, <1>4, Unmoved, ReaderMoves

-----------------------------------------------------------------------------
(***************************************************************************)
(* The player ends, dies, shares its map; another comes.                   *)
(***************************************************************************)
\* The tree is saved as it is.
LEMMA TreeSaved ==
    ASSUME CacheInv, app'.entries = app.entries, app'.last = app.last, disk' = disk, astray' = astray,
           saved' = [tree |-> [entries |-> app.entries, last |-> app.last], stale |-> TreeAstray]
    PROVE  /\ saved' \in [tree : [entries : SUBSET Entries, last : Nat], stale : BOOLEAN]
           /\ FileInv' /\ SavedInv'
<1>1. app.entries \in SUBSET Entries /\ app.last \in Nat
  BY CacheFields DEF CacheInv
<1>2. TreeAstray \in BOOLEAN
  BY Zenon DEF TreeAstray
<1>3. saved'.tree.entries = app.entries /\ saved'.tree.last = app.last /\ saved'.stale = TreeAstray
  BY Zenon
<1>4. saved' \in [tree : [entries : SUBSET Entries, last : Nat], stale : BOOLEAN]
  BY <1>1, <1>2
<1>5. TreeAstray' = TreeAstray
  BY DEF TreeAstray
<1>6. TreeIsTrue'
  BY <1>5, TreeIs, TreeIsNext DEF CacheInv, FileInv
<1>7. FileInv'
  BY <1>6 DEF CacheInv, FileInv, Within
<1>8. ~ saved'.stale => \A e \in saved'.tree.entries : IsTrue(e, disk'.bytes)
  <2>1. ~ saved'.stale => ~ TreeAstray
    BY <1>3, Zenon
  <2> QED BY <1>3, <2>1, TreeIs DEF CacheInv, FileInv
<1>9. SavedInv'
  BY <1>1, <1>3, <1>8 DEF CacheInv, FileInv, SavedInv, Within
<1> QED BY <1>4, <1>7, <1>9

\* Where the code takes the file and the inner protocol to be.
LEMMA OffsetsStay ==
    ASSUME CacheInv, UNCHANGED <<c, disk, origin>>, astray' = astray, app'.last = app.last,
           task' = task \/ task' = NoTask
    PROVE  OffsetInv' /\ InnerInv'
<1>1. TreeAstray' = TreeAstray
  BY DEF TreeAstray
<1>2. OffsetInv'
  BY DEF CacheInv, OffsetInv
<1>3. CASE task' = task
  BY <1>1, <1>2, <1>3 DEF CacheInv, InnerInv, Working
<1>4. CASE task' = NoTask
  <2>1. task'.pc = "gone" /\ ~ Working'
    BY <1>4 DEF NoTask, Working
  <2> QED BY <1>1, <1>2, <2>1 DEF CacheInv, InnerInv
<1> QED BY <1>3, <1>4

LEMMA GoneIs ==
    ASSUME CacheInv, io' = [io EXCEPT !.op = "gone"], UNCHANGED <<c, urgent, faithful>>, astray' = astray
    PROVE  io' \in Calling /\ io'.op = "gone" /\ PosInv'
<1>1. io \in Calling /\ "gone" \in CallNames
  BY DEF CacheInv, CacheTypeOK, Calling, CallNames
<1>2. io' \in Calling /\ io'.op = "gone" /\ io'.left = io.left
  BY <1>1 DEF Calling
<1> QED BY <1>2 DEF CacheInv, PosInv, ReadsAreTrue

LEMMA CacheCloseEndsKeeps == ASSUME CacheInv, CacheCloseEnds PROVE CacheInv'
<1>1. /\ io.op = "close" /\ UNCHANGED <<c, app, disk, origin, task, urgent, faithful, waits>> /\ astray' = astray
      /\ io' = [io EXCEPT !.op = "gone"]
      /\ saved' = [tree |-> [entries |-> app.entries, last |-> app.last], stale |-> TreeAstray]
  BY DEF CacheCloseEnds
<1>2. io' \in Calling /\ io'.op = "gone" /\ PosInv'
  BY <1>1, GoneIs
<1>3. /\ saved' \in [tree : [entries : SUBSET Entries, last : Nat], stale : BOOLEAN]
      /\ FileInv' /\ SavedInv'
  BY <1>1, TreeSaved
<1>4. OffsetInv' /\ InnerInv'
  BY <1>1, OffsetsStay
<1>5. ClosedInv'
  BY <1>1, <1>2 DEF CacheInv, ClosedInv, Working
<1>6. CacheTypeOK'
  BY <1>1, <1>2, <1>3 DEF CacheInv, CacheTypeOK, Calling
<1> QED BY <1>2, <1>3, <1>4, <1>5, <1>6 DEF CacheInv

LEMMA ShareKeeps == ASSUME CacheInv, Share PROVE CacheInv'
<1>1. /\ UNCHANGED <<c, disk, io, urgent, faithful, origin, task, waits>> /\ astray' = astray
      /\ app' = [app EXCEPT !.shared = TRUE]
      /\ saved' = [tree |-> [entries |-> app.entries, last |-> app.last], stale |-> TreeAstray]
  BY DEF Share, theReader
<1>2. /\ app' \in [entries : SUBSET Entries, last : Nat, shared : BOOLEAN]
      /\ app'.entries = app.entries /\ app'.last = app.last
  BY <1>1 DEF CacheInv, CacheTypeOK
<1>3. /\ saved' \in [tree : [entries : SUBSET Entries, last : Nat], stale : BOOLEAN]
      /\ FileInv' /\ SavedInv'
  BY <1>1, <1>2, TreeSaved
<1>4. OffsetInv' /\ InnerInv'
  BY <1>1, <1>2, OffsetsStay
<1>5. ClosedInv'
  BY <1>1 DEF CacheInv, ClosedInv, Working
<1>6. CacheTypeOK'
  BY <1>1, <1>2, <1>3 DEF CacheInv, CacheTypeOK
<1>7. PosInv'
  BY <1>1, PosStays DEF CacheInv
<1> QED BY <1>3, <1>4, <1>5, <1>6, <1>7 DEF CacheInv

LEMMA UnshareKeeps == ASSUME CacheInv, Unshare PROVE CacheInv'
<1>1. /\ UNCHANGED <<c, disk, saved, io, urgent, faithful, origin, task, waits>> /\ astray' = astray
      /\ app' = [app EXCEPT !.shared = FALSE]
  BY DEF Unshare, theReader
<1>2. /\ app' \in [entries : SUBSET Entries, last : Nat, shared : BOOLEAN]
      /\ app'.entries = app.entries /\ app'.last = app.last
  BY <1>1 DEF CacheInv, CacheTypeOK
<1>3. FileInv' /\ SavedInv'
  BY <1>1, <1>2, FileStays DEF CacheInv
<1>4. OffsetInv' /\ InnerInv'
  BY <1>1, <1>2, OffsetsStay
<1>5. ClosedInv'
  BY <1>1 DEF CacheInv, ClosedInv, Working
<1>6. CacheTypeOK'
  BY <1>1, <1>2, <1>3 DEF CacheInv, CacheTypeOK
<1>7. PosInv'
  BY <1>1, PosStays DEF CacheInv
<1> QED BY <1>3, <1>4, <1>5, <1>6, <1>7 DEF CacheInv

LEMMA DieKeeps == ASSUME CacheInv, Die PROVE CacheInv'
<1>1. /\ UNCHANGED <<c, app, disk, saved, origin, urgent, faithful>> /\ astray' = astray
      /\ io' = [io EXCEPT !.op = "gone"] /\ task' = NoTask
  BY DEF Die, theFile
<1>2. io' \in Calling /\ io'.op = "gone" /\ PosInv'
  BY <1>1, GoneIs
<1>3. FileInv' /\ SavedInv'
  BY <1>1, FileStays DEF CacheInv
<1>4. OffsetInv' /\ InnerInv'
  BY <1>1, OffsetsStay
<1>5. task' \in [pc : TaskPlaces, bytes : Seq(Nat)] /\ task'.pc = "gone" /\ ~ Working'
  BY <1>1 DEF NoTask, TaskPlaces, Working
<1>6. ClosedInv'
  BY <1>1, <1>2, <1>5 DEF CacheInv, ClosedInv
<1>7. CacheTypeOK'
  BY <1>1, <1>2, <1>5 DEF CacheInv, CacheTypeOK, Calling
<1> QED BY <1>2, <1>3, <1>4, <1>6, <1>7 DEF CacheInv

LEMMA FreshIs ==
    ASSUME NEW forwards \in ForwardsOptions, NEW last \in Nat
    PROVE  /\ Fresh(forwards, last) \in Contexts
           /\ Fresh(forwards, last).forwards = forwards /\ Fresh(forwards, last).cachePhysical = last
           /\ Fresh(forwards, last).readPos = 0 /\ Fresh(forwards, last).readInner = 0
           /\ Fresh(forwards, last).fileInner = 0
           /\ ~ Fresh(forwards, last).closed /\ ~ Fresh(forwards, last).abort /\ ~ Fresh(forwards, last).paused
           /\ ~ Fresh(forwards, last).seekRequest /\ ~ Fresh(forwards, last).seekDone
           /\ StartTask(forwards) \in [pc : TaskPlaces, bytes : Seq(Nat)]
           /\ StartTask(forwards).pc \in {"top", "gone"}
           /\ forwards = 0 => StartTask(forwards).pc = "gone"
<1>1. forwards \in Nat /\ (forwards > 0) \in BOOLEAN
  BY CacheAssumption
<1>2. << >> \in Seq(Nat)
  OBVIOUS
<1>3. /\ StartTask(forwards) \in [pc : TaskPlaces, bytes : Seq(Nat)]
      /\ StartTask(forwards).pc \in {"top", "gone"}
      /\ forwards = 0 => StartTask(forwards).pc = "gone"
  BY <1>1, <1>2 DEF StartTask, NoTask, TaskPlaces
<1> QED BY <1>1, <1>3 DEF Fresh, Contexts

\* A new connection knows no more than where it begins.
LEMMA Begins ==
    ASSUME NEW forwards \in ForwardsOptions, NEW last \in Nat, c' = Fresh(forwards, last),
           task' = StartTask(forwards), origin' = 0, app'.last = last,
           forwards = 0 => disk'.at = last,
           io' \in Calling, io'.op = "none", io'.left = 0, io'.at = 0, faithful' = TRUE
    PROVE  OffsetInv' /\ ClosedInv' /\ InnerInv' /\ PosInv'
<1>1. /\ c'.forwards = forwards /\ c'.cachePhysical = last
      /\ c'.readPos = 0 /\ c'.readInner = 0 /\ c'.fileInner = 0
      /\ ~ c'.closed /\ ~ c'.abort /\ ~ c'.paused /\ ~ c'.seekRequest /\ ~ c'.seekDone
      /\ task'.pc \in {"top", "gone"} /\ (forwards = 0 => task'.pc = "gone")
  BY FreshIs
<1>2. OffsetInv'
  BY <1>1 DEF OffsetInv
<1>3. ClosedInv'
  BY <1>1 DEF ClosedInv
<1>4. InnerInv'
  BY <1>1 DEF InnerInv
<1>5. PosInv'
  BY <1>1, CapacityIs DEF PosInv, ReadsAreTrue
<1> QED BY <1>2, <1>3, <1>4, <1>5

LEMMA RestartKeeps == ASSUME CacheInv, Restart PROVE CacheInv'
<1>1. /\ app' = [entries |-> saved.tree.entries, last |-> saved.tree.last, shared |-> FALSE]
      /\ disk' = IF saved.tree.entries = {} THEN EmptyFile ELSE [disk EXCEPT !.at = saved.tree.last]
      /\ origin' = 0 /\ io' = [NoCall EXCEPT !.calls = io.calls]
      /\ urgent' = FALSE /\ faithful' = TRUE /\ saved' = saved
  BY Zenon DEF Restart
<1>2. PICK forwards \in ForwardsOptions :
          c' = Fresh(forwards, saved.tree.last) /\ task' = StartTask(forwards)
  BY Zenon DEF Restart
<1>3. ~ TreeAstray' => ~ saved.stale
  BY Zenon DEF Restart, TreeAstray
<1>4. saved.tree.entries \in SUBSET Entries /\ saved.tree.last \in Nat /\ io.calls \in Nat
  BY CacheFields DEF CacheInv
<1>5. /\ app' \in [entries : SUBSET Entries, last : Nat, shared : BOOLEAN]
      /\ app'.entries = saved.tree.entries /\ app'.last = saved.tree.last
  BY <1>1, <1>4
<1>6. /\ disk' \in [bytes : [0 .. CacheCapacity - 1 -> Int], at : Nat]
      /\ disk'.at = saved.tree.last
      /\ saved.tree.entries # {} => disk'.bytes = disk.bytes
  <2>1. CASE saved.tree.entries = {}
    BY <1>1, <2>1, EmptyFileIs DEF CacheInv, SavedInv
  <2>2. CASE saved.tree.entries # {}
    BY <1>1, <1>4, <2>2 DEF CacheInv, CacheTypeOK
  <2> QED BY <2>1, <2>2
<1>7. io' \in Calling /\ io'.op = "none" /\ io'.left = 0 /\ io'.at = 0
  BY <1>1, <1>4 DEF NoCall, Calling, CallNames
<1>8. OffsetInv' /\ ClosedInv' /\ InnerInv' /\ PosInv'
  BY <1>1, <1>2, <1>4, <1>5, <1>6, <1>7, Begins
<1>9. c' \in Contexts /\ c'.forwards \in ForwardsOptions /\ task' \in [pc : TaskPlaces, bytes : Seq(Nat)]
  BY <1>2, <1>4, FreshIs
<1>10. CacheTypeOK'
  BY <1>1, <1>5, <1>6, <1>7, <1>9 DEF CacheInv, CacheTypeOK, Calling
<1>11. ~ saved.stale => \A e \in saved.tree.entries : IsTrue(e, disk'.bytes)
  BY <1>6 DEF CacheInv, SavedInv
<1>12. TreeIsTrue'
  BY <1>3, <1>5, <1>11, TreeIsNext
<1>13. FileInv'
  BY <1>5, <1>12 DEF CacheInv, SavedInv, FileInv, Within
<1>14. SavedInv'
  BY <1>1, <1>4, <1>5, <1>11 DEF CacheInv, SavedInv, Within
<1> QED BY <1>8, <1>10, <1>13, <1>14 DEF CacheInv

-----------------------------------------------------------------------------
(***************************************************************************)
(* The calls of the reader.                                                *)
(***************************************************************************)
\* A connection that was paused goes on: with a forwards capacity at the end of the file.
LEMMA ResumeIs ==
    ASSUME CacheInv, io.op = "none", Resume
    PROVE  /\ Resumed \in Contexts /\ Resumed.forwards = c.forwards /\ Resumed.closed = c.closed
           /\ Resumed.fileInner = c.fileInner /\ Resumed.readInner = c.readInner
           /\ Resumed.fileLogical = c.fileLogical /\ Resumed.readPos = c.readPos
           /\ Resumed.seekRequest = c.seekRequest /\ Resumed.seekDone = c.seekDone
           /\ Resumed.seekPos = c.seekPos /\ ~ Resumed.paused /\ (Resumed.abort => urgent)
           /\ disk' \in [bytes : [0 .. CacheCapacity - 1 -> Int], at : Nat] /\ disk'.bytes = disk.bytes
           /\ task' \in [pc : TaskPlaces, bytes : Seq(Nat)]
           /\ \/ task' = task /\ disk' = disk /\ Resumed.cachePhysical = c.cachePhysical
              \/ /\ task'.pc \in {"top", "gone"} /\ c.forwards > 0 /\ ~ c.closed
                 /\ Resumed.cachePhysical = app.last
<1>1. /\ c \in Contexts /\ c.closed \in BOOLEAN /\ c.forwards \in ForwardsOptions /\ c.forwards \in Nat
      /\ app.last \in Nat
      /\ disk \in [bytes : [0 .. CacheCapacity - 1 -> Int], at : Nat]
      /\ task \in [pc : TaskPlaces, bytes : Seq(Nat)]
  BY CacheFields DEF CacheInv, CacheTypeOK
<1>2. CASE ~ c.paused
  <2>1. Resumed = c /\ disk' = disk /\ task' = task
    BY <1>2 DEF Resumed, Resume
  <2>2. c.abort => urgent
    BY <1>2 DEF CacheInv, PosInv
  <2> QED BY <1>1, <1>2, <2>1, <2>2
<1>3. CASE c.paused
  <2> DEFINE on == ~ c.closed /\ c.forwards > 0
  <2>1. Resumed = [c EXCEPT !.paused = FALSE, !.abort = FALSE, !.running = on,
                            !.cachePhysical = IF on THEN app.last ELSE c.cachePhysical]
    BY <1>3 DEF Resumed
  <2>2. on \in BOOLEAN
    BY <1>1
  <2>3. (on => c.forwards > 0 /\ ~ c.closed) /\ c.cachePhysical \in Nat
    BY <1>1 DEF Contexts
  <2> HIDE DEF on
  <2>4. /\ Resumed \in Contexts /\ Resumed.forwards = c.forwards /\ Resumed.closed = c.closed
        /\ Resumed.fileInner = c.fileInner /\ Resumed.readInner = c.readInner
        /\ Resumed.fileLogical = c.fileLogical /\ Resumed.readPos = c.readPos
        /\ Resumed.seekRequest = c.seekRequest /\ Resumed.seekDone = c.seekDone
        /\ Resumed.seekPos = c.seekPos /\ ~ Resumed.paused /\ ~ Resumed.abort /\ Resumed.running = on
        /\ Resumed.cachePhysical = IF on THEN app.last ELSE c.cachePhysical
    BY <1>1, <2>1, <2>2, <2>3 DEF Contexts
  <2>5. CASE on
    <3>1. disk' = [disk EXCEPT !.at = app.last] /\ task' = StartTask(c.forwards)
      BY <1>3, <2>4, <2>5 DEF Resume
    <3>2. task' \in [pc : TaskPlaces, bytes : Seq(Nat)] /\ task'.pc \in {"top", "gone"}
      BY <1>1, <3>1, FreshIs
    <3>3. disk' \in [bytes : [0 .. CacheCapacity - 1 -> Int], at : Nat] /\ disk'.bytes = disk.bytes
      BY <1>1, <3>1
    <3> QED BY <2>3, <2>4, <2>5, <3>2, <3>3
  <2>6. CASE ~ on
    <3>1. disk' = disk /\ task' = task
      BY <2>4, <2>6 DEF Resume
    <3> QED BY <1>1, <2>4, <2>6, <3>1
  <2> QED BY <2>5, <2>6
<1> QED BY <1>2, <1>3

\* A call begins.
LEMMA CallBegins ==
    ASSUME CacheInv, io.op = "none", Resume, UNCHANGED <<app, saved, urgent, faithful>>, astray' = astray,
           c' \in Contexts, c'.forwards = c.forwards, c'.closed = c.closed,
           c'.cachePhysical = Resumed.cachePhysical, c'.fileInner = c.fileInner,
           c'.readInner = c.readInner, c'.fileLogical = c.fileLogical,
           origin' \in Nat, origin' = origin \/ c.closed,
           io' \in Calling, io'.op = "direct" => c.closed, PosInv'
    PROVE  CacheInv'
<1>1. /\ disk' \in [bytes : [0 .. CacheCapacity - 1 -> Int], at : Nat] /\ disk'.bytes = disk.bytes
      /\ task' \in [pc : TaskPlaces, bytes : Seq(Nat)]
  BY ResumeIs
<1>2. \/ task' = task /\ disk' = disk /\ c'.cachePhysical = c.cachePhysical
      \/ /\ task'.pc \in {"top", "gone"} /\ c.forwards > 0 /\ ~ c.closed
         /\ c'.cachePhysical = app.last
  BY ResumeIs
<1>3. CacheTypeOK'
  BY <1>1 DEF CacheInv, CacheTypeOK, Calling
<1>4. FileInv' /\ SavedInv'
  BY <1>1, FileStays DEF CacheInv
<1>5. OffsetInv'
  BY <1>2 DEF CacheInv, OffsetInv
<1>6. ~ (c.closed /\ Working)
  BY DEF CacheInv, ClosedInv
<1>7. TreeAstray' = TreeAstray /\ (Working' => Working)
  BY <1>2 DEF TreeAstray, Working
<1>8. ClosedInv'
  BY <1>2, <1>6, <1>7 DEF CacheInv, ClosedInv
<1>9. InnerInv'
  <2>1. CASE origin' = origin
    BY <1>2, <1>6, <1>7, <2>1 DEF CacheInv, InnerInv
  <2>2. CASE c.closed
    <3>1. c.forwards # 0 /\ ~ Working /\ ~ Working' /\ task' = task
      BY <1>2, <1>6, <1>7, <2>2 DEF CacheInv, ClosedInv
    <3>2. task'.pc # "store"
      BY <3>1 DEF Working
    <3> QED BY <2>2, <3>1, <3>2 DEF InnerInv
  <2> QED BY <2>1, <2>2
<1> QED BY <1>3, <1>4, <1>5, <1>8, <1>9 DEF CacheInv

LEMMA CallsIs ==
    ASSUME CacheInv, NEW op \in CallNames, NEW n \in Nat, Calls(op, n)
    PROVE  io' \in Calling /\ io'.op = op /\ io'.left = n /\ io'.at = io.at
<1>1. io \in Calling
  BY DEF CacheInv, CacheTypeOK, Calling
<1>2. io.calls + 1 \in Nat
  BY <1>1 DEF Calling
<1> QED BY <1>1, <1>2 DEF Calls, Calling

LEMMA CacheReadKeeps == ASSUME CacheInv, NEW n \in 1 .. CacheChunk, CacheRead(n) PROVE CacheInv'
<1>1. /\ io.op = "none" /\ Resume /\ c' = Resumed /\ Calls(IF Resumed.closed THEN "direct" ELSE "read", n)
      /\ UNCHANGED <<app, saved, urgent, faithful, origin>> /\ astray' = astray
  BY DEF CacheRead, CacheIdle
<1>2. /\ c' \in Contexts /\ c'.forwards = c.forwards /\ c'.closed = c.closed
      /\ c'.fileInner = c.fileInner /\ c'.readInner = c.readInner
      /\ c'.fileLogical = c.fileLogical /\ c'.readPos = c.readPos
      /\ c'.seekRequest = c.seekRequest /\ c'.seekDone = c.seekDone
      /\ c'.seekPos = c.seekPos /\ ~ c'.paused /\ (c'.abort => urgent)
  BY <1>1, ResumeIs
<1>3. n \in Nat /\ n <= CacheChunk /\ origin \in Nat /\ {"direct", "read"} \subseteq CallNames
  BY CapacityIs, CacheFields DEF CacheInv, CallNames
<1>4. /\ io' \in Calling /\ io'.op = IF c.closed THEN "direct" ELSE "read"
      /\ io'.left = n /\ io'.at = io.at
  BY <1>1, <1>2, <1>3, CallsIs
<1>5. c.closed => c.forwards # 0 /\ "closed" \in astray
  BY DEF CacheInv, ClosedInv
<1>6. PosInv'
  BY <1>1, <1>2, <1>3, <1>4, <1>5 DEF CacheInv, PosInv, ReadsAreTrue
<1> QED BY <1>1, <1>2, <1>3, <1>4, <1>6, CallBegins

LEMMA CacheSeekKeeps == ASSUME CacheInv, NEW pos \in CacheSeeks, CacheSeek(pos) PROVE CacheInv'
<1>1. /\ io.op = "none" /\ Resume
      /\ UNCHANGED <<app, saved, urgent, faithful>> /\ astray' = astray
  BY DEF CacheSeek, CacheIdle
<1>2. pos \in Nat /\ c.closed \in BOOLEAN /\ origin \in Nat /\ c.forwards \in Nat
  BY CacheAssumption, CacheFields DEF CacheInv
<1>3. /\ Resumed \in Contexts /\ Resumed.forwards = c.forwards /\ Resumed.closed = c.closed
      /\ Resumed.fileInner = c.fileInner /\ Resumed.readInner = c.readInner
      /\ Resumed.fileLogical = c.fileLogical /\ Resumed.readPos = c.readPos
      /\ Resumed.seekRequest = c.seekRequest /\ Resumed.seekDone = c.seekDone
      /\ Resumed.seekPos = c.seekPos /\ ~ Resumed.paused /\ (Resumed.abort => urgent)
  BY <1>1, ResumeIs
<1>4. io \in Calling /\ io.calls + 1 \in Nat
  <2>1. io \in Calling
    BY DEF CacheInv, CacheTypeOK, Calling
  <2> QED BY <2>1 DEF Calling
<1>5. CASE c.closed
  <2>1. c' = Resumed /\ origin' = pos /\ io' = [io EXCEPT !.at = pos, !.calls = @ + 1]
    BY <1>5 DEF CacheSeek
  <2>2. io' \in Calling /\ io'.op = "none" /\ io'.left = io.left /\ io'.at = pos
    BY <1>1, <1>2, <1>4, <2>1 DEF Calling
  <2>3. c.forwards # 0 /\ "closed" \in astray
    BY <1>5 DEF CacheInv, ClosedInv
  <2>4. PosInv'
    BY <1>1, <1>3, <2>1, <2>2, <2>3 DEF CacheInv, PosInv, ReadsAreTrue
  <2> QED BY <1>1, <1>2, <1>3, <1>5, <2>1, <2>2, <2>4, CallBegins
<1>6. CASE ~ c.closed /\ c.forwards = 0
  <2>1. /\ c' = [Resumed EXCEPT !.readPos = pos] /\ origin' = origin
        /\ io' = [io EXCEPT !.at = pos, !.calls = @ + 1]
    BY <1>6 DEF CacheSeek
  <2>2. io' \in Calling /\ io'.op = "none" /\ io'.left = io.left /\ io'.at = pos
    BY <1>1, <1>2, <1>4, <2>1 DEF Calling
  <2>3. /\ c' \in Contexts /\ c'.forwards = c.forwards /\ c'.closed = c.closed
        /\ c'.cachePhysical = Resumed.cachePhysical
        /\ c'.fileInner = c.fileInner /\ c'.readInner = c.readInner
        /\ c'.fileLogical = c.fileLogical /\ c'.readPos = pos
        /\ c'.seekRequest = c.seekRequest /\ c'.seekDone = c.seekDone
        /\ c'.seekPos = c.seekPos /\ ~ c'.paused /\ (c'.abort => urgent)
    BY <1>2, <1>3, <2>1 DEF Contexts
  <2>4. PosInv'
    BY <1>1, <2>2, <2>3 DEF CacheInv, PosInv, ReadsAreTrue
  <2> QED BY <1>1, <1>2, <2>1, <2>2, <2>3, <2>4, CallBegins
<1>7. CASE ~ c.closed /\ c.forwards # 0
  <2>1. /\ c' = [Resumed EXCEPT !.seekRequest = TRUE, !.seekPos = pos, !.seekDone = FALSE]
        /\ origin' = origin /\ Calls("seek", 0)
    BY <1>7 DEF CacheSeek
  <2>2. io' \in Calling /\ io'.op = "seek" /\ io'.left = 0 /\ io'.at = io.at
    BY <2>1, CallsIs DEF CallNames
  <2>3. /\ c' \in Contexts /\ c'.forwards = c.forwards /\ c'.closed = c.closed
        /\ c'.cachePhysical = Resumed.cachePhysical
        /\ c'.fileInner = c.fileInner /\ c'.readInner = c.readInner
        /\ c'.fileLogical = c.fileLogical /\ c'.readPos = c.readPos
        /\ c'.seekRequest = TRUE /\ c'.seekDone = FALSE
        /\ ~ c'.paused /\ (c'.abort => urgent)
    BY <1>2, <1>3, <2>1 DEF Contexts
  <2>4. PosInv'
    BY <1>1, <1>7, <2>2, <2>3, CapacityIs DEF CacheInv, PosInv, ReadsAreTrue
  <2> QED BY <1>1, <1>2, <2>1, <2>2, <2>3, <2>4, CallBegins
<1> QED BY <1>2, <1>5, <1>6, <1>7

-----------------------------------------------------------------------------
(***************************************************************************)
(* What the reader reads.                                                  *)
(***************************************************************************)
LEMMA InnerBytesIs ==
    ASSUME NEW from \in Nat, NEW n \in Nat, NEW bytes \in InnerBytes(from, n)
    PROVE  /\ bytes \in Seq(Nat) /\ Len(bytes) \in Nat /\ Len(bytes) <= n
           /\ \A i \in 1 .. Len(bytes) : bytes[i] = from + i - 1
<1> DEFINE rest == ResourceSize - from
<1>1. rest \in Int
  BY CacheAssumption
<1>2. PICK m \in 0 .. Min({n, rest}) : bytes = [i \in 1 .. m |-> from + i - 1]
  BY DEF InnerBytes
<1> HIDE DEF rest
<1>3. n \in Int
  OBVIOUS
<1>4. Min({n, rest}) \in {n, rest} /\ Min({n, rest}) <= n
  BY <1>1, <1>3, MinOfTwo, Zenon
<1>5. Min({n, rest}) \in Int
  BY <1>1, <1>3, <1>4
<1>6. m \in Nat /\ m <= n
  BY <1>4, <1>5
<1>7. \A i \in 1 .. m : from + i - 1 \in Nat
  BY <1>6
<1>8. bytes \in Seq(Nat) /\ Len(bytes) = m
  BY <1>2, <1>6, <1>7
<1> QED BY <1>2, <1>6, <1>8

\* Whether the bytes are the right ones.
LEMMA FaithfulIs ==
    ASSUME NEW right, faithful' = (faithful /\ right)
    PROVE  faithful' \in BOOLEAN /\ (right /\ faithful => faithful')
  BY Zenon

\* A read past the cache that was closed.
LEMMA PastTheCache ==
    ASSUME CacheInv, c.closed, ~ Working, io.op \in {"read", "direct"},
           UNCHANGED <<c, app, disk, saved, task, urgent>>, astray' = astray,
           origin' \in Nat, faithful' \in BOOLEAN, io' \in Calling, io'.op = "none", io'.left = 0
    PROVE  CacheInv'
<1>1. c.forwards # 0 /\ "closed" \in astray /\ ~ Working'
  BY DEF CacheInv, ClosedInv, Working
<1>2. CacheTypeOK'
  BY DEF CacheInv, CacheTypeOK, Calling
<1>3. FileInv' /\ SavedInv'
  BY FileStays DEF CacheInv
<1>4. OffsetInv'
  BY DEF CacheInv, OffsetInv
<1>5. ClosedInv'
  BY <1>1 DEF CacheInv, ClosedInv
<1>6. InnerInv'
  BY <1>1 DEF InnerInv, Working
<1>7. PosInv'
  BY <1>1, CapacityIs DEF CacheInv, PosInv, ReadsAreTrue
<1> QED BY <1>2, <1>3, <1>4, <1>5, <1>6, <1>7 DEF CacheInv

LEMMA AtEndOfRead ==
    ASSUME CacheInv, NEW n \in Nat, io' = [io EXCEPT !.op = "none", !.left = 0, !.at = @ + n]
    PROVE  io' \in Calling /\ io'.op = "none" /\ io'.left = 0 /\ io'.at = io.at + n
<1>1. io \in Calling /\ "none" \in CallNames
  BY DEF CacheInv, CacheTypeOK, Calling, CallNames
<1>2. io.at + n \in Nat
  BY <1>1 DEF Calling
<1> QED BY <1>1, <1>2 DEF Calling

LEMMA ReadDirectlyKeeps == ASSUME CacheInv, ReadDirectly PROVE CacheInv'
<1>1. /\ io.op = "direct" /\ UNCHANGED <<c, app, disk, saved, task, urgent>> /\ astray' = astray
  BY DEF ReadDirectly, theFile
<1>2. PICK bytes \in InnerBytes(origin, io.left) :
          /\ origin' = origin + Len(bytes)
          /\ faithful' = (faithful /\ \A i \in DOMAIN bytes : bytes[i] = io.at + i - 1)
          /\ io' = [io EXCEPT !.op = "none", !.left = 0, !.at = @ + Len(bytes)]
  BY DEF ReadDirectly
<1>3. origin \in Nat /\ io.left \in Nat
  BY CacheFields DEF CacheInv
<1>4. Len(bytes) \in Nat
  BY <1>3, InnerBytesIs
<1>5. faithful' \in BOOLEAN
  BY <1>2, FaithfulIs, Zenon
<1>6. io' \in Calling /\ io'.op = "none" /\ io'.left = 0
  BY <1>2, <1>4, AtEndOfRead
<1>7. origin' \in Nat
  BY <1>2, <1>3, <1>4
<1>8. c.closed /\ ~ Working
  BY <1>1 DEF CacheInv, ClosedInv
<1> QED BY <1>1, <1>5, <1>6, <1>7, <1>8, PastTheCache

LEMMA ReadGoesOnKeeps == ASSUME CacheInv, ReadGoesOn PROVE CacheInv'
<1>1. /\ io.op = "read" /\ "main" \notin waits /\ c.closed
      /\ UNCHANGED <<c, app, disk, saved, task, urgent>> /\ astray' = astray
  BY DEF ReadGoesOn, Reading, Awake, theFile
<1>2. PICK bytes \in InnerBytes(c.readPos, io.left) :
          /\ origin' = c.readPos + Len(bytes)
          /\ faithful' = (faithful /\ \A i \in DOMAIN bytes : bytes[i] = io.at + i - 1)
          /\ io' = [io EXCEPT !.op = "none", !.left = 0, !.at = @ + Len(bytes)]
  BY DEF ReadGoesOn
<1>3. c.readPos \in Nat /\ io.left \in Nat
  BY CacheFields DEF CacheInv
<1>4. Len(bytes) \in Nat
  BY <1>3, InnerBytesIs
<1>5. faithful' \in BOOLEAN
  BY <1>2, FaithfulIs, Zenon
<1>6. io' \in Calling /\ io'.op = "none" /\ io'.left = 0
  BY <1>2, <1>4, AtEndOfRead
<1>7. origin' \in Nat
  BY <1>2, <1>3, <1>4
<1>8. ~ Working
  BY <1>1 DEF CacheInv, ClosedInv
<1> QED BY <1>1, <1>5, <1>6, <1>7, <1>8, PastTheCache

\* The bytes of the file at the place the tree gives are those of the position.
LEMMA TakenIs ==
    ASSUME CacheInv, Holds(c.readPos), NEW bytes, bytes = InFile(Target)
    PROVE  /\ Target \in Nat /\ Target < app.last
           /\ Len(bytes) \in Nat /\ Len(bytes) <= io.left /\ DOMAIN bytes = 1 .. Len(bytes)
           /\ ~ TreeAstray => \A i \in 1 .. Len(bytes) : bytes[i] = c.readPos + i - 1
<1> DEFINE near == Nearest(c.readPos)
<1>1. c.readPos \in Nat /\ io.left \in Nat /\ app.last \in Nat /\ app.entries \subseteq Entries
  BY CacheFields DEF CacheInv
<1>2. near \in app.entries /\ near.logical <= c.readPos
  BY <1>1, NearestIs DEF Holds, CacheInv
<1>3. near.logical \in Nat /\ near.physical \in Nat /\ near.size \in Nat
  BY <1>1, <1>2, EntryFields
<1>4. c.readPos - near.logical < near.size
  BY DEF Holds
<1>5. near.physical + near.size <= app.last
  BY <1>2 DEF CacheInv, FileInv, Within
<1>6. Target = near.physical + (c.readPos - near.logical)
  BY Zenon DEF Target
<1> DEFINE left == near.size - (c.readPos - near.logical)
           n    == Min({io.left, left})
           off  == c.readPos - near.logical
<1>7. bytes = [i \in 1 .. n |-> disk.bytes[Target + i - 1]]
  BY Zenon DEF InFile
<1>8. ~ TreeAstray => IsTrue(near, disk.bytes)
  BY <1>2, TreeIs DEF CacheInv, FileInv
<1> HIDE DEF near
<1>9. off \in Nat /\ off < near.size /\ left = near.size - off /\ left \in Nat
  BY <1>1, <1>2, <1>3, <1>4
<1>10. c.readPos = near.logical + off
  BY <1>1, <1>2, <1>3
<1> HIDE DEF left, off
<1>11. n \in {io.left, left} /\ n <= io.left /\ n <= left
  <2>1. io.left \in Int /\ left \in Int
    BY <1>1, <1>9
  <2> QED BY <2>1, MinOfTwo, Zenon
<1> HIDE DEF n
<1>12. n \in Nat
  BY <1>1, <1>9, <1>11
<1>13. Target = near.physical + off /\ Target \in Nat /\ Target < app.last
  BY <1>1, <1>3, <1>5, <1>6, <1>9, <1>10
<1>14. Len(bytes) = n /\ DOMAIN bytes = 1 .. n
  BY <1>7, <1>12
<1>15. ASSUME ~ TreeAstray, NEW i \in 1 .. n PROVE bytes[i] = c.readPos + i - 1
  <2> DEFINE k == off + i - 1
  <2>1. k \in 0 .. near.size - 1 /\ Target + i - 1 = near.physical + k /\ c.readPos + i - 1 = near.logical + k
    BY <1>3, <1>9, <1>10, <1>11, <1>12, <1>13
  <2>2. disk.bytes[near.physical + k] = near.logical + k
    BY <1>8, <1>15, <2>1 DEF IsTrue
  <2>3. bytes[i] = disk.bytes[Target + i - 1]
    BY <1>7
  <2> QED BY <2>1, <2>2, <2>3
<1> QED BY <1>11, <1>12, <1>13, <1>14, <1>15

LEMMA ReadFromFileKeeps == ASSUME CacheInv, ReadFromFile PROVE CacheInv'
<1>1. /\ io.op = "read" /\ c.forwards > 0 /\ "main" \notin waits /\ ~ c.abort /\ ~ urgent /\ ~ c.closed
      /\ Holds(c.readPos) /\ UNCHANGED <<app, saved, origin, task, urgent>> /\ astray' = astray
  BY DEF ReadFromFile, Reading, Awake, MustStop
<1>2. Target \in Nat /\ Target < app.last
  BY <1>1, TakenIs
<1>3. c.cachePhysical # Target
  <2>1. c.cachePhysical = app.last /\ app.last \in Nat
    BY <1>1, CacheFields DEF CacheInv, OffsetInv
  <2> QED BY <1>2, <2>1
<1>4. PICK bytes :
          /\ bytes = InFile(Target) /\ Gets(bytes)
          /\ c' = [c EXCEPT !.readPos = c.readPos + Len(bytes)]
          /\ disk' = [disk EXCEPT !.at = Target + Len(bytes)]
  BY <1>3 DEF ReadFromFile
<1>5. /\ Len(bytes) \in Nat /\ Len(bytes) <= io.left /\ DOMAIN bytes = 1 .. Len(bytes)
      /\ ~ TreeAstray => \A i \in 1 .. Len(bytes) : bytes[i] = c.readPos + i - 1
  BY <1>1, <1>4, TakenIs
<1>6. c \in Contexts /\ c.readPos \in Nat /\ c.readPos + Len(bytes) \in Nat /\ Target + Len(bytes) \in Nat
  <2>1. c \in Contexts /\ c.readPos \in Nat
    BY CacheFields DEF CacheInv, CacheTypeOK
  <2> QED BY <1>2, <1>5, <2>1
<1>7. /\ c' \in Contexts /\ c'.forwards = c.forwards /\ c'.cachePhysical = c.cachePhysical
      /\ c'.closed = c.closed /\ c'.fileInner = c.fileInner /\ c'.readInner = c.readInner
      /\ c'.fileLogical = c.fileLogical /\ c'.paused = c.paused /\ c'.readPos = c.readPos + Len(bytes)
      /\ c'.seekRequest = c.seekRequest /\ c'.seekPos = c.seekPos /\ c'.seekDone = c.seekDone
      /\ c'.abort = c.abort
  BY <1>4, <1>6 DEF Contexts
<1>8. disk' \in [bytes : [0 .. CacheCapacity - 1 -> Int], at : Nat] /\ disk'.bytes = disk.bytes
  BY <1>4, <1>6 DEF CacheInv, CacheTypeOK
<1>9. /\ io' \in Calling /\ io'.op \in {"none", "read"} /\ io'.left <= io.left /\ io'.left \in Nat
      /\ io'.at = io.at + Len(bytes)
  <2>1. io \in Calling /\ "none" \in CallNames
    BY DEF CacheInv, CacheTypeOK, Calling, CallNames
  <2>2. io.left - Len(bytes) \in Nat /\ io.got + Len(bytes) \in Nat /\ io.at + Len(bytes) \in Nat
        /\ io.left - Len(bytes) <= io.left
    BY <1>5, <2>1 DEF Calling
  <2>3. io' = [io EXCEPT !.left = @ - Len(bytes), !.got = @ + Len(bytes), !.at = @ + Len(bytes),
                         !.op = IF io.left = Len(bytes) THEN "none" ELSE @]
    BY <1>4 DEF Gets
  <2> QED BY <1>1, <2>1, <2>2, <2>3 DEF Calling
<1>10. faithful' \in BOOLEAN /\ (faithful /\ astray = {} => faithful')
  <2> DEFINE right == \A i \in DOMAIN bytes : bytes[i] = io.at + i - 1
  <2>1. faithful' = (faithful /\ right)
    BY <1>4, Zenon DEF Gets
  <2>2. astray = {} => right
    BY <1>1, <1>5, NotAstray DEF CacheInv, PosInv
  <2> HIDE DEF right
  <2> QED BY <2>1, <2>2, FaithfulIs, Zenon
<1>11. CacheTypeOK'
  BY <1>1, <1>7, <1>8, <1>9, <1>10 DEF CacheInv, CacheTypeOK, Calling
<1>12. FileInv' /\ SavedInv'
  BY <1>1, <1>8, FileStays DEF CacheInv
<1>13. OffsetInv'
  BY <1>1, <1>7 DEF CacheInv, OffsetInv
<1>14. TreeAstray' = TreeAstray /\ Working' = Working
  BY <1>1 DEF TreeAstray, Working
<1>15. ClosedInv'
  BY <1>1, <1>7, <1>9 DEF CacheInv, ClosedInv
<1>16. InnerInv'
  BY <1>1, <1>7, <1>14 DEF CacheInv, InnerInv
<1>17. io'.left <= CacheChunk
  <2>1. io.left <= CacheChunk /\ io.left \in Nat
    BY CacheFields DEF CacheInv, PosInv
  <2> QED BY <1>9, <2>1, CapacityIs
<1>18. PosInv'
  <2>1. faithful' \/ astray' # {}
    BY <1>1, <1>10 DEF CacheInv, PosInv, ReadsAreTrue
  <2> QED BY <1>1, <1>7, <1>9, <1>17, <2>1 DEF CacheInv, PosInv, ReadsAreTrue
<1> QED BY <1>11, <1>12, <1>13, <1>15, <1>16, <1>18 DEF CacheInv

LEMMA SyncTakesKeeps == ASSUME CacheInv, SyncTakes PROVE CacheInv'
<1>1. /\ io.op = "read" /\ c.forwards = 0
      /\ Holds(c.readPos) /\ UNCHANGED <<app, saved, origin, task, urgent>> /\ astray' = astray
  BY DEF SyncTakes, Alone
<1>2. Target \in Nat /\ Target < app.last
  BY <1>1, TakenIs
<1>3. c.cachePhysical = disk.at
  BY <1>1 DEF CacheInv, OffsetInv
<1>4. PICK bytes :
          /\ bytes = InFile(Target)
          /\ faithful' = (faithful /\ \A i \in DOMAIN bytes : bytes[i] = io.at + i - 1)
          /\ io' = [io EXCEPT !.op = "none", !.left = 0, !.at = @ + Len(bytes)]
          /\ c' = [c EXCEPT !.readPos = @ + Len(bytes), !.cachePhysical = Target + Len(bytes)]
          /\ disk' = [disk EXCEPT !.at = Target + Len(bytes)]
  BY <1>3 DEF SyncTakes
<1>5. /\ Len(bytes) \in Nat /\ DOMAIN bytes = 1 .. Len(bytes)
      /\ ~ TreeAstray => \A i \in 1 .. Len(bytes) : bytes[i] = c.readPos + i - 1
  BY <1>1, <1>4, TakenIs
<1>6. c \in Contexts /\ c.readPos \in Nat /\ c.readPos + Len(bytes) \in Nat /\ Target + Len(bytes) \in Nat
  <2>1. c \in Contexts /\ c.readPos \in Nat
    BY CacheFields DEF CacheInv, CacheTypeOK
  <2> QED BY <1>2, <1>5, <2>1
<1>7. /\ c' \in Contexts /\ c'.forwards = c.forwards /\ c'.cachePhysical = Target + Len(bytes)
      /\ c'.closed = c.closed /\ c'.fileInner = c.fileInner /\ c'.readInner = c.readInner
      /\ c'.fileLogical = c.fileLogical /\ c'.paused = c.paused /\ c'.readPos = c.readPos + Len(bytes)
      /\ c'.seekRequest = c.seekRequest /\ c'.seekPos = c.seekPos /\ c'.seekDone = c.seekDone
      /\ c'.abort = c.abort
  BY <1>4, <1>6 DEF Contexts
<1>8. /\ disk' \in [bytes : [0 .. CacheCapacity - 1 -> Int], at : Nat] /\ disk'.bytes = disk.bytes
      /\ disk'.at = Target + Len(bytes)
  BY <1>4, <1>6 DEF CacheInv, CacheTypeOK
<1>9. io' \in Calling /\ io'.op = "none" /\ io'.left = 0 /\ io'.at = io.at + Len(bytes)
  BY <1>4, <1>5, AtEndOfRead
<1>10. faithful' \in BOOLEAN /\ (faithful /\ astray = {} => faithful')
  <2> DEFINE right == \A i \in DOMAIN bytes : bytes[i] = io.at + i - 1
  <2>1. faithful' = (faithful /\ right)
    BY <1>4, Zenon
  <2>2. astray = {} => right
    BY <1>1, <1>5, NotAstray DEF CacheInv, PosInv
  <2> HIDE DEF right
  <2> QED BY <2>1, <2>2, FaithfulIs, Zenon
<1>11. CacheTypeOK'
  BY <1>1, <1>7, <1>8, <1>9, <1>10 DEF CacheInv, CacheTypeOK, Calling
<1>12. FileInv' /\ SavedInv'
  BY <1>1, <1>8, FileStays DEF CacheInv
<1>13. OffsetInv'
  BY <1>1, <1>7, <1>8 DEF OffsetInv
<1>14. TreeAstray' = TreeAstray /\ Working' = Working
  BY <1>1 DEF TreeAstray, Working
<1>15. ClosedInv'
  BY <1>1, <1>7, <1>9 DEF CacheInv, ClosedInv
<1>16. InnerInv'
  BY <1>1, <1>7, <1>14 DEF CacheInv, InnerInv
<1>17. PosInv'
  <2>1. faithful' \/ astray' # {}
    BY <1>1, <1>10 DEF CacheInv, PosInv, ReadsAreTrue
  <2> QED BY <1>1, <1>7, <1>9, <2>1, CapacityIs DEF CacheInv, PosInv, ReadsAreTrue
<1> QED BY <1>11, <1>12, <1>13, <1>15, <1>16, <1>17 DEF CacheInv


LEMMA ReadFileFailsKeeps == ASSUME CacheInv, ReadFileFails PROVE CacheInv'
<1>1. /\ io.op = "read" /\ c.forwards > 0 /\ "main" \notin waits /\ ~ c.closed
      /\ FileFails /\ ReadEndsOrWaits(c'.eof) /\ UNCHANGED <<origin, task, urgent, faithful>>
  BY Zenon DEF ReadFileFails, Reading, Awake
<1>2. c \in Contexts /\ io \in Calling
  BY DEF CacheInv, CacheTypeOK, Calling
<1>3. CASE MadeAnew
  <2>1. /\ AnewStays /\ c'.cachePhysical = 0 /\ c'.fileInner = 0 /\ c'.eof = FALSE
        /\ app' \in [entries : SUBSET Entries, last : Nat, shared : BOOLEAN] /\ app'.last = 0
        /\ saved' \in [tree : [entries : SUBSET Entries, last : Nat], stale : BOOLEAN]
        /\ disk' \in [bytes : [0 .. CacheCapacity - 1 -> Int], at : Nat]
        /\ FileInv' /\ SavedInv'
    BY <1>3, MadeAnewKeeps
  <2>2. /\ astray \subseteq astray' /\ (c'.closed => "closed" \in astray')
        /\ (origin # 0 => TreeAstray')
    BY <1>3, MadeAnewIs
  <2>3. io' = io /\ "main" \in waits'
    BY <1>1, <2>1, Zenon DEF ReadEndsOrWaits
  <2>4. CacheTypeOK'
    BY <1>1, <2>1, <2>3 DEF CacheInv, CacheTypeOK, AnewStays
  <2>5. OffsetInv'
    BY <1>1, <2>1 DEF OffsetInv, AnewStays
  <2>6. ClosedInv'
    BY <1>1, <2>1, <2>2, <2>3 DEF CacheInv, ClosedInv, AnewStays
  <2>7. InnerInv'
    <3>1. ~ TreeAstray' => origin = 0
      BY <2>2
    <3>2. task.pc = "store" => origin # 0 /\ Len(task.bytes) > 0
      BY DEF CacheInv, InnerInv
    <3> QED BY <1>1, <2>1, <3>1, <3>2 DEF InnerInv, AnewStays
  <2>8. PosInv'
    BY <1>1, <2>1, <2>2, <2>3, PosStays DEF CacheInv, AnewStays
  <2> QED BY <2>1, <2>4, <2>5, <2>6, <2>7, <2>8 DEF CacheInv
<1>4. CASE c' = [c EXCEPT !.retry = @ + 1] /\ UNCHANGED <<theFile, astray>>
  <2>1. SamePlaces /\ c'.abort = c.abort /\ c'.paused = c.paused
    BY <1>2, <1>4 DEF Contexts, SamePlaces
  <2>2. UNCHANGED <<app, disk, saved>> /\ astray' = astray
    BY <1>4 DEF theFile
  <2>3. io' = io \/ CacheReturns
    BY <1>1, Zenon DEF ReadEndsOrWaits
  <2>4. urgent' \in BOOLEAN
    BY <1>1 DEF CacheInv, CacheTypeOK
  <2>5. /\ io' \in Calling /\ io'.at = io.at /\ io'.left <= CacheChunk /\ io'.op \in {"none", "read"}
    BY <1>1, <1>2, <2>3, ReturnsIs, CapacityIs DEF CacheInv, PosInv
  <2>6. PosInv'
    BY <1>1, <2>1, <2>2, <2>5 DEF CacheInv, PosInv, ReadsAreTrue, SamePlaces
  <2> QED BY <1>1, <2>1, <2>2, <2>4, <2>5, <2>6, ReaderMoves
<1> QED BY <1>1, <1>3, <1>4, Zenon DEF FileFails

LEMMA SyncFileFailsKeeps == ASSUME CacheInv, SyncFileFails PROVE CacheInv'
<1>1. /\ c.forwards = 0 /\ Forgotten /\ disk' = EmptyFile
      /\ c' = [c EXCEPT !.cachePhysical = 0, !.eof = FALSE]
      /\ UNCHANGED <<origin, task, io, urgent, faithful>> /\ astray' = astray
  BY DEF SyncFileFails, Alone
<1>2. c \in Contexts /\ CacheTypeOK /\ PosInv /\ SavedInv
  BY DEF CacheInv, CacheTypeOK
<1>3. /\ c' \in Contexts /\ c'.forwards = c.forwards /\ c'.cachePhysical = 0
      /\ c'.closed = c.closed /\ c'.fileInner = c.fileInner /\ c'.readInner = c.readInner
      /\ c'.fileLogical = c.fileLogical
      /\ c'.paused = c.paused /\ c'.readPos = c.readPos /\ c'.seekRequest = c.seekRequest
      /\ c'.seekPos = c.seekPos /\ c'.seekDone = c.seekDone /\ c'.abort = c.abort
  BY <1>1, <1>2 DEF Contexts
<1>4. /\ app' \in [entries : SUBSET Entries, last : Nat, shared : BOOLEAN]
      /\ app'.last = 0 /\ app'.entries = {}
  <2>1. app' = [app EXCEPT !.entries = {}, !.last = 0]
    BY <1>1 DEF Forgotten
  <2> QED BY <1>2, <2>1 DEF CacheTypeOK
<1>5. /\ saved' \in [tree : [entries : SUBSET Entries, last : Nat], stale : BOOLEAN]
      /\ saved'.tree = saved.tree /\ saved'.stale = (saved.tree # NoTree)
  <2>1. saved' = [saved EXCEPT !.stale = saved.tree # NoTree]
    BY <1>1 DEF Forgotten
  <2> QED BY <1>2, <2>1 DEF CacheTypeOK
<1>6. disk' \in [bytes : [0 .. CacheCapacity - 1 -> Int], at : Nat] /\ disk'.at = 0
  BY <1>1, EmptyFileIs
<1>7. CacheTypeOK'
  BY <1>1, <1>2, <1>3, <1>4, <1>5, <1>6 DEF CacheTypeOK
<1>8. FileInv' /\ SavedInv'
  BY <1>2, <1>4, <1>5, FileEmptied
<1>9. OffsetInv'
  BY <1>1, <1>3, <1>6 DEF OffsetInv
<1>10. ClosedInv'
  BY <1>1, <1>3 DEF CacheInv, ClosedInv, Working
<1>11. TreeAstray' = TreeAstray
  BY <1>1 DEF TreeAstray
<1>12. InnerInv'
  BY <1>1, <1>3, <1>11 DEF CacheInv, InnerInv
<1>13. PosInv'
  BY <1>1, <1>2, <1>3, PosStays
<1> QED BY <1>7, <1>8, <1>9, <1>10, <1>12, <1>13 DEF CacheInv

\* The bytes of one read fit into the file that is begun anew, and the reader that fills it.
Put(bytes) ==
    /\ FileInv' /\ SavedInv'
    /\ app' \in [entries : SUBSET Entries, last : Nat, shared : BOOLEAN]
    /\ saved' \in [tree : [entries : SUBSET Entries, last : Nat], stale : BOOLEAN]
    /\ disk' \in [bytes : [0 .. CacheCapacity - 1 -> Int], at : Nat]
    /\ c' = [c EXCEPT !.readPos = c.readPos + Len(bytes), !.readInner = c.readPos + Len(bytes),
                      !.cachePhysical = disk'.at]

LEMMA PutAfter ==
    ASSUME CacheInv, c.forwards = 0, NEW bytes \in Seq(Nat), SyncStores(bytes),
           app.last + Len(bytes) < CacheCapacity, astray' = astray,
           ~ TreeAstray => \A i \in 1 .. Len(bytes) : bytes[i] = c.readPos + i - 1
    PROVE  Put(bytes)
<1>1. CacheTypeOK /\ FileInv /\ SavedInv /\ c.readPos \in Nat /\ app.last \in Nat
  BY CacheFields DEF CacheInv
<1>2. Len(bytes) \in Nat /\ CacheCapacity \in Nat
  BY CapacityIs
<1>3. ~ (app.last + Len(bytes) >= CacheCapacity)
  BY <1>1, <1>2
<1>4. c.cachePhysical = disk.at
  BY DEF CacheInv, OffsetInv
<1> DEFINE near  == Nearest(c.readPos)
           joins == app.entries # {} /\ UpTo(c.readPos) # {}
                    /\ near.logical + near.size = c.readPos /\ near.physical + near.size = app.last
<1>5. /\ app' = [app EXCEPT !.last = app.last + Len(bytes),
                   !.entries = IF joins
                               THEN (app.entries \ {near}) \cup {[near EXCEPT !.size = @ + Len(bytes)]}
                               ELSE app.entries \cup {[logical |-> c.readPos, physical |-> app.last,
                                                       size |-> Len(bytes)]}]
      /\ saved' = [saved EXCEPT !.stale = @ \/ FALSE]
      /\ disk' = Written(IF c.cachePhysical = app.last THEN disk.at ELSE app.last, bytes)
      /\ c' = [c EXCEPT !.readPos = c.readPos + Len(bytes), !.readInner = c.readPos + Len(bytes),
                        !.cachePhysical = app.last + Len(bytes)]
  BY <1>3, Zenon DEF SyncStores
<1>6. disk' = Written(app.last, bytes)
  BY <1>4, <1>5, Zenon
<1>7. saved' = saved
  BY <1>1, <1>5 DEF CacheTypeOK
<1>8. joins <=> UpTo(c.readPos) # {} /\ near.logical + near.size = c.readPos
                                     /\ near.physical + near.size = app.last
  BY Zenon DEF UpTo
<1>9. app' = [app EXCEPT !.last = app.last + Len(bytes), !.entries = Filed(c.readPos, Len(bytes))]
  BY <1>5, <1>8, Zenon DEF Filed
<1>10. app' = [app EXCEPT !.last = @ + Len(bytes), !.entries = Filed(c.readPos, Len(bytes))]
  BY <1>9
<1>11. /\ FileInv' /\ SavedInv'
       /\ app' \in [entries : SUBSET Entries, last : Nat, shared : BOOLEAN]
       /\ disk' \in [bytes : [0 .. CacheCapacity - 1 -> Int], at : Nat]
       /\ disk'.at = app.last + Len(bytes)
  BY <1>1, <1>6, <1>7, <1>10, FileGrows
<1>12. saved' \in [tree : [entries : SUBSET Entries, last : Nat], stale : BOOLEAN]
  BY <1>1, <1>7 DEF CacheTypeOK
<1> QED BY <1>5, <1>11, <1>12, Zenon DEF Put

LEMMA PutAnew ==
    ASSUME CacheInv, NEW bytes \in Seq(Nat), SyncStores(bytes),
           app.last + Len(bytes) >= CacheCapacity, Len(bytes) <= CacheCapacity, astray' = astray,
           ~ TreeAstray => \A i \in 1 .. Len(bytes) : bytes[i] = c.readPos + i - 1
    PROVE  Put(bytes)
<1>1. CacheTypeOK /\ SavedInv /\ c.readPos \in Nat
  BY CacheFields DEF CacheInv
<1>2. Len(bytes) \in Nat /\ CacheCapacity \in Nat
  BY CapacityIs
<1> DEFINE n     == Len(bytes)
           entry == NewEntry(c.readPos, 0, n)
<1>3. /\ app' = [app EXCEPT !.last = 0 + n, !.entries = {} \cup {entry}]
      /\ saved' = [saved EXCEPT !.stale = @ \/ (TRUE /\ saved.tree # NoTree)]
      /\ disk' = Written(0, bytes)
      /\ c' = [c EXCEPT !.readPos = c.readPos + n, !.readInner = c.readPos + n, !.cachePhysical = 0 + n]
  BY Zenon DEF SyncStores, NewEntry
<1>4. /\ disk' \in [bytes : [0 .. CacheCapacity - 1 -> Int], at : Nat] /\ disk'.at = 0 + n
      /\ \A i \in 0 .. n - 1 : disk'.bytes[0 + i] = bytes[i + 1]
  <2>1. 0 + Len(bytes) <= CacheCapacity
    BY <1>2
  <2> QED BY <1>1, <1>3, <2>1, WrittenIs
<1>5. n \in Nat /\ n <= CacheCapacity /\ 0 + n = n
  BY <1>2
<1>6. ~ TreeAstray => \A i \in 0 .. n - 1 : disk'.bytes[0 + i] = c.readPos + i
  <2>1. SUFFICES ASSUME ~ TreeAstray, NEW i \in 0 .. n - 1
                 PROVE  disk'.bytes[0 + i] = c.readPos + i
    OBVIOUS
  <2>2. i + 1 \in 1 .. n /\ c.readPos + (i + 1) - 1 = c.readPos + i
    BY <1>1, <1>5
  <2>3. bytes[i + 1] = c.readPos + (i + 1) - 1
    BY <2>1, <2>2
  <2> QED BY <1>4, <2>2, <2>3
<1> HIDE DEF n
<1>7. /\ entry \in Entries /\ entry.physical + entry.size = n
      /\ ~ TreeAstray => IsTrue(entry, disk'.bytes)
  BY <1>1, <1>5, <1>6 DEF NewEntry, Entries, IsTrue
<1> HIDE DEF entry
<1>8. /\ app' \in [entries : SUBSET Entries, last : Nat, shared : BOOLEAN]
      /\ app'.last = n /\ app'.entries = {entry}
  BY <1>1, <1>3, <1>5, <1>7 DEF CacheTypeOK
<1>9. /\ saved' \in [tree : [entries : SUBSET Entries, last : Nat], stale : BOOLEAN]
      /\ saved'.tree = saved.tree
      /\ ~ saved'.stale => ~ saved.stale /\ saved.tree = NoTree
  <2>1. saved \in [tree : [entries : SUBSET Entries, last : Nat], stale : BOOLEAN]
    BY <1>1 DEF CacheTypeOK
  <2> DEFINE stale == saved.stale \/ (TRUE /\ saved.tree # NoTree)
  <2>2. saved' = [saved EXCEPT !.stale = stale]
    BY <1>3
  <2>3. stale \in BOOLEAN /\ (~ stale => ~ saved.stale /\ saved.tree = NoTree)
    BY Zenon
  <2> HIDE DEF stale
  <2> QED BY <2>1, <2>2, <2>3
<1>10. TreeIsTrue'
  <2>1. ~ TreeAstray' => ~ TreeAstray
    BY StaysAstray
  <2> QED BY <1>7, <1>8, <2>1, TreeIsNext
<1>11. FileInv'
  BY <1>5, <1>7, <1>8, <1>10 DEF FileInv, Within
<1>12. SavedInv'
  <2>1. saved.tree = NoTree => saved.tree.last = 0 /\ saved.tree.entries = {}
    BY DEF NoTree
  <2>2. ~ saved'.stale => /\ saved.tree.last <= app'.last
                          /\ \A p \in 0 .. saved.tree.last - 1 : disk'.bytes[p] = disk.bytes[p]
    BY <1>5, <1>8, <1>9, <2>1
  <2> QED BY <1>1, <1>9, <2>2, SavedStays
<1>13. c' = [c EXCEPT !.readPos = c.readPos + Len(bytes), !.readInner = c.readPos + Len(bytes),
                      !.cachePhysical = disk'.at]
  BY <1>3, <1>4, Zenon DEF n
<1> QED BY <1>4, <1>8, <1>9, <1>11, <1>12, <1>13, Zenon DEF Put


\* What a read without a forwards capacity gives: it may be put into the file, or not.
LEMMA SyncReadsIs ==
    ASSUME CacheInv, SyncReads
    PROVE  /\ c.forwards = 0 /\ io.op = "read" /\ UNCHANGED <<task, urgent>> /\ astray' = astray
           /\ \E from \in Nat, n \in Int : \E bytes \in InnerBytes(from, n) :
                /\ from = IF c.readInner # c.readPos THEN c.readPos ELSE origin
                /\ n <= io.left
                /\ origin' = from + Len(bytes)
                /\ \/ /\ bytes = << >> /\ c' = [c EXCEPT !.readInner = c.readPos] /\ UNCHANGED theFile
                   \/ bytes # << >> /\ SyncStores(bytes)
                   \/ /\ bytes # << >> /\ UNCHANGED theFile
                      /\ c' = [c EXCEPT !.readPos = c.readPos + Len(bytes),
                                        !.readInner = c.readPos + Len(bytes)]
                /\ faithful' = (faithful /\ \A i \in DOMAIN bytes : bytes[i] = io.at + i - 1)
                /\ io' = [io EXCEPT !.op = "none", !.left = 0, !.at = @ + Len(bytes)]
<1> DEFINE from == IF c.readInner # c.readPos THEN c.readPos ELSE origin
           rest == Min(After(c.readPos)) - c.readPos
           n    == IF After(c.readPos) = {} THEN io.left ELSE Min({io.left, rest})
<1>1. /\ c.forwards = 0 /\ io.op = "read" /\ UNCHANGED <<task, urgent>> /\ astray' = astray
  BY DEF SyncReads, Alone
<1>2. PICK bytes \in InnerBytes(from, n) :
         /\ origin' = from + Len(bytes)
         /\ IF bytes = << >>
            THEN c' = [c EXCEPT !.readInner = c.readPos] /\ UNCHANGED theFile
            ELSE \/ SyncStores(bytes)
                 \/ /\ c' = [c EXCEPT !.readPos = c.readPos + Len(bytes),
                                      !.readInner = c.readPos + Len(bytes)]
                    /\ UNCHANGED theFile
         /\ faithful' = (faithful /\ \A i \in DOMAIN bytes : bytes[i] = io.at + i - 1)
         /\ io' = [io EXCEPT !.op = "none", !.left = 0, !.at = @ + Len(bytes)]
  BY Zenon DEF SyncReads
<1>3. c.readPos \in Nat /\ origin \in Nat /\ io.left \in Nat /\ app.entries \subseteq Entries
  BY CacheFields DEF CacheInv
<1>4. from \in Nat
  BY <1>3
<1>5. n \in Int /\ n <= io.left
  <2>1. CASE After(c.readPos) = {}
    BY <1>3, <2>1
  <2>2. CASE After(c.readPos) # {}
    <3>1. After(c.readPos) \subseteq Nat
      BY <1>3, EntryFields DEF After
    <3>2. Min(After(c.readPos)) \in Nat
      BY <2>2, <3>1, MinIs
    <3>3. rest \in Int /\ io.left \in Int
      BY <1>3, <3>2
    <3> HIDE DEF rest
    <3>4. Min({io.left, rest}) \in {io.left, rest} /\ Min({io.left, rest}) <= io.left
      BY <3>3, MinOfTwo, Zenon
    <3> QED BY <2>2, <3>3, <3>4
  <2> QED BY <2>1, <2>2
<1>6. from = IF c.readInner # c.readPos THEN c.readPos ELSE origin
  OBVIOUS
<1> HIDE DEF from, n
<1> QED BY <1>1, <1>2, <1>4, <1>5, <1>6, Zenon

LEMMA InnerBytesAre ==
    ASSUME NEW from \in Nat, NEW n \in Int, NEW bytes \in InnerBytes(from, n)
    PROVE  /\ bytes \in Seq(Nat) /\ Len(bytes) \in Nat /\ DOMAIN bytes = 1 .. Len(bytes)
           /\ bytes # << >> => Len(bytes) <= n
           /\ \A i \in 1 .. Len(bytes) : bytes[i] = from + i - 1
<1> DEFINE rest == ResourceSize - from
<1>1. rest \in Int /\ n \in Int
  BY CacheAssumption
<1>2. PICK m \in 0 .. Min({n, rest}) : bytes = [i \in 1 .. m |-> from + i - 1]
  BY DEF InnerBytes
<1> HIDE DEF rest
<1>3. Min({n, rest}) \in {n, rest} /\ Min({n, rest}) <= n
  BY <1>1, MinOfTwo, Zenon
<1>4. Min({n, rest}) \in Int
  BY <1>1, <1>3
<1>5. m \in Nat /\ m <= n
  BY <1>1, <1>3, <1>4
<1>6. \A i \in 1 .. m : from + i - 1 \in Nat
  BY <1>5
<1>7. bytes \in Seq(Nat) /\ Len(bytes) = m /\ DOMAIN bytes = 1 .. m
  BY <1>2, <1>5, <1>6
<1> QED BY <1>2, <1>5, <1>7

LEMMA SyncReadsKeeps == ASSUME CacheInv, SyncReads PROVE CacheInv'
<1>1. /\ c.forwards = 0 /\ io.op = "read" /\ UNCHANGED <<task, urgent>> /\ astray' = astray
  BY SyncReadsIs
<1>2. PICK from \in Nat, n \in Int : \E bytes \in InnerBytes(from, n) :
                /\ from = IF c.readInner # c.readPos THEN c.readPos ELSE origin
                /\ n <= io.left
                /\ origin' = from + Len(bytes)
                /\ \/ /\ bytes = << >> /\ c' = [c EXCEPT !.readInner = c.readPos] /\ UNCHANGED theFile
                   \/ bytes # << >> /\ SyncStores(bytes)
                   \/ /\ bytes # << >> /\ UNCHANGED theFile
                      /\ c' = [c EXCEPT !.readPos = c.readPos + Len(bytes),
                                        !.readInner = c.readPos + Len(bytes)]
                /\ faithful' = (faithful /\ \A i \in DOMAIN bytes : bytes[i] = io.at + i - 1)
                /\ io' = [io EXCEPT !.op = "none", !.left = 0, !.at = @ + Len(bytes)]
  BY SyncReadsIs, Zenon
<1>3. PICK bytes \in InnerBytes(from, n) :
                /\ from = IF c.readInner # c.readPos THEN c.readPos ELSE origin
                /\ n <= io.left
                /\ origin' = from + Len(bytes)
                /\ \/ /\ bytes = << >> /\ c' = [c EXCEPT !.readInner = c.readPos] /\ UNCHANGED theFile
                   \/ bytes # << >> /\ SyncStores(bytes)
                   \/ /\ bytes # << >> /\ UNCHANGED theFile
                      /\ c' = [c EXCEPT !.readPos = c.readPos + Len(bytes),
                                        !.readInner = c.readPos + Len(bytes)]
                /\ faithful' = (faithful /\ \A i \in DOMAIN bytes : bytes[i] = io.at + i - 1)
                /\ io' = [io EXCEPT !.op = "none", !.left = 0, !.at = @ + Len(bytes)]
  BY <1>2, Zenon
<1>4. /\ bytes \in Seq(Nat) /\ Len(bytes) \in Nat /\ DOMAIN bytes = 1 .. Len(bytes)
      /\ bytes # << >> => Len(bytes) <= n
      /\ \A i \in 1 .. Len(bytes) : bytes[i] = from + i - 1
  BY InnerBytesAre
<1>5. /\ c \in Contexts /\ c.readPos \in Nat /\ io.left \in Nat /\ io.left <= CacheChunk
      /\ c.forwards \in ForwardsOptions /\ io.at = c.readPos /\ c.cachePhysical = disk.at
  BY <1>1, CacheFields DEF CacheInv, CacheTypeOK, PosInv, OffsetInv
<1>6. ~ TreeAstray => from = c.readPos
  BY <1>1, <1>3 DEF CacheInv, InnerInv
<1>7. ~ TreeAstray => \A i \in 1 .. Len(bytes) : bytes[i] = c.readPos + i - 1
  BY <1>4, <1>6
<1>8. bytes # << >> => Len(bytes) <= CacheCapacity
  <2>1. CacheCapacity > c.forwards + CacheChunk
    BY <1>5, CacheAssumption
  <2> QED BY <1>1, <1>3, <1>4, <1>5, <2>1, CapacityIs
<1> DEFINE there == c.readPos + Len(bytes)
<1>9. there \in Nat /\ origin' \in Nat
  BY <1>3, <1>4, <1>5
<1>10. /\ FileInv' /\ SavedInv'
       /\ app' \in [entries : SUBSET Entries, last : Nat, shared : BOOLEAN]
       /\ saved' \in [tree : [entries : SUBSET Entries, last : Nat], stale : BOOLEAN]
       /\ disk' \in [bytes : [0 .. CacheCapacity - 1 -> Int], at : Nat]
       /\ c' = [c EXCEPT !.readPos = there, !.readInner = there, !.cachePhysical = disk'.at]
  <2>1. CASE bytes # << >> /\ SyncStores(bytes)
    <3>1. CASE app.last + Len(bytes) < CacheCapacity
      <4>1. Put(bytes)
        BY <1>1, <1>4, <1>7, <2>1, <3>1, PutAfter
      <4> QED BY <4>1, Zenon DEF Put
    <3>2. CASE app.last + Len(bytes) >= CacheCapacity
      <4>1. Put(bytes)
        BY <1>1, <1>4, <1>7, <1>8, <2>1, <3>2, PutAnew
      <4> QED BY <4>1, Zenon DEF Put
    <3>3. app.last \in Nat
      BY CacheFields DEF CacheInv
    <3> QED BY <1>4, <3>1, <3>2, <3>3, CapacityIs
  <2>2. ASSUME UNCHANGED theFile, c' = [c EXCEPT !.readPos = there, !.readInner = there]
        PROVE  /\ FileInv' /\ SavedInv'
               /\ app' \in [entries : SUBSET Entries, last : Nat, shared : BOOLEAN]
               /\ saved' \in [tree : [entries : SUBSET Entries, last : Nat], stale : BOOLEAN]
               /\ disk' \in [bytes : [0 .. CacheCapacity - 1 -> Int], at : Nat]
               /\ c' = [c EXCEPT !.readPos = there, !.readInner = there, !.cachePhysical = disk'.at]
    <3>1. UNCHANGED <<app, disk, saved>>
      BY <2>2 DEF theFile
    <3>2. FileInv' /\ SavedInv'
      BY <1>1, <3>1, FileStays DEF CacheInv
    <3> HIDE DEF there
    <3>3. c' = [c EXCEPT !.readPos = there, !.readInner = there, !.cachePhysical = disk'.at]
      BY <1>5, <1>9, <2>2, <3>1 DEF Contexts
    <3> QED BY <3>1, <3>2, <3>3 DEF CacheInv, CacheTypeOK
  <2>3. CASE bytes = << >> /\ c' = [c EXCEPT !.readInner = c.readPos] /\ UNCHANGED theFile
    <3>1. there = c.readPos
      BY <1>5, <2>3
    <3>2. c' = [c EXCEPT !.readPos = there, !.readInner = there]
      BY <1>5, <2>3, <3>1 DEF Contexts
    <3> QED BY <2>2, <2>3, <3>2
  <2> QED BY <1>3, <2>1, <2>2, <2>3
<1> HIDE DEF there
<1>11. disk'.at \in Nat
  BY <1>10
<1>12. /\ c' \in Contexts /\ c'.forwards = c.forwards /\ c'.cachePhysical = disk'.at
       /\ c'.closed = c.closed /\ c'.fileInner = c.fileInner /\ c'.readInner = there
       /\ c'.fileLogical = c.fileLogical /\ c'.paused = c.paused /\ c'.readPos = there
       /\ c'.seekRequest = c.seekRequest /\ c'.seekPos = c.seekPos /\ c'.seekDone = c.seekDone
       /\ c'.abort = c.abort
  BY <1>5, <1>9, <1>10, <1>11 DEF Contexts
<1>13. io' \in Calling /\ io'.op = "none" /\ io'.left = 0 /\ io'.at = there
  BY <1>3, <1>4, <1>5, AtEndOfRead DEF there
<1>14. faithful' \in BOOLEAN /\ (faithful /\ astray = {} => faithful')
  <2> DEFINE right == \A i \in DOMAIN bytes : bytes[i] = io.at + i - 1
  <2>1. faithful' = (faithful /\ right)
    BY <1>3, Zenon
  <2>2. astray = {} => right
    BY <1>4, <1>5, <1>7, NotAstray
  <2> HIDE DEF right
  <2> QED BY <2>1, <2>2, FaithfulIs, Zenon
<1>15. CacheTypeOK'
  BY <1>1, <1>5, <1>9, <1>10, <1>12, <1>13, <1>14 DEF CacheInv, CacheTypeOK, Calling
<1>16. OffsetInv'
  BY <1>1, <1>12 DEF OffsetInv
<1>17. TreeAstray' = TreeAstray
  BY <1>1 DEF TreeAstray
<1>18. ClosedInv'
  BY <1>1, <1>12, <1>13 DEF CacheInv, ClosedInv
<1>19. InnerInv'
  <2>1. task.pc = "gone" /\ task' = task
    BY <1>1 DEF CacheInv, ClosedInv
  <2>2. ~ TreeAstray => origin' = there
    BY <1>3, <1>6 DEF there
  <2> QED BY <1>1, <1>12, <1>17, <2>1, <2>2 DEF InnerInv
<1>20. PosInv'
  <2>1. faithful' \/ astray' # {}
    BY <1>1, <1>14 DEF CacheInv, PosInv, ReadsAreTrue
  <2> QED BY <1>1, <1>12, <1>13, <2>1, CapacityIs DEF CacheInv, PosInv, ReadsAreTrue
<1> QED BY <1>10, <1>15, <1>16, <1>18, <1>19, <1>20 DEF CacheInv

-----------------------------------------------------------------------------
(***************************************************************************)
(* The specification.                                                      *)
(***************************************************************************)
LEMMA CacheInitInv == CacheInit => CacheInv
<1> SUFFICES ASSUME CacheInit PROVE CacheInv
  OBVIOUS
<1>1. PICK forwards \in ForwardsOptions : c = Fresh(forwards, 0) /\ task = StartTask(forwards)
  BY DEF CacheInit
<1>2. /\ app = [entries |-> {}, last |-> 0, shared |-> FALSE]
      /\ disk = EmptyFile /\ saved = [tree |-> NoTree, stale |-> FALSE] /\ origin = 0
      /\ io = NoCall /\ waits = {} /\ urgent = FALSE /\ faithful = TRUE /\ astray = {}
  BY DEF CacheInit
<1>3. forwards \in Nat /\ CacheCapacity \in Nat
  BY CacheAssumption
<1>4. /\ c = [forwards |-> forwards, readPos |-> 0, readInner |-> 0, fileLogical |-> 0,
              fileInner |-> 0, fileEnd |-> 0, cachePhysical |-> 0, closed |-> FALSE,
              eof |-> FALSE, retry |-> 0, abort |-> FALSE,
              running |-> forwards > 0, paused |-> FALSE,
              seekRequest |-> FALSE, seekPos |-> 0, seekDone |-> FALSE]
  BY <1>1 DEF Fresh
<1>5. (forwards > 0) \in BOOLEAN
  BY <1>3
<1>6. c \in Contexts /\ c.forwards \in ForwardsOptions
  BY <1>3, <1>4, <1>5 DEF Contexts
<1>7. task \in [pc : TaskPlaces, bytes : Seq(Nat)] /\ task.pc \in {"top", "gone"} /\ (forwards = 0 => task.pc = "gone")
  BY <1>1, <1>3 DEF StartTask, NoTask, TaskPlaces
<1>8. io \in Calling /\ io.op = "none" /\ io.left = 0 /\ io.at = 0
  BY <1>2 DEF NoCall, Calling, CallNames
<1>9. disk \in [bytes : [0 .. CacheCapacity - 1 -> Int], at : Nat] /\ disk.at = 0
  BY <1>2, EmptyFileIs
<1>10. CacheTypeOK
  BY <1>2, <1>6, <1>7, <1>8, <1>9 DEF CacheTypeOK, Calling, NoTree
<1>11. FileInv
  BY <1>2, <1>3, TreeIs DEF FileInv, Within
<1>12. SavedInv
  BY <1>2, <1>3 DEF SavedInv, Within, NoTree
<1>13. OffsetInv /\ ClosedInv /\ InnerInv
  BY <1>2, <1>4, <1>7, <1>8, <1>9 DEF OffsetInv, ClosedInv, InnerInv, Working
<1>14. PosInv
  BY <1>2, <1>4, <1>8, CapacityIs DEF PosInv, ReadsAreTrue
<1> QED BY <1>10, <1>11, <1>12, <1>13, <1>14 DEF CacheInv

LEMMA CacheStutters == ASSUME CacheInv, UNCHANGED cacheVars PROVE CacheInv'
<1>1. UNCHANGED <<c, app, disk, saved, origin, task, io, waits, urgent, faithful, astray>>
  BY DEF cacheVars
<1>2. CacheTypeOK' /\ OffsetInv' /\ ClosedInv'
  BY <1>1 DEF CacheInv, CacheTypeOK, OffsetInv, ClosedInv, Working
<1>3. FileInv' /\ SavedInv'
  BY <1>1, FileStays DEF CacheInv
<1>4. InnerInv'
  <2>1. TreeAstray' = TreeAstray
    BY <1>1 DEF TreeAstray
  <2> QED BY <1>1, <2>1 DEF CacheInv, InnerInv, Working
<1>5. PosInv'
  BY <1>1 DEF CacheInv, PosInv, ReadsAreTrue
<1> QED BY <1>2, <1>3, <1>4, <1>5 DEF CacheInv

LEMMA CacheInvStep == CacheInv /\ [CacheNext]_cacheVars => CacheInv'
<1> SUFFICES ASSUME CacheInv, [CacheNext]_cacheVars PROVE CacheInv'
  OBVIOUS
<1>1. CASE CacheCall
  <2>1. ASSUME NEW n \in 1 .. CacheChunk, CacheRead(n) PROVE CacheInv'
    BY <2>1, CacheReadKeeps
  <2>2. ASSUME NEW pos \in CacheSeeks, CacheSeek(pos) PROVE CacheInv'
    BY <2>2, CacheSeekKeeps
  <2>3. CASE Pause
    BY <2>3, EndsKeeps DEF Pause
  <2>4. CASE CacheClose
    BY <2>4, EndsKeeps DEF CacheClose
  <2> QED BY <1>1, <2>1, <2>2, <2>3, <2>4, CacheInterruptKeeps, ShareKeeps, UnshareKeeps, DieKeeps,
             RestartKeeps DEF CacheCall
<1>2. CASE CacheReader
  BY <1>2, ReadDirectlyKeeps, CacheReadInterruptedKeeps, ReadGoesOnKeeps, ReadFromFileKeeps,
     ReadFileFailsKeeps, ReadFindsNothingKeeps, SyncTakesKeeps, SyncFileFailsKeeps, SyncReadsKeeps,
     SyncEndsKeeps, CacheSeekInterruptedKeeps, CacheSeekEndsKeeps, CacheSeekWaitsKeeps, PauseEndsKeeps,
     CacheCloseEndsKeeps DEF CacheReader
<1>3. CASE CacheTask
  BY <1>3, TaskBeginsKeeps, TaskStopsKeeps, TaskDecidesKeeps, TaskRestsKeeps, TaskWakesKeeps,
     WriteNothingKeeps, WriteFailsKeeps, WriteCannotSeekKeeps, WriteFindsEndKeeps, WriteReadsKeeps,
     StoreFailsKeeps, StoreGivesUpKeeps, StoreOverrunsKeeps, StoreKeeps, TaskTellsKeeps, TaskEndsKeeps
     DEF CacheTask
<1> QED BY <1>1, <1>2, <1>3, CacheStutters DEF CacheNext

\* The invariant the two theorems below rest on: the tree lies within the end of the file,
\* a saved tree that is not stale is still true of it, the offset of the file is where the code
\* takes it to be, and so is the inner protocol unless the code has lost its place.
THEOREM CacheInvHolds == CacheSpec => []CacheInv
<1>1. CacheInit => CacheInv
  BY CacheInitInv
<1>2. CacheInv /\ [CacheNext]_cacheVars => CacheInv'
  BY CacheInvStep
<1> QED BY <1>1, <1>2, PTL DEF CacheSpec

\* No entry of the tree names bytes of another place of the resource, for any resource, any
\* capacities and any number of failures, deaths and restarts, but for the two ways the code
\* has of losing its place.
THEOREM TreeIsTrueHolds == CacheSpec => []TreeIsTrue
<1>1. CacheInv => TreeIsTrue
  BY DEF CacheInv, FileInv
<1> QED BY <1>1, CacheInvHolds, PTL

\* A reader gets the bytes it asked for, over reads, seeks, pauses, full and failing files and
\* restarts, unless the code lost its place or closed the cache behind the reader's back.
THEOREM ReadsAreTrueHolds == CacheSpec => []ReadsAreTrue
<1>1. CacheInv => ReadsAreTrue
  BY DEF CacheInv, PosInv
<1> QED BY <1>1, CacheInvHolds, PTL
===============================================================================
