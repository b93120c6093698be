------------------------- MODULE CoordinatorProofs -------------------------
(***************************************************************************)
(* Proofs about Coordinator, for every tree, thresholds, transport and     *)
(* number of workers.                                                      *)
(*                                                                         *)
(* The inductive invariant IInv follows every job and every object.  A     *)
(* file that was begun is in exactly one place (OneJob): offered, in a     *)
(* worker's queue or hands, posted, or with the coordinator; the counts    *)
(* are the sizes of those places (Counts).  The books are a ledger over    *)
(* the source tree: a frontier of objects whose territories, they and all  *)
(* below them, are apart and undiscovered; objects that are started,       *)
(* exactly those discovered without an outcome; everything else has an     *)
(* outcome or lies below a directory that failed or was excluded.  A step  *)
(* resolves an object of the frontier, begins one, finishes a started one  *)
(* or moves nothing (ResolvedOne, BegunOne, FinishedOne, Moved).           *)
(***************************************************************************)
EXTENDS Coordinator, SequenceTheorems, FiniteSetTheorems, TLAPS

\* What a sequence holds, the files some jobs are for, and sequences without repetition.
Elems(s) == {s[i] : i \in DOMAIN s}
Names(S) == {x.file : x \in S}
Once(s) == \A i, k \in DOMAIN s : s[i] = s[k] => i = k
OneEach(s) == \A i, k \in DOMAIN s : s[i].file = s[k].file => i = k

\* The walk still goes on; the coordinator works inside a directory.
Live == pc \notin {"joining", "ended"}
InWork == pc \in {"entries", "submit", "offer", "yield", "requeue", "exit"}

\* Directories to be entered and to be left, and all that is still to be discovered.
Waiting == {d \in Dirs : Task("Enter", d) \in Elems(tasks)}
Leaving == {d \in Dirs : Task("Exit", d) \in Elems(tasks)}
Frontier == Waiting \cup kids \cup todo
Territory(o) == {o} \cup Below(o)

\* Where files are: queued, taken or posted, with the coordinator, or offered.
Queued(w) == Names(Elems(queue[w]))
Taken(w) == Names(batch[w])
Posted == Names(Elems(results))
Flying == {f \in Files : f \in Posted \/ \E w \in Workers : f \in Queued(w) \cup Taken(w)}
Own == Elems(inline)
Offer == IF job = None THEN {} ELSE {job.file}
Held == Flying \cup Own \cup Offer

\* What is begun and has no outcome yet.
OpenDirs == Leaving \cup (IF InWork THEN {cur} ELSE {})
Started == Held \cup OpenDirs

---------------------------------------------------------------------------
\* Where the coordinator is tells what is left to do.
Control ==
    /\ ~Live => inline = <<>>
    /\ busy => inline # <<>>
    /\ job # None => pc \in {"submit", "offer"} \/ ~Live
    /\ pc \in {"loop", "yield", "requeue", "exit", "drain"} => todo = {} /\ kids = {}
    /\ pc = "children" => todo = {} /\ kids \subseteq Entries(cur) /\ cur \in Leaving
    /\ pc \in {"entries", "submit", "offer"} => todo \cup kids \subseteq Entries(cur)
    /\ pc = "drain" => tasks = <<>>
    /\ exit # 7 \/ aborted => ~Live

\* No file is in two places, or in one place twice.
OneJob ==
    /\ \A w \in Workers : OneEach(queue[w])
    /\ \A w \in Workers : \A j, k \in batch[w] : j.file = k.file => j = k
    /\ OneEach(results) /\ Once(inline)
    /\ \A w \in Workers : Queued(w) \cap Taken(w) = {}
    /\ \A v, w \in Workers : v # w => (Queued(v) \cup Taken(v)) \cap (Queued(w) \cup Taken(w)) = {}
    /\ \A w \in Workers : (Queued(w) \cup Taken(w)) \cap Posted = {}
    /\ Flying \cap Own = {} /\ (Flying \cup Own) \cap Offer = {}

\* No directory is twice on the deque, or both on it and still to be created.
OneTask ==
    /\ Once(tasks)
    /\ Waiting \cap (kids \cup todo) = {} /\ kids \cap todo = {}
    /\ InWork => cur \notin Leaving

\* The counts are the sizes of a set of files, and of its parts by directory.
Counted(out, dir, F) ==
    /\ out = Cardinality(F)
    /\ \A d \in Dirs : dir[d] = Cardinality({f \in F : Parent[f] = d})

\* The ledger: what has been seen and settled, F still to be discovered, O started.
Resolved(sn, st, F, o) ==
    \/ sn[o] = 1
    \/ \E x \in F : o \in Territory(x)
    \/ \E a \in Above[o], out \in Failures \cup {"excluded"} : st[a] = <<out>>
Ledger(sn, st, F, O) ==
    /\ \A o \in Objects : sn[o] <= 1 /\ Len(st[o]) <= sn[o]
    /\ \A o \in Objects : o \in O <=> sn[o] = 1 /\ st[o] = <<>>
    /\ \A x \in F : \A o \in Territory(x) : sn[o] = 0
    /\ \A x, y \in F : x # y => Territory(x) \cap Territory(y) = {}
    /\ \A o \in Objects : Resolved(sn, st, F, o)

\* After the walk: what the exit code says.
Closed ==
    /\ \A o \in Objects : seen[o] <= 1 /\ Len(settled[o]) <= seen[o]
    /\ ~aborted => \A o \in Objects : Len(settled[o]) = seen[o]
    /\ exit = 0 => \A o \in Objects :
         \/ settled[o] \in {<<"copied">>, <<"skipped">>, <<"done">>}
         \/ \E a \in Above[o] \cup {o} : settled[a] = <<"excluded">>
    /\ exit = 3 => requested
Books == IF Live THEN Ledger(seen, settled, Frontier, Started) ELSE Closed
Counts == Live => Counted(outstanding, dir_outstanding, Flying)

\* The stop flags have their cause, and so has a canceled completion.
Stops ==
    /\ canceled \/ worker_cancel => requested \/ breaker
    /\ \A i \in DOMAIN results : results[i].out = "canceled" => worker_cancel

\* So has an object that was not attempted, or canceled.
Outcomes ==
    /\ \A o \in Objects : settled[o] = <<"not_attempted">> => breaker \/ AnyFailed
    /\ \A o \in Objects : settled[o] = <<"canceled">> => canceled

\* A stamped directory is finished, and nothing held can disturb it.
Stamps ==
    /\ \A d \in Dirs : stamp[d] # "dirty"
    /\ \A d \in Dirs : stamp[d] = "clean" => settled[d] # <<>>
    /\ \A f \in Held : stamp[Parent[f]] = "unset"

\* While there is a journal, every job on its way is handed back before it needs it.
Limited(j) == j.limit # None /\ j.limit <= CheckpointThreshold
JobsOf(w) == Elems(queue[w]) \cup batch[w]
Journalled ==
    /\ journal => \A w \in Workers : \A j \in JobsOf(w) : Limited(j)
    /\ journal /\ job # None => Limited(job)
    /\ WorkersNeedNoJournal

\* The inductive invariant.
IInv ==
    /\ TypeOK
    /\ Control
    /\ OneTask
    /\ OneJob
    /\ Counts
    /\ Books
    /\ Stops
    /\ Outcomes
    /\ Stamps
    /\ Journalled
    /\ PhasesApart

---------------------------------------------------------------------------
(* Sequences without repetition: appending, taking the head, popping the   *)
(* end and pushing below.                                                  *)

\* Appending a new element.
LEMMA Appended ==
    ASSUME NEW S, NEW s \in Seq(S), NEW x \in S
    PROVE  /\ Append(s, x) \in Seq(S) /\ Elems(Append(s, x)) = Elems(s) \cup {x}
           /\ Once(s) /\ x \notin Elems(s) => Once(Append(s, x))
           /\ OneEach(s) /\ x.file \notin Names(Elems(s)) => OneEach(Append(s, x))
<1>1. /\ Append(s, x) \in Seq(S) /\ Len(Append(s, x)) = Len(s) + 1 /\ Len(s) \in Nat
      /\ DOMAIN Append(s, x) = 1 .. Len(s) + 1 /\ DOMAIN s = 1 .. Len(s)
      /\ \A i \in DOMAIN s : Append(s, x)[i] = s[i]
      /\ Append(s, x)[Len(s) + 1] = x
  OBVIOUS
<1> DEFINE t == Append(s, x)
<1> HIDE DEF t
<1>2. Elems(t) = Elems(s) \cup {x}
  BY <1>1 DEF Elems, t
<1>3. Once(s) /\ x \notin Elems(s) => Once(t)
  BY <1>1 DEF Elems, Once, t
<1>4. OneEach(s) /\ x.file \notin Names(Elems(s)) => OneEach(t)
  <2> SUFFICES ASSUME OneEach(s), x.file \notin Names(Elems(s)),
                      NEW i \in DOMAIN t, NEW k \in DOMAIN t, t[i].file = t[k].file
               PROVE  i = k
    BY DEF OneEach
  <2>1. \A n \in DOMAIN s : s[n].file # x.file
    BY DEF Names, Elems
  <2>2. CASE i \in DOMAIN s /\ k \in DOMAIN s
    BY <1>1, <2>2 DEF OneEach, t
  <2>3. CASE i \in DOMAIN s /\ k = Len(s) + 1
    BY <1>1, <2>1, <2>3 DEF t
  <2>4. CASE i = Len(s) + 1 /\ k \in DOMAIN s
    BY <1>1, <2>1, <2>4 DEF t
  <2>5. CASE i = Len(s) + 1 /\ k = Len(s) + 1
    BY <2>5
  <2> QED BY <1>1, <2>2, <2>3, <2>4, <2>5 DEF t
<1> QED BY <1>1, <1>2, <1>3, <1>4 DEF t

\* Taking the head.
LEMMA Headed ==
    ASSUME NEW S, NEW s \in Seq(S), s # <<>>
    PROVE  /\ Tail(s) \in Seq(S) /\ Head(s) \in S /\ Head(s) \in Elems(s)
           /\ Elems(s) = Elems(Tail(s)) \cup {Head(s)}
           /\ OneEach(s) => OneEach(Tail(s)) /\ Head(s).file \notin Names(Elems(Tail(s)))
<1>1. /\ Tail(s) \in Seq(S) /\ Head(s) = s[1] /\ Len(s) \in Nat \ {0} /\ DOMAIN s = 1 .. Len(s)
      /\ Head(s) \in S
      /\ DOMAIN Tail(s) = 1 .. Len(s) - 1 /\ \A i \in 1 .. Len(s) - 1 : Tail(s)[i] = s[i + 1]
  BY HeadTailProperties
<1> DEFINE t == Tail(s)
           h == Head(s)
<1> HIDE DEF t, h
<1>2. \A i \in DOMAIN t : i + 1 \in DOMAIN s /\ t[i] = s[i + 1] /\ i + 1 # 1
  BY <1>1 DEF t
<1>3. \A i \in DOMAIN s : i = 1 \/ (i - 1 \in DOMAIN t /\ s[i] = t[i - 1])
  <2> SUFFICES ASSUME NEW i \in DOMAIN s, i # 1 PROVE i - 1 \in DOMAIN t /\ s[i] = t[i - 1]
    OBVIOUS
  <2>1. i - 1 \in 1 .. Len(s) - 1 /\ (i - 1) + 1 = i
    BY <1>1
  <2> QED BY <1>1, <2>1 DEF t
<1>4. Elems(s) = Elems(t) \cup {h} /\ h \in Elems(s)
  BY <1>1, <1>2, <1>3 DEF Elems, h
<1>5. OneEach(s) => OneEach(t) /\ h.file \notin Names(Elems(t))
  BY <1>1, <1>2 DEF OneEach, Names, Elems, h, t
<1> QED BY <1>1, <1>4, <1>5 DEF t, h

\* Popping the end.
LEMMA Popped ==
    ASSUME NEW S, NEW s \in Seq(S), s # <<>>
    PROVE  /\ SubSeq(s, 1, Len(s) - 1) \in Seq(S) /\ s[Len(s)] \in S /\ s[Len(s)] \in Elems(s)
           /\ Elems(s) = Elems(SubSeq(s, 1, Len(s) - 1)) \cup {s[Len(s)]}
           /\ Once(s) => /\ Once(SubSeq(s, 1, Len(s) - 1))
                         /\ s[Len(s)] \notin Elems(SubSeq(s, 1, Len(s) - 1))
<1>1. Len(s) \in Nat \ {0} /\ DOMAIN s = 1 .. Len(s) /\ \A i \in DOMAIN s : s[i] \in S
  OBVIOUS
<1>2. /\ SubSeq(s, 1, Len(s) - 1) \in Seq(S)
      /\ DOMAIN SubSeq(s, 1, Len(s) - 1) = 1 .. Len(s) - 1
      /\ \A i \in 1 .. Len(s) - 1 : SubSeq(s, 1, Len(s) - 1)[i] = s[i]
  BY <1>1
<1> DEFINE t == SubSeq(s, 1, Len(s) - 1)
           z == s[Len(s)]
<1> HIDE DEF t
<1>3. \A i \in DOMAIN s : i = Len(s) \/ (i \in DOMAIN t /\ s[i] = t[i])
  BY <1>1, <1>2 DEF t
<1>4. \A i \in DOMAIN t : i \in DOMAIN s /\ t[i] = s[i] /\ i # Len(s)
  BY <1>1, <1>2 DEF t
<1>5. Elems(s) = Elems(t) \cup {z} /\ z \in Elems(s) /\ z \in S
  BY <1>1, <1>3, <1>4 DEF Elems
<1>6. Once(s) => Once(t) /\ z \notin Elems(t)
  BY <1>1, <1>4 DEF Once, Elems
<1> QED BY <1>2, <1>5, <1>6 DEF t

\* Pushing a new element below all others.
LEMMA Pushed ==
    ASSUME NEW S, NEW s \in Seq(S), NEW x \in S
    PROVE  /\ <<x>> \o s \in Seq(S) /\ Elems(<<x>> \o s) = Elems(s) \cup {x}
           /\ Once(s) /\ x \notin Elems(s) => Once(<<x>> \o s)
<1>1. /\ <<x>> \o s \in Seq(S) /\ Len(s) \in Nat /\ DOMAIN s = 1 .. Len(s)
      /\ DOMAIN (<<x>> \o s) = 1 .. Len(s) + 1
      /\ (<<x>> \o s)[1] = x
      /\ \A i \in 1 .. Len(s) : (<<x>> \o s)[i + 1] = s[i]
  OBVIOUS
<1> DEFINE t == <<x>> \o s
<1> HIDE DEF t
<1>2. \A i \in DOMAIN t : i = 1 \/ (i - 1 \in DOMAIN s /\ t[i] = s[i - 1])
  <2> SUFFICES ASSUME NEW i \in DOMAIN t, i # 1 PROVE i - 1 \in DOMAIN s /\ t[i] = s[i - 1]
    OBVIOUS
  <2>1. i - 1 \in 1 .. Len(s) /\ (i - 1) + 1 = i
    BY <1>1 DEF t
  <2> QED BY <1>1, <2>1 DEF t
<1>3. \A i \in DOMAIN s : i + 1 \in DOMAIN t /\ t[i + 1] = s[i]
  BY <1>1 DEF t
<1>4. 1 \in DOMAIN t /\ t[1] = x /\ t \in Seq(S)
  BY <1>1 DEF t
<1>5. Elems(t) = Elems(s) \cup {x}
  BY <1>2, <1>3, <1>4 DEF Elems
<1>6. Once(s) /\ x \notin Elems(s) => Once(t)
  <2> SUFFICES ASSUME Once(s), x \notin Elems(s), NEW i \in DOMAIN t, NEW k \in DOMAIN t,
                      t[i] = t[k]
               PROVE  i = k
    BY DEF Once
  <2>1. \A n \in DOMAIN s : s[n] # x
    BY DEF Elems
  <2>2. i \in Nat /\ k \in Nat
    BY <1>1 DEF t
  <2> QED BY <1>2, <1>4, <2>1, <2>2 DEF Once
<1> QED BY <1>4, <1>5, <1>6 DEF t

---------------------------------------------------------------------------
(* The source tree.  Above is a recursive function: it exists because the  *)
(* set of objects that every upward-closed set holds obeys its equation.   *)

\* Every object that is not Root has a parent, a directory.
LEMMA Parents == \A o \in Objects \ {Root} : Parent[o] \in Dirs /\ Parent[o] \in Objects
  BY TreeAssumption DEF Objects

\* Induction along the tree.
LEMMA TreeInduction ==
    ASSUME NEW P \in SUBSET Objects, Root \in P,
           \A o \in Objects \ {Root} : Parent[o] \in P => o \in P
    PROVE  P = Objects
  BY TreeAssumption

\* Above obeys the equation that defines it.
LEMMA AboveUnfolds ==
    Above = [o \in Objects |-> IF o = Root THEN {} ELSE {Parent[o]} \cup Above[Parent[o]]]
<1> DEFINE Up(S) == \A x \in S : x # Root => Parent[x] \in S
           C(o) == {a \in Objects : \A S \in SUBSET Objects :
                      (o # Root => Parent[o] \in S) /\ Up(S) => a \in S}
           g == [o \in Objects |-> C(o)]
<1>1. C(Root) = {}
  <2>1. Up({}) /\ {} \in SUBSET Objects
    OBVIOUS
  <2> QED BY <2>1
<1>2. ASSUME NEW o \in Objects \ {Root}
      PROVE  C(o) = {Parent[o]} \cup C(Parent[o])
  <2> DEFINE p == Parent[o]
             T == {p} \cup C(p)
  <2>1. p \in Objects
    BY Parents
  <2>2. p \in C(o)
    BY <2>1
  <2>3. \A a \in C(p) : a \in C(o)
    OBVIOUS
  <2>4. T \in SUBSET Objects
    BY <2>1
  <2>5. ASSUME NEW x \in T, x # Root PROVE Parent[x] \in T
    <3>1. Parent[x] \in Objects
      BY <2>4, <2>5, Parents
    <3>2. CASE x = p
      <4>1. Parent[x] \in C(p)
        BY <3>1, <3>2, <2>5
      <4> QED BY <4>1
    <3>3. CASE x \in C(p)
      <4>1. Parent[x] \in C(p)
        BY <3>1, <3>3, <2>5
      <4> QED BY <4>1
    <3> QED BY <3>2, <3>3
  <2>6. p \in T /\ Up(T)
    BY <2>5
  <2>7. \A a \in C(o) : a \in T
    BY <2>4, <2>6
  <2> QED BY <2>2, <2>3, <2>7
<1> HIDE DEF C
<1>3. g = [o \in Objects |-> IF o = Root THEN {} ELSE {Parent[o]} \cup g[Parent[o]]]
  <2>1. \A o \in Objects : g[o] = IF o = Root THEN {} ELSE {Parent[o]} \cup g[Parent[o]]
    BY <1>1, <1>2, Parents
  <2> QED BY <2>1
<1> HIDE DEF g
<1> QED BY <1>3 DEF Above

\* Root has nothing above it; any other object its parent and what is above that.
LEMMA AboveIs ==
    /\ Root \in Objects /\ Above[Root] = {}
    /\ \A o \in Objects \ {Root} : Above[o] = {Parent[o]} \cup Above[Parent[o]]
<1>1. \A o \in Objects : Above[o] = IF o = Root THEN {} ELSE {Parent[o]} \cup Above[Parent[o]]
  BY AboveUnfolds
<1> QED BY <1>1, TreeAssumption DEF Objects

\* Only directories are above anything.
LEMMA AboveDirs == \A o \in Objects : Above[o] \subseteq Dirs
<1> DEFINE P == {o \in Objects : Above[o] \subseteq Dirs}
<1>1. P = Objects
  <2>1. Root \in P
    BY AboveIs
  <2>2. \A o \in Objects \ {Root} : Parent[o] \in P => o \in P
    BY AboveIs, Parents
  <2> HIDE DEF P
  <2>3. P \in SUBSET Objects
    BY DEF P
  <2> QED BY <2>1, <2>2, <2>3, TreeInduction
<1> QED BY <1>1

\* What is above a directory above an object is above the object.
LEMMA AboveAbove == \A o \in Objects : \A a \in Above[o] : Above[a] \subseteq Above[o]
<1> DEFINE P == {o \in Objects : \A a \in Above[o] : Above[a] \subseteq Above[o]}
<1>1. P = Objects
  <2>1. Root \in P
    BY AboveIs
  <2>2. \A o \in Objects \ {Root} : Parent[o] \in P => o \in P
    BY AboveIs, Parents
  <2> HIDE DEF P
  <2>3. P \in SUBSET Objects
    BY DEF P
  <2> QED BY <2>1, <2>2, <2>3, TreeInduction
<1> QED BY <1>1

\* Nothing is above itself.
LEMMA NoCycle == \A o \in Objects : o \notin Above[o]
<1> DEFINE P == {o \in Objects : o \notin Above[o]}
<1>1. P = Objects
  <2>1. Root \in P
    BY AboveIs
  <2>2. ASSUME NEW o \in Objects \ {Root}, Parent[o] \in P PROVE o \in P
    <3>1. Above[o] = {Parent[o]} \cup Above[Parent[o]] /\ Parent[o] \in Objects
      BY AboveIs, Parents
    <3>2. o # Parent[o]
      BY <3>1, <2>2
    <3>3. o \in Above[Parent[o]] => Parent[o] \in Above[Parent[o]]
      BY <3>1, AboveAbove
    <3> QED BY <3>1, <3>2, <3>3, <2>2
  <2> HIDE DEF P
  <2>3. P \in SUBSET Objects
    BY DEF P
  <2> QED BY <2>1, <2>2, <2>3, TreeInduction
<1> QED BY <1>1

\* What is above one object is a chain.
LEMMA Chain ==
    \A o \in Objects : \A a, b \in Above[o] : a = b \/ a \in Above[b] \/ b \in Above[a]
<1> DEFINE P == {o \in Objects : \A a, b \in Above[o] : a = b \/ a \in Above[b] \/ b \in Above[a]}
<1>1. P = Objects
  <2>1. Root \in P
    BY AboveIs
  <2>2. ASSUME NEW o \in Objects \ {Root}, Parent[o] \in P PROVE o \in P
    <3>1. Above[o] = {Parent[o]} \cup Above[Parent[o]] /\ Parent[o] \in Objects
      BY AboveIs, Parents
    <3> QED BY <3>1, <2>2
  <2> HIDE DEF P
  <2>3. P \in SUBSET Objects
    BY DEF P
  <2> QED BY <2>1, <2>2, <2>3, TreeInduction
<1> QED BY <1>1

\* Root's territory is the whole tree.
LEMMA RootTerritory == Territory(Root) = Objects
<1> DEFINE P == {o \in Objects : o = Root \/ Root \in Above[o]}
<1>1. P = Objects
  <2>1. Root \in P
    BY AboveIs
  <2>2. \A o \in Objects \ {Root} : Parent[o] \in P => o \in P
    BY AboveIs, Parents
  <2> HIDE DEF P
  <2>3. P \in SUBSET Objects
    BY DEF P
  <2> QED BY <2>1, <2>2, <2>3, TreeInduction
<1> QED BY <1>1, AboveIs DEF Territory, Below

\* A file has no entries, and is its whole territory.
LEMMA FileTerritory == \A f \in Files : Entries(f) = {} /\ Territory(f) = {f}
  BY AboveDirs, Parents, TreeAssumption DEF Territory, Below, Entries, Objects

\* An object's territory is the object and the territories of its entries,
LEMMA EntryTerritory ==
    ASSUME NEW d \in Objects
    PROVE  /\ Entries(d) \subseteq Objects
           /\ \A e \in Entries(d) : Territory(e) \subseteq Territory(d) /\ d \notin Territory(e)
           /\ \A o \in Territory(d) : o = d \/ \E e \in Entries(d) : o \in Territory(e)
<1>1. Entries(d) \subseteq Objects
  BY DEF Entries
<1>2. ASSUME NEW e \in Entries(d) PROVE Territory(e) \subseteq Territory(d) /\ d \notin Territory(e)
  <2>1. e \in Objects \ {Root} /\ Parent[e] = d /\ d \in Above[e] /\ d \in Objects
    BY AboveIs DEF Entries
  <2>2. e # d /\ e \notin Above[d]
    BY <2>1, NoCycle, AboveAbove
  <2> QED BY <2>1, <2>2, AboveAbove DEF Territory, Below
<1>3. \A o \in Territory(d) : o = d \/ \E e \in Entries(d) : o \in Territory(e)
  <2> DEFINE P == {o \in Objects : d \in Above[o] => \E e \in Entries(d) : o \in Territory(e)}
  <2>1. Root \in P
    BY AboveIs
  <2>2. ASSUME NEW o \in Objects \ {Root}, Parent[o] \in P PROVE o \in P
    <3>1. Above[o] = {Parent[o]} \cup Above[Parent[o]] /\ Parent[o] \in Objects
      BY AboveIs, Parents
    <3>2. CASE Parent[o] = d
      BY <3>2 DEF Entries, Territory
    <3>3. CASE d \in Above[Parent[o]]
      <4>1. PICK e \in Entries(d) : Parent[o] \in Territory(e)
        BY <2>2, <3>3
      <4>2. e \in Above[o]
        BY <3>1, <4>1 DEF Territory, Below
      <4> QED BY <4>2 DEF Territory, Below
    <3> QED BY <3>1, <3>2, <3>3
  <2> HIDE DEF P
  <2>3. P \in SUBSET Objects
    BY DEF P
  <2>4. P = Objects
    BY <2>1, <2>2, <2>3, TreeInduction
  <2> QED BY <2>4 DEF P, Territory, Below
<1> QED BY <1>1, <1>2, <1>3

\* which are apart from each other.
LEMMA SiblingsApart ==
    ASSUME NEW d \in Objects, NEW a \in Entries(d), NEW b \in Entries(d), a # b
    PROVE  Territory(a) \cap Territory(b) = {}
<1>1. /\ a \in Objects \ {Root} /\ Parent[a] = d /\ Above[a] = {d} \cup Above[d]
      /\ b \in Objects \ {Root} /\ Parent[b] = d /\ Above[b] = {d} \cup Above[d]
  BY AboveIs DEF Entries
<1>2. a \notin Above[b] /\ b \notin Above[a]
  BY <1>1, NoCycle
<1>3. ASSUME NEW o \in Objects, o = a \/ a \in Above[o], o = b \/ b \in Above[o] PROVE FALSE
  BY <1>2, <1>3, Chain
<1> QED BY <1>1, <1>3 DEF Territory, Below

---------------------------------------------------------------------------
(* The ledger.                                                             *)

Booked(sn, X) == [o \in Objects |-> IF o \in X THEN sn[o] + 1 ELSE sn[o]]
Settling(st, new) == [o \in Objects |-> IF o \in DOMAIN new THEN Append(st[o], new[o]) ELSE st[o]]

\* What a ledger says of an object not yet discovered, and of one with an outcome.
LEMMA LedgerFacts ==
    ASSUME NEW sn \in [Objects -> Nat], NEW st \in [Objects -> Seq(Terminal)],
           NEW F, NEW O, Ledger(sn, st, F, O), NEW o \in Objects
    PROVE  /\ sn[o] \in {0, 1} /\ (sn[o] = 0 => st[o] = <<>>)
           /\ \A out : st[o] = <<out>> => sn[o] = 1
<1>1. sn[o] \in Nat /\ st[o] \in Seq(Terminal) /\ Len(st[o]) \in Nat
  OBVIOUS
<1>2. sn[o] <= 1 /\ Len(st[o]) <= sn[o]
  BY DEF Ledger
<1>3. sn[o] = 0 => st[o] = <<>>
  BY <1>1, <1>2, EmptySeq
<1>4. ASSUME NEW out, st[o] = <<out>> PROVE sn[o] = 1
  <2>1. st[o] # <<>>
    BY <1>4
  <2> QED BY <1>1, <1>2, <1>3, <2>1
<1> QED BY <1>1, <1>2, <1>3, <1>4

\* Outcomes are given at once to objects below one of F, which is then resolved.
LEMMA Resolve ==
    ASSUME NEW sn \in [Objects -> Nat], NEW st \in [Objects -> Seq(Terminal)],
           NEW F \in SUBSET Objects, NEW O, Ledger(sn, st, F, O),
           NEW x \in F, NEW X \in SUBSET Territory(x), x \in X,
           NEW new \in [X -> Terminal], x \in Files \/ new[x] \in Failures \cup {"excluded"}
    PROVE  Ledger(Booked(sn, X), Settling(st, new), F \ {x}, O)
<1> DEFINE sn1 == Booked(sn, X)
           st1 == Settling(st, new)
<1>0. X \subseteq Objects
  BY DEF Territory, Below
<1>1. \A o \in X : sn[o] = 0 /\ st[o] = <<>>
  BY <1>0, LedgerFacts DEF Ledger
<1>2. \A o \in X : sn1[o] = 1 /\ st1[o] = <<new[o]>> /\ Len(st1[o]) = 1 /\ st1[o] # <<>>
  <2> TAKE o \in X
  <2>1. sn1[o] = 1
    BY <1>0, <1>1 DEF Booked
  <2>2. st1[o] = Append(<<>>, new[o])
    BY <1>0, <1>1 DEF Settling
  <2>3. Append(<<>>, new[o]) = <<new[o]>> /\ Len(<<new[o]>>) = 1 /\ <<new[o]>> # <<>>
    OBVIOUS
  <2> QED BY <2>1, <2>2, <2>3
<1>3. \A o \in Objects \ X : sn1[o] = sn[o] /\ st1[o] = st[o]
  BY DEF Booked, Settling
<1> HIDE DEF sn1, st1
<1>4. \A o \in Objects : sn1[o] <= 1 /\ Len(st1[o]) <= sn1[o]
  <2> TAKE o \in Objects
  <2>1. CASE o \in X
    <3>1. sn1[o] = 1 /\ Len(st1[o]) = 1
      BY <1>2, <2>1
    <3> QED BY <3>1
  <2>2. CASE o \notin X
    BY <1>3, <2>2 DEF Ledger
  <2> QED BY <2>1, <2>2
<1>5. \A o \in Objects : o \in O <=> sn1[o] = 1 /\ st1[o] = <<>>
  <2> TAKE o \in Objects
  <2>1. CASE o \in X
    BY <1>1, <1>2, <2>1 DEF Ledger
  <2>2. CASE o \notin X
    BY <1>3, <2>2 DEF Ledger
  <2> QED BY <2>1, <2>2
<1>6. \A y \in F \ {x} : \A o \in Territory(y) : sn1[o] = 0
  <2> TAKE y \in F \ {x}
  <2> TAKE o \in Territory(y)
  <2>1. o \in Objects /\ o \notin Territory(x) /\ sn[o] = 0
    BY DEF Ledger, Territory, Below
  <2> QED BY <1>3, <2>1
<1>7. \A y, z \in F \ {x} : y # z => Territory(y) \cap Territory(z) = {}
  BY DEF Ledger
<1>8. \A o \in Objects : Resolved(sn1, st1, F \ {x}, o)
  <2> TAKE o \in Objects
  <2>1. Resolved(sn, st, F, o)
    BY DEF Ledger
  <2>2. CASE sn[o] = 1
    BY <1>1, <1>3, <2>2 DEF Resolved
  <2>3. CASE \E y \in F \ {x} : o \in Territory(y)
    BY <2>3 DEF Resolved
  <2>4. CASE o \in Territory(x)
    <3>1. CASE o = x
      BY <1>2, <3>1 DEF Resolved
    <3>2. CASE o # x
      <4>1. x \in Above[o] /\ x \in Dirs
        BY <2>4, <3>2, AboveDirs DEF Territory, Below
      <4>2. st1[x] = <<new[x]>> /\ new[x] \in Failures \cup {"excluded"}
        BY <1>2, <4>1, TreeAssumption
      <4> QED BY <4>1, <4>2 DEF Resolved
    <3> QED BY <3>1, <3>2
  <2>5. ASSUME NEW a \in Above[o], NEW out \in Failures \cup {"excluded"}, st[a] = <<out>>
        PROVE  Resolved(sn1, st1, F \ {x}, o)
    <3>1. a \in Objects
      BY AboveDirs DEF Objects
    <3>2. sn[a] = 1
      BY <2>5, <3>1, LedgerFacts
    <3>3. st1[a] = <<out>>
      BY <1>1, <1>3, <2>5, <3>1, <3>2
    <3> QED BY <3>3 DEF Resolved
  <2> QED BY <2>1, <2>2, <2>3, <2>4, <2>5 DEF Resolved
<1> QED BY <1>4, <1>5, <1>6, <1>7, <1>8 DEF Ledger, sn1, st1

\* An object of F is started; its entries take its place.
LEMMA Begin ==
    ASSUME NEW sn \in [Objects -> Nat], NEW st \in [Objects -> Seq(Terminal)],
           NEW F \in SUBSET Objects, NEW O, Ledger(sn, st, F, O), NEW x \in F
    PROVE  Ledger(Booked(sn, {x}), st, (F \ {x}) \cup Entries(x), O \cup {x})
<1> DEFINE sn1 == Booked(sn, {x})
           G == (F \ {x}) \cup Entries(x)
<1>1. x \in Objects /\ x \in Territory(x) /\ sn[x] = 0 /\ st[x] = <<>>
  BY LedgerFacts DEF Ledger, Territory
<1>2. sn1[x] = 1 /\ \A o \in Objects \ {x} : sn1[o] = sn[o]
  BY <1>1 DEF Booked
<1> HIDE DEF sn1
<1>3. \A o \in Objects : sn1[o] <= 1 /\ Len(st[o]) <= sn1[o]
  BY <1>1, <1>2 DEF Ledger
<1>4. \A o \in Objects : o \in O \cup {x} <=> sn1[o] = 1 /\ st[o] = <<>>
  BY <1>1, <1>2 DEF Ledger
<1>5. /\ Entries(x) \subseteq Objects
      /\ \A e \in Entries(x) : Territory(e) \subseteq Territory(x) /\ x \notin Territory(e)
      /\ \A o \in Territory(x) : o = x \/ \E e \in Entries(x) : o \in Territory(e)
  BY <1>1, EntryTerritory
<1>6. \A y \in G : x \notin Territory(y) /\ Territory(y) \subseteq Objects
  BY <1>1, <1>5 DEF Ledger, Territory, Below
<1>7. \A y \in G : \A o \in Territory(y) : sn1[o] = 0
  <2> TAKE y \in G
  <2> TAKE o \in Territory(y)
  <2>1. o \in Objects \ {x}
    BY <1>6
  <2>2. sn[o] = 0
    BY <1>5 DEF Ledger
  <2> QED BY <1>2, <2>1, <2>2
<1>8. \A y, z \in G : y # z => Territory(y) \cap Territory(z) = {}
  <2> SUFFICES ASSUME NEW y \in G, NEW z \in G, y # z PROVE Territory(y) \cap Territory(z) = {}
    OBVIOUS
  <2>1. CASE y \in Entries(x) /\ z \in Entries(x)
    BY <1>1, <2>1, SiblingsApart
  <2>2. CASE y \in F \ {x} /\ z \in F \ {x}
    BY <2>2 DEF Ledger
  <2>3. CASE y \in F \ {x} /\ z \in Entries(x)
    BY <1>5, <2>3 DEF Ledger
  <2>4. CASE y \in Entries(x) /\ z \in F \ {x}
    BY <1>5, <2>4 DEF Ledger
  <2> QED BY <2>1, <2>2, <2>3, <2>4
<1>9. \A o \in Objects : Resolved(sn1, st, G, o)
  <2> TAKE o \in Objects
  <2>1. Resolved(sn, st, F, o)
    BY DEF Ledger
  <2>2. CASE o \in Territory(x)
    BY <1>2, <1>5, <2>2 DEF Resolved
  <2>3. CASE o \notin Territory(x)
    BY <1>1, <1>2, <2>1, <2>3 DEF Resolved
  <2> QED BY <2>2, <2>3
<1> QED BY <1>3, <1>4, <1>7, <1>8, <1>9 DEF Ledger, sn1

\* A started object gets its outcome.
LEMMA Finish ==
    ASSUME NEW sn \in [Objects -> Nat], NEW st \in [Objects -> Seq(Terminal)],
           NEW F, NEW O, Ledger(sn, st, F, O), NEW x \in O, x \in Objects, NEW out \in Terminal
    PROVE  Ledger(sn, Settling(st, Only(x, out)), F, O \ {x})
<1> DEFINE st1 == Settling(st, Only(x, out))
<1>1. sn[x] = 1 /\ st[x] = <<>>
  BY DEF Ledger
<1>2. st1[x] = <<out>> /\ Len(st1[x]) = 1 /\ st1[x] # <<>>
  BY <1>1 DEF Settling, Only
<1>3. \A o \in Objects \ {x} : st1[o] = st[o]
  BY DEF Settling, Only
<1> HIDE DEF st1
<1>4. \A o \in Objects : sn[o] <= 1 /\ Len(st1[o]) <= sn[o]
  BY <1>1, <1>2, <1>3 DEF Ledger
<1>5. \A o \in Objects : o \in O \ {x} <=> sn[o] = 1 /\ st1[o] = <<>>
  BY <1>2, <1>3 DEF Ledger
<1>6. \A o \in Objects : Resolved(sn, st1, F, o)
  <2> TAKE o \in Objects
  <2>1. Resolved(sn, st, F, o)
    BY DEF Ledger
  <2>2. ASSUME NEW a \in Above[o], NEW ot \in Failures \cup {"excluded"}, st[a] = <<ot>>
        PROVE  Resolved(sn, st1, F, o)
    <3>1. a \in Objects /\ a # x
      <4>1. a \in Objects
        BY AboveDirs DEF Objects
      <4>2. st[a] # <<>>
        BY <2>2
      <4> QED BY <1>1, <4>1, <4>2
    <3> QED BY <1>3, <2>2, <3>1 DEF Resolved
  <2> QED BY <2>1, <2>2 DEF Resolved
<1> QED BY <1>4, <1>5, <1>6 DEF Ledger, st1

---------------------------------------------------------------------------
(* Types.                                                                  *)

WalkTypes ==
    /\ tasks \in Seq([op : {"Enter", "Exit"}, dir : Dirs])
    /\ pc \in Pcs /\ cur \in Dirs /\ todo \subseteq Objects /\ kids \subseteq Dirs
    /\ job \in Jobs \cup {None} /\ (pc \in {"submit", "offer"} => job # None)
    /\ inline \in Seq(Files) /\ busy \in BOOLEAN
PoolTypes ==
    /\ queue \in [Workers -> Seq(Jobs)] /\ batch \in [Workers -> SUBSET Jobs]
    /\ gathering \in [Workers -> BOOLEAN] /\ alive \in [Workers -> BOOLEAN]
    /\ results \in Seq(Completions)
FlagTypes ==
    /\ outstanding \in Nat /\ dir_outstanding \in [Dirs -> Nat]
    /\ requested \in BOOLEAN /\ canceled \in BOOLEAN /\ worker_cancel \in BOOLEAN
    /\ breaker \in BOOLEAN /\ journal \in BOOLEAN /\ aborted \in BOOLEAN
    /\ breaker_streak \in Nat /\ exit \in Nat
BookTypes ==
    /\ seen \in [Objects -> Nat] /\ settled \in [Objects -> Seq(Terminal)]
    /\ stamp \in [Dirs -> {"unset", "clean", "dirty"}]
    /\ by \in [Files -> {"nobody", "worker", "coordinator"}]

\* The invariant gives every type.
LEMMA Typed == IInv => TypeOK /\ WalkTypes /\ PoolTypes /\ FlagTypes /\ BookTypes
  BY DEF IInv, TypeOK, WalkTypes, PoolTypes, FlagTypes, BookTypes

StopTypes ==
    /\ canceled \in BOOLEAN /\ worker_cancel \in BOOLEAN /\ breaker \in BOOLEAN
    /\ breaker_streak \in Nat

\* Files have parents.
LEMMA FileParents == \A f \in Files : f \in Objects \ {Root} /\ Parent[f] \in Dirs
  BY Parents, TreeAssumption DEF Objects

\* A tally keeps the flags' types.
LEMMA TallyTyped ==
    IInv => /\ \A out, stop : stop \in BOOLEAN /\ Tally(out, stop) => StopTypes'
            /\ UNCHANGED stopVars => StopTypes'
<1> SUFFICES ASSUME IInv PROVE /\ \A out, stop : stop \in BOOLEAN /\ Tally(out, stop) => StopTypes'
                               /\ UNCHANGED stopVars => StopTypes'
  OBVIOUS
<1>1. UNCHANGED stopVars => StopTypes'
  BY Typed DEF FlagTypes, StopTypes, stopVars
<1>2. ASSUME NEW out, NEW stop \in BOOLEAN, Tally(out, stop) PROVE StopTypes'
  <2>1. breaker_streak' \in Nat
    BY <1>2, Typed DEF FlagTypes, Tally
  <2>2. canceled' \in BOOLEAN /\ worker_cancel' \in BOOLEAN /\ breaker' \in BOOLEAN
    BY <1>2, Typed, Zenon DEF FlagTypes, Tally
  <2> QED BY <2>1, <2>2 DEF StopTypes
<1> QED BY <1>1, <1>2

\* A promotion threshold is a number or None; None is no job.
LEMMA ThresholdTyped == PromoteThreshold \in Nat \cup {None}
<1>1. LargeThreshold \in Nat /\ CheckpointThreshold \in Nat
  BY SizeAssumption
<1>2. Min({LargeThreshold, CheckpointThreshold}) \in Nat
  BY <1>1 DEF Min
<1> QED BY <1>1, <1>2 DEF PromoteThreshold

\* Types of the pool.
LEMMA PoolTypesStep == ASSUME IInv, [Next]_vars PROVE PoolTypes'
<1>1. CASE SubmitFileJob
  <2>1. job \in Jobs /\ job.worker \in Workers /\ queue[job.worker] \in Seq(Jobs)
    BY <1>1, Typed DEF PoolTypes, WalkTypes, SubmitFileJob, Jobs
  <2>2. Append(queue[job.worker], job) \in Seq(Jobs)
    BY <2>1
  <2>3. /\ queue' = [queue EXCEPT ![job.worker] = Append(queue[job.worker], job)]
        /\ UNCHANGED <<batch, gathering, alive, results>>
    BY <1>1 DEF SubmitFileJob
  <2> QED BY <2>2, <2>3, Typed DEF PoolTypes
<1>2. CASE ReceiveFileJob
  <2>1. results \in Seq(Completions) /\ results # <<>>
    BY <1>2, Typed DEF PoolTypes, ReceiveFileJob
  <2>2. Tail(results) \in Seq(Completions)
    BY <2>1
  <2> QED BY <1>2, <2>2, Typed DEF PoolTypes, ReceiveFileJob
<1>3. ASSUME NEW w \in Workers, Take(w) PROVE PoolTypes'
  <2>1. queue[w] \in Seq(Jobs) /\ queue[w] # <<>>
    BY <1>3, Typed DEF PoolTypes, Take
  <2>2. Tail(queue[w]) \in Seq(Jobs) /\ Head(queue[w]) \in Jobs
    BY <2>1
  <2>3. /\ queue' = [queue EXCEPT ![w] = Tail(queue[w])]
        /\ batch' = [batch EXCEPT ![w] = batch[w] \cup {Head(queue[w])}]
        /\ gathering' = [gathering EXCEPT ![w] = SameSpindle]
        /\ UNCHANGED <<alive, results>>
    BY <1>3 DEF Take
  <2> QED BY <2>2, <2>3, Typed DEF PoolTypes, SameSpindle
<1>4. ASSUME NEW w \in Workers, StartBatch(w) PROVE PoolTypes'
  BY <1>4, Typed
     DEF PoolTypes, WalkTypes, StartBatch, vars, walkVars, poolVars, countVars, stopVars,
         endVars
<1>5. ASSUME NEW w \in Workers, Complete(w) PROVE PoolTypes'
  <2>0. PICK j \in batch[w] : \E out \in WorkerOutcomes(j) :
            /\ results' = Append(results, [file |-> j.file, out |-> out])
            /\ batch' = [batch EXCEPT ![w] = @ \ {j}]
    BY <1>5 DEF Complete
  <2>1. PICK out \in WorkerOutcomes(j) :
            /\ results' = Append(results, [file |-> j.file, out |-> out])
            /\ batch' = [batch EXCEPT ![w] = @ \ {j}]
    BY <2>0
  <2>2. [file |-> j.file, out |-> out] \in Completions
    BY Typed DEF PoolTypes, Jobs, Completions, WorkerOutcomes, Failures
  <2> QED BY <1>5, <2>1, <2>2, Typed DEF PoolTypes, Complete
<1>6. ASSUME NEW w \in Workers, CompleteUnheard(w) PROVE PoolTypes'
  BY <1>6, Typed
     DEF PoolTypes, WalkTypes, CompleteUnheard, vars, walkVars, poolVars, countVars, stopVars,
         endVars
<1>7. ASSUME NEW w \in Workers, WorkerQuits(w) PROVE PoolTypes'
  BY <1>7, Typed
     DEF PoolTypes, WalkTypes, WorkerQuits, vars, walkVars, poolVars, countVars, stopVars,
         endVars
<1>8. CASE UNCHANGED vars
  BY <1>8, Typed DEF PoolTypes, vars, walkVars, poolVars, countVars, stopVars, endVars
<1>9. ASSUME \/ EnterStopped
           \/ EnterFails
           \/ EnterDirectory
           \/ (\E o \in Objects : EntryStopped(o))
           \/ (\E o \in Objects : EntryFails(o))
           \/ (\E o \in Objects : EntryExcluded(o))
           \/ (\E o \in Objects : FileSkipped(o))
           \/ (\E o \in Objects : FileDispatched(o))
           \/ (\E o \in Objects : FileInline(o))
           \/ (\E o \in Objects : ChildDirectory(o))
           \/ (\E o \in Objects : ChildReady(o))
           \/ (\E o \in Objects : ChildFails(o))
           \/ EntriesDone
           \/ ChildrenDone
           \/ ExitTask
           \/ Requeue
           \/ ExitDirectory
           \/ PollCancellation
           \/ BeginInline
           \/ EndInline
           \/ WalkDone
           \/ Finalize
           \/ JoinWorkers
           \/ Abort
           \/ RequestCancel
      PROVE  PoolTypes'
  BY <1>9, Typed
     DEF PoolTypes, EnterStopped, EnterFails, EnterDirectory, EntryStopped, EntryFails,
         EntryExcluded, FileSkipped, FileDispatched, FileInline, ChildDirectory, ChildReady,
         ChildFails, EntriesDone, ChildrenDone, ExitTask, Requeue, ExitDirectory,
         PollCancellation, BeginInline, EndInline, WalkDone, Finalize, JoinWorkers, Abort,
         RequestCancel, AtEntry, vars, walkVars, poolVars, countVars, stopVars, endVars
<1> QED BY <1>1, <1>2, <1>3, <1>4, <1>5, <1>6, <1>7, <1>8, <1>9 DEF Next, Walk, Work, Ended

\* Types of the walk.
LEMMA WalkTypesStep == ASSUME IInv, [Next]_vars PROVE WalkTypes'
<1>1. CASE EnterStopped
  <2>1. tasks \in Seq([op : {"Enter", "Exit"}, dir : Dirs]) /\ tasks # <<>>
    BY <1>1, Typed DEF WalkTypes, EnterStopped, AtLoop
  <2>2. /\ SubSeq(tasks, 1, Len(tasks) - 1) \in Seq([op : {"Enter", "Exit"}, dir : Dirs])
        /\ NextTask \in [op : {"Enter", "Exit"}, dir : Dirs]
    BY <2>1, Popped DEF NextTask
  <2> QED BY <1>1, <2>2, Typed DEF WalkTypes, EnterStopped, Pop, Pcs, Entries
<1>2. CASE EnterFails
  <2>1. tasks \in Seq([op : {"Enter", "Exit"}, dir : Dirs]) /\ tasks # <<>>
    BY <1>2, Typed DEF WalkTypes, EnterFails, AtLoop
  <2>2. /\ SubSeq(tasks, 1, Len(tasks) - 1) \in Seq([op : {"Enter", "Exit"}, dir : Dirs])
        /\ NextTask \in [op : {"Enter", "Exit"}, dir : Dirs]
    BY <2>1, Popped DEF NextTask
  <2> QED BY <1>2, <2>2, Typed DEF WalkTypes, EnterFails, Pop, Pcs, Entries
<1>3. CASE EnterDirectory
  <2>1. tasks \in Seq([op : {"Enter", "Exit"}, dir : Dirs]) /\ tasks # <<>>
    BY <1>3, Typed DEF WalkTypes, EnterDirectory, AtLoop
  <2>2. /\ SubSeq(tasks, 1, Len(tasks) - 1) \in Seq([op : {"Enter", "Exit"}, dir : Dirs])
        /\ NextTask \in [op : {"Enter", "Exit"}, dir : Dirs]
    BY <2>1, Popped DEF NextTask
  <2> QED BY <1>3, <2>2, Typed DEF WalkTypes, EnterDirectory, Pop, Pcs, Entries
<1>4. ASSUME NEW o \in Objects, EntryStopped(o) PROVE WalkTypes'
  BY <1>4, Typed DEF WalkTypes, EntryStopped, AtEntry, Pcs
<1>5. ASSUME NEW o \in Objects, EntryFails(o) PROVE WalkTypes'
  BY <1>5, Typed DEF WalkTypes, EntryFails, AtEntry, Pcs
<1>6. ASSUME NEW o \in Objects, EntryExcluded(o) PROVE WalkTypes'
  BY <1>6, Typed DEF WalkTypes, EntryExcluded, AtEntry, Pcs
<1>7. ASSUME NEW o \in Objects, FileSkipped(o) PROVE WalkTypes'
  BY <1>7, Typed DEF WalkTypes, FileSkipped, AtEntry, Pcs
<1>8. ASSUME NEW o \in Objects, FileDispatched(o) PROVE WalkTypes'
  <2>1. PICK w \in Workers : job' = [file |-> o, worker |-> w, limit |-> PromoteThreshold]
    BY <1>8 DEF FileDispatched
  <2>2. job' \in Jobs /\ job' # None
    BY <1>8, <2>1, ThresholdTyped, PoolAssumption DEF Jobs, FileDispatched
  <2> QED BY <1>8, <2>2, Typed DEF WalkTypes, FileDispatched, AtEntry, Pcs
<1>9. ASSUME NEW o \in Objects, FileInline(o) PROVE WalkTypes'
  BY <1>9, Typed DEF WalkTypes, FileInline, AtEntry, Pcs
<1>10. ASSUME NEW o \in Objects, ChildDirectory(o) PROVE WalkTypes'
  BY <1>10, Typed DEF WalkTypes, ChildDirectory, AtEntry, Pcs
<1>11. ASSUME NEW o \in Objects, ChildReady(o) PROVE WalkTypes'
  BY <1>11, Typed DEF WalkTypes, ChildReady, Pcs, Task
<1>12. ASSUME NEW o \in Objects, ChildFails(o) PROVE WalkTypes'
  BY <1>12, Typed DEF WalkTypes, ChildFails, Pcs, Task, walkVars
<1>13. CASE EntriesDone
  BY <1>13, Typed DEF WalkTypes, EntriesDone, Pcs, Task, walkVars
<1>14. CASE ChildrenDone
  BY <1>14, Typed DEF WalkTypes, ChildrenDone, Pcs, Task, walkVars
<1>15. CASE ExitTask
  <2>1. tasks \in Seq([op : {"Enter", "Exit"}, dir : Dirs]) /\ tasks # <<>>
    BY <1>15, Typed DEF WalkTypes, ExitTask, AtLoop
  <2>2. /\ SubSeq(tasks, 1, Len(tasks) - 1) \in Seq([op : {"Enter", "Exit"}, dir : Dirs])
        /\ NextTask \in [op : {"Enter", "Exit"}, dir : Dirs]
    BY <2>1, Popped DEF NextTask
  <2> QED BY <1>15, <2>2, Typed DEF WalkTypes, ExitTask, Pop, Pcs, Entries
<1>16. CASE Requeue
  BY <1>16, Typed DEF WalkTypes, Requeue, Pcs, Task, walkVars
<1>17. CASE ExitDirectory
  BY <1>17, Typed DEF WalkTypes, ExitDirectory, Pcs, Task, walkVars
<1>18. CASE SubmitFileJob
  BY <1>18, Typed DEF WalkTypes, SubmitFileJob, Pcs, walkVars
<1>19. CASE ReceiveFileJob
  <2>1. results \in Seq(Completions) /\ results # <<>>
    BY <1>19, Typed DEF PoolTypes, ReceiveFileJob
  <2>a. Head(results) \in Completions
    BY <2>1
  <2>2. Head(results).file \in Files
    BY <2>a DEF Completions
  <2>3. /\ inline' = inline \/ inline' = Append(inline, Head(results).file)
        /\ pc' = AfterReceive /\ UNCHANGED <<tasks, cur, todo, kids, job, busy>>
    BY <1>19 DEF ReceiveFileJob, walkVars
  <2>4. pc' \in Pcs /\ (pc' \in {"submit", "offer"} => pc \in {"submit", "offer"})
    BY <2>3, Typed DEF WalkTypes, AfterReceive, Pcs
  <2> QED BY <2>2, <2>3, <2>4, Typed DEF WalkTypes
<1>20. CASE BeginInline
  BY <1>20, Typed DEF WalkTypes, BeginInline, Pcs, walkVars
<1>21. CASE EndInline
  <2>1. inline \in Seq(Files) /\ inline # <<>>
    BY <1>21, Typed DEF WalkTypes, EndInline
  <2>2. SubSeq(inline, 1, Len(inline) - 1) \in Seq(Files)
    BY <2>1, Popped
  <2> QED BY <1>21, <2>2, Typed DEF WalkTypes, EndInline, walkVars
<1>22. CASE WalkDone
  BY <1>22, Typed DEF WalkTypes, WalkDone, Pcs, walkVars
<1>23. CASE Finalize
  BY <1>23, Typed DEF WalkTypes, Finalize, Pcs, walkVars
<1>24. CASE JoinWorkers
  BY <1>24, Typed DEF WalkTypes, JoinWorkers, Pcs, walkVars
<1>25. CASE Abort
  BY <1>25, Typed DEF WalkTypes, Abort, Pcs, walkVars
<1>26. CASE UNCHANGED vars
  BY <1>26, Typed DEF WalkTypes, vars, walkVars, poolVars, countVars, stopVars, endVars
<1>27. ASSUME \/ PollCancellation
           \/ (\E w \in Workers : Take(w))
           \/ (\E w \in Workers : StartBatch(w))
           \/ (\E w \in Workers : Complete(w))
           \/ (\E w \in Workers : CompleteUnheard(w))
           \/ (\E w \in Workers : WorkerQuits(w))
           \/ RequestCancel
      PROVE  WalkTypes'
  BY <1>27, Typed
     DEF WalkTypes, PollCancellation, Take, StartBatch, Complete, CompleteUnheard, WorkerQuits,
         RequestCancel, vars, walkVars, poolVars, countVars, stopVars, endVars
<1> QED BY <1>1, <1>2, <1>3, <1>4, <1>5, <1>6, <1>7, <1>8, <1>9, <1>10, <1>11, <1>12, <1>13, <1>14, <1>15, <1>16, <1>17, <1>18, <1>19, <1>20, <1>21, <1>22, <1>23, <1>24, <1>25, <1>26, <1>27 DEF Next, Walk, Work, Ended

\* Types of the counts and the flags.
LEMMA FlagTypesStep == ASSUME IInv, [Next]_vars PROVE FlagTypes'
<1>1. CASE EnterStopped
  <2>1. \/ UNCHANGED stopVars
        \/ \E out, stop : stop \in BOOLEAN /\ Tally(out, stop)
    BY <1>1, Typed DEF FlagTypes, EnterStopped, Observe, stopVars
  <2>2. StopTypes'
    BY <2>1, TallyTyped
  <2> QED BY <1>1, <2>2, Typed DEF FlagTypes, StopTypes, EnterStopped, countVars, endVars
<1>2. CASE EnterFails
  <2>1. \/ UNCHANGED stopVars
        \/ \E out, stop : stop \in BOOLEAN /\ Tally(out, stop)
    BY <1>2, Typed DEF FlagTypes, EnterFails, stopVars
  <2>2. StopTypes'
    BY <2>1, TallyTyped
  <2> QED BY <1>2, <2>2, Typed DEF FlagTypes, StopTypes, EnterFails, countVars, endVars
<1>3. ASSUME NEW o \in Objects, EntryFails(o) PROVE FlagTypes'
  <2>1. \/ UNCHANGED stopVars
        \/ \E out, stop : stop \in BOOLEAN /\ Tally(out, stop)
    BY <1>3, Typed DEF FlagTypes, EntryFails, stopVars
  <2>2. StopTypes'
    BY <2>1, TallyTyped
  <2> QED BY <1>3, <2>2, Typed DEF FlagTypes, StopTypes, EntryFails, AtEntry, countVars, endVars
<1>4. ASSUME NEW o \in Objects, FileSkipped(o) PROVE FlagTypes'
  <2>1. \/ UNCHANGED stopVars
        \/ \E out, stop : stop \in BOOLEAN /\ Tally(out, stop)
    BY <1>4, Typed DEF FlagTypes, FileSkipped, stopVars
  <2>2. StopTypes'
    BY <2>1, TallyTyped
  <2> QED BY <1>4, <2>2, Typed DEF FlagTypes, StopTypes, FileSkipped, AtEntry, countVars, endVars
<1>5. ASSUME NEW o \in Objects, ChildFails(o) PROVE FlagTypes'
  <2>1. \/ UNCHANGED stopVars
        \/ \E out, stop : stop \in BOOLEAN /\ Tally(out, stop)
    BY <1>5, Typed DEF FlagTypes, ChildFails, stopVars
  <2>2. StopTypes'
    BY <2>1, TallyTyped
  <2> QED BY <1>5, <2>2, Typed DEF FlagTypes, StopTypes, ChildFails, countVars, endVars
<1>6. CASE ExitTask
  <2>1. \/ UNCHANGED stopVars
        \/ \E out, stop : stop \in BOOLEAN /\ Tally(out, stop)
    BY <1>6, Typed DEF FlagTypes, ExitTask, Observe, stopVars
  <2>2. StopTypes'
    BY <2>1, TallyTyped
  <2> QED BY <1>6, <2>2, Typed DEF FlagTypes, StopTypes, ExitTask, countVars, endVars
<1>7. CASE ExitDirectory
  <2>1. \/ UNCHANGED stopVars
        \/ \E out, stop : stop \in BOOLEAN /\ Tally(out, stop)
    BY <1>7, Typed DEF FlagTypes, ExitDirectory, stopVars
  <2>2. StopTypes'
    BY <2>1, TallyTyped
  <2> QED BY <1>7, <2>2, Typed DEF FlagTypes, StopTypes, ExitDirectory, countVars, endVars
<1>8. CASE SubmitFileJob
  <2>1. /\ outstanding' = outstanding + 1
        /\ dir_outstanding' = [dir_outstanding EXCEPT ![Parent[job.file]] = @ + 1]
        /\ UNCHANGED <<requested, journal, stopVars, endVars>>
    BY <1>8 DEF SubmitFileJob
  <2>2. Parent[job.file] \in Dirs
    BY <1>8, Typed, FileParents DEF WalkTypes, SubmitFileJob, Jobs
  <2>3. dir_outstanding[Parent[job.file]] + 1 \in Nat /\ outstanding + 1 \in Nat
    BY <2>2, Typed DEF FlagTypes
  <2>4. dir_outstanding' \in [Dirs -> Nat]
    BY <2>1, <2>2, <2>3, Typed DEF FlagTypes
  <2> QED BY <2>1, <2>3, <2>4, Typed DEF FlagTypes, stopVars, endVars
<1>9. CASE ReceiveFileJob
  <2>1. \E out, stop : stop \in BOOLEAN /\ Tally(out, stop)
    BY <1>9, Typed DEF FlagTypes, ReceiveFileJob, Observe
  <2>2. StopTypes'
    BY <2>1, TallyTyped
  <2>3. outstanding' \in Nat
    BY <1>9, Typed DEF FlagTypes, ReceiveFileJob
  <2>4. dir_outstanding' \in [Dirs -> Nat]
    <3> DEFINE d == Parent[Head(results).file]
    <3>1. dir_outstanding' = [dir_outstanding EXCEPT ![d] = IF @ = 0 THEN 0 ELSE @ - 1]
      BY <1>9 DEF ReceiveFileJob
    <3>2. d \in Dirs
      <4>1. results \in Seq(Completions) /\ results # <<>>
        BY <1>9, Typed DEF PoolTypes, ReceiveFileJob
      <4>2. Head(results) \in Completions
        BY <4>1
      <4> QED BY <4>2, FileParents DEF Completions
    <3> HIDE DEF d
    <3>3. dir_outstanding[d] \in Nat
      BY <3>2, Typed DEF FlagTypes
    <3> QED BY <3>1, <3>2, <3>3, Typed DEF FlagTypes
  <2> QED BY <1>9, <2>2, <2>3, <2>4, Typed DEF FlagTypes, StopTypes, ReceiveFileJob, endVars
<1>10. CASE PollCancellation
  <2>1. \/ UNCHANGED stopVars
        \/ \E out, stop : stop \in BOOLEAN /\ Tally(out, stop)
    BY <1>10, Typed DEF FlagTypes, PollCancellation, Observe, stopVars
  <2>2. StopTypes'
    BY <2>1, TallyTyped
  <2> QED BY <1>10, <2>2, Typed DEF FlagTypes, StopTypes, PollCancellation, countVars, endVars
<1>11. CASE EndInline
  <2>1. \/ UNCHANGED stopVars
        \/ \E out, stop : stop \in BOOLEAN /\ Tally(out, stop)
    BY <1>11, Typed DEF FlagTypes, EndInline, stopVars
  <2>2. StopTypes'
    BY <2>1, TallyTyped
  <2> QED BY <1>11, <2>2, Typed DEF FlagTypes, StopTypes, EndInline, countVars, endVars
<1>12. CASE Finalize
  BY <1>12, Typed DEF FlagTypes, Finalize, CompletedExit, countVars, stopVars
<1>13. CASE Abort
  BY <1>13, Typed DEF FlagTypes, Abort, countVars, stopVars
<1>14. CASE RequestCancel
  BY <1>14, Typed DEF FlagTypes, RequestCancel, countVars, stopVars, endVars
<1>15. CASE UNCHANGED vars
  BY <1>15, Typed DEF FlagTypes, vars, walkVars, poolVars, countVars, stopVars, endVars
<1>16. ASSUME \/ EnterDirectory
           \/ (\E o \in Objects : EntryStopped(o))
           \/ (\E o \in Objects : EntryExcluded(o))
           \/ (\E o \in Objects : FileDispatched(o))
           \/ (\E o \in Objects : FileInline(o))
           \/ (\E o \in Objects : ChildDirectory(o))
           \/ (\E o \in Objects : ChildReady(o))
           \/ EntriesDone
           \/ ChildrenDone
           \/ Requeue
           \/ BeginInline
           \/ WalkDone
           \/ JoinWorkers
           \/ (\E w \in Workers : Take(w))
           \/ (\E w \in Workers : StartBatch(w))
           \/ (\E w \in Workers : Complete(w))
           \/ (\E w \in Workers : CompleteUnheard(w))
           \/ (\E w \in Workers : WorkerQuits(w))
      PROVE  FlagTypes'
  BY <1>16, Typed
     DEF FlagTypes, EnterDirectory, EntryStopped, EntryExcluded, FileDispatched, FileInline,
         ChildDirectory, ChildReady, EntriesDone, ChildrenDone, Requeue, BeginInline, WalkDone,
         JoinWorkers, Take, StartBatch, Complete, CompleteUnheard, WorkerQuits, AtEntry, vars,
         walkVars, poolVars, countVars, stopVars, endVars
<1> QED BY <1>1, <1>2, <1>3, <1>4, <1>5, <1>6, <1>7, <1>8, <1>9, <1>10, <1>11, <1>12, <1>13, <1>14, <1>15, <1>16 DEF Next, Walk, Work, Ended

---------------------------------------------------------------------------
(* Where jobs are: what each action that moves one does to the sets of     *)
(* files offered, queued, taken, posted and held by the coordinator.       *)

jobVars == <<queue, batch, results, inline, job>>

\* Only nine actions move a job.
LEMMA JobMoves ==
    ASSUME [Next]_vars
    PROVE  \/ UNCHANGED jobVars
           \/ \E o \in Objects : FileDispatched(o) \/ FileInline(o)
           \/ SubmitFileJob \/ ReceiveFileJob \/ EndInline \/ Abort
           \/ \E w \in Workers : Take(w) \/ Complete(w) \/ CompleteUnheard(w)
<1>1. CASE UNCHANGED vars
  BY <1>1 DEF vars, walkVars, poolVars, jobVars
<1>2. ASSUME \/ EnterStopped \/ EnterFails \/ EnterDirectory \/ EntriesDone \/ ChildrenDone
             \/ ExitTask \/ Requeue \/ ExitDirectory \/ PollCancellation \/ BeginInline
             \/ WalkDone \/ Finalize \/ JoinWorkers \/ RequestCancel
             \/ \E w \in Workers : StartBatch(w) \/ WorkerQuits(w)
      PROVE  UNCHANGED jobVars
  BY <1>2 DEF EnterStopped, EnterFails, EnterDirectory, EntriesDone, ChildrenDone, ExitTask,
     Requeue, ExitDirectory, PollCancellation, BeginInline, WalkDone, Finalize, JoinWorkers,
     RequestCancel, StartBatch, WorkerQuits, walkVars, poolVars, jobVars
<1>3. ASSUME \E o \in Objects : \/ EntryStopped(o) \/ EntryFails(o) \/ EntryExcluded(o)
                                \/ FileSkipped(o) \/ ChildDirectory(o) \/ ChildReady(o)
                                \/ ChildFails(o)
      PROVE  UNCHANGED jobVars
  BY <1>3 DEF EntryStopped, EntryFails, EntryExcluded, FileSkipped, ChildDirectory, ChildReady,
     ChildFails, AtEntry, walkVars, poolVars, jobVars
<1> QED BY <1>1, <1>2, <1>3 DEF Next, Walk, Work, Ended

\* An undiscovered object is not held by anybody.
LEMMA Fresh == IInv /\ Live => \A o \in Frontier : o \in Objects /\ o \notin Started
<1> SUFFICES ASSUME IInv, Live, NEW o \in Frontier PROVE o \in Objects /\ o \notin Started
  OBVIOUS
<1>1. Frontier \subseteq Objects
  BY Typed DEF Frontier, Waiting, WalkTypes, Objects
<1>2. Ledger(seen, settled, Frontier, Started)
  BY DEF IInv, Books
<1>3. seen[o] = 0
  BY <1>1, <1>2 DEF Ledger, Territory
<1> QED BY <1>1, <1>2, <1>3 DEF Ledger

\* The places hold files.
LEMMA PlacesTyped ==
    IInv => /\ \A w \in Workers : Queued(w) \subseteq Files /\ Taken(w) \subseteq Files
            /\ Posted \subseteq Files /\ Own \subseteq Files /\ Offer \subseteq Files
            /\ Flying \subseteq Files /\ Held \subseteq Files
<1> SUFFICES ASSUME IInv
             PROVE  /\ \A w \in Workers : Queued(w) \subseteq Files /\ Taken(w) \subseteq Files
                    /\ Posted \subseteq Files /\ Own \subseteq Files /\ Offer \subseteq Files
                    /\ Flying \subseteq Files /\ Held \subseteq Files
  OBVIOUS
<1>1. ASSUME NEW w \in Workers PROVE Queued(w) \subseteq Files /\ Taken(w) \subseteq Files
  <2>1. queue[w] \in Seq(Jobs) /\ batch[w] \in SUBSET Jobs
    BY Typed DEF PoolTypes
  <2>2. \A i \in DOMAIN queue[w] : queue[w][i] \in Jobs
    BY <2>1
  <2> QED BY <2>1, <2>2 DEF Queued, Taken, Names, Elems, Jobs
<1>2. Posted \subseteq Files
  <2>1. \A i \in DOMAIN results : results[i] \in Completions
    BY Typed DEF PoolTypes
  <2> QED BY <2>1 DEF Posted, Names, Elems, Completions
<1>3. Own \subseteq Files /\ Offer \subseteq Files
  BY Typed DEF WalkTypes, Own, Elems, Offer, Jobs
<1> QED BY <1>1, <1>2, <1>3 DEF Flying, Held

\* A file is offered to a worker.
LEMMA DispatchMoves ==
    ASSUME IInv, NEW o \in Objects, FileDispatched(o)
    PROVE  /\ Live /\ Live' /\ o \in Frontier /\ o \in Files /\ job' # None
           /\ \A w \in Workers : Queued(w)' = Queued(w) /\ Taken(w)' = Taken(w)
           /\ Posted' = Posted /\ Own' = Own /\ Flying' = Flying
           /\ Offer = {} /\ Offer' = {o} /\ Held' = Held \cup {o} /\ o \notin Held
           /\ OneJob'
<1>1. /\ pc = "entries" /\ pc' = "submit" /\ o \in todo /\ o \in Files
      /\ UNCHANGED <<queue, batch, results, inline>>
      /\ \E w \in Workers : job' = [file |-> o, worker |-> w, limit |-> PromoteThreshold]
  BY DEF FileDispatched, AtEntry, poolVars
<1>2. job' \in Jobs /\ job' # None /\ job'.file = o
  BY <1>1, ThresholdTyped, PoolAssumption DEF Jobs
<1>3. Live /\ Live' /\ o \in Frontier /\ job = None
  BY <1>1 DEF Live, Frontier, IInv, Control
<1>4. /\ \A w \in Workers : Queued(w)' = Queued(w) /\ Taken(w)' = Taken(w)
      /\ Posted' = Posted /\ Own' = Own /\ Flying' = Flying
  BY <1>1 DEF Queued, Taken, Posted, Own, Flying
<1>5. Offer = {} /\ Offer' = {o}
  BY <1>2, <1>3 DEF Offer
<1>6. o \notin Held
  BY <1>3, Fresh DEF Started
<1>7. OneJob'
  <2>1. OneJob
    BY DEF IInv
  <2> QED BY <1>1, <1>4, <1>5, <1>6, <2>1 DEF OneJob, Held
<1> QED BY <1>1, <1>2, <1>3, <1>4, <1>5, <1>6, <1>7 DEF Held

\* The coordinator keeps a file for itself.
LEMMA InlineMoves ==
    ASSUME IInv, NEW o \in Objects, FileInline(o)
    PROVE  /\ Live /\ Live' /\ o \in Frontier /\ o \in Files
           /\ \A w \in Workers : Queued(w)' = Queued(w) /\ Taken(w)' = Taken(w)
           /\ Posted' = Posted /\ Own' = Own \cup {o} /\ Flying' = Flying
           /\ Offer' = Offer /\ Held' = Held \cup {o} /\ o \notin Held
           /\ OneJob'
<1>1. /\ pc = "entries" /\ pc' = "entries" /\ o \in todo /\ o \in Files
      /\ UNCHANGED <<queue, batch, results, job>> /\ inline' = Append(inline, o)
  BY DEF FileInline, AtEntry, poolVars
<1>2. Live /\ Live' /\ o \in Frontier
  BY <1>1 DEF Live, Frontier
<1>3. o \notin Held
  BY <1>2, Fresh DEF Started
<1>4. /\ \A w \in Workers : Queued(w)' = Queued(w) /\ Taken(w)' = Taken(w)
      /\ Posted' = Posted /\ Flying' = Flying /\ Offer' = Offer
  BY <1>1 DEF Queued, Taken, Posted, Flying, Offer
<1>5. inline \in Seq(Files)
  BY Typed DEF WalkTypes
<1>6. Own' = Own \cup {o}
  BY <1>1, <1>5, Appended DEF Own
<1>7. OneJob
  BY DEF IInv
<1>8. Once(inline')
  BY <1>1, <1>3, <1>5, <1>7, Appended DEF Own, Held, OneJob
<1>9. OneJob'
  BY <1>1, <1>3, <1>4, <1>6, <1>7, <1>8 DEF OneJob, Held
<1> QED BY <1>1, <1>2, <1>3, <1>4, <1>6, <1>9 DEF Held

\* An offered file enters its worker's queue.
LEMMA SubmitMoves ==
    ASSUME IInv, SubmitFileJob
    PROVE  /\ Live /\ Live' /\ job \in Jobs /\ Offer = {job.file} /\ Offer' = {}
           /\ job.file \in Files /\ Parent[job.file] \in Dirs
           /\ job.file \notin Flying /\ Flying' = Flying \cup {job.file}
           /\ Own' = Own /\ Held' = Held
           /\ OneJob'
<1>0. job \in Jobs /\ job # None /\ job.worker \in Workers /\ job.file \in Files
  BY Typed DEF SubmitFileJob, WalkTypes, Jobs
<1>v. PICK v \in Workers : v = job.worker
  BY <1>0
<1>f. PICK f \in Files : f = job.file
  BY <1>0
<1>1. /\ pc \in {"submit", "offer"} /\ pc' = "entries" /\ job' = None
      /\ queue' = [queue EXCEPT ![v] = Append(queue[v], job)]
      /\ UNCHANGED <<batch, results, inline>>
  BY <1>v DEF SubmitFileJob
<1>2. job \in Jobs /\ job # None /\ v \in Workers /\ f \in Files /\ Parent[f] \in Dirs
  BY <1>0, FileParents
<1>3. queue \in [Workers -> Seq(Jobs)] /\ queue[v] \in Seq(Jobs)
  BY <1>2, Typed DEF PoolTypes
<1>4. Offer = {f} /\ Offer' = {}
  BY <1>1, <1>2, <1>f DEF Offer
<1>5. OneJob
  BY DEF IInv
<1>6. f \notin Flying /\ f \notin Own
  BY <1>4, <1>5 DEF OneJob
<1>7. /\ \A w \in Workers \ {v} : queue'[w] = queue[w]
      /\ queue'[v] = Append(queue[v], job)
  BY <1>1, <1>2, <1>3
<1>8. Elems(queue'[v]) = Elems(queue[v]) \cup {job}
  BY <1>2, <1>3, <1>7, Appended
<1>9. /\ \A w \in Workers \ {v} : Queued(w)' = Queued(w)
      /\ Queued(v)' = Queued(v) \cup {f}
  BY <1>f, <1>7, <1>8 DEF Queued, Names
<1>10. /\ \A w \in Workers : Taken(w)' = Taken(w)
       /\ Posted' = Posted /\ Own' = Own
  BY <1>1 DEF Taken, Posted, Own
<1>11. Flying' = Flying \cup {f}
  BY <1>2, <1>9, <1>10 DEF Flying
<1>12. f \notin Posted /\ \A w \in Workers : f \notin Queued(w) \cup Taken(w)
  BY <1>2, <1>6 DEF Flying
<1>13. OneEach(queue'[v])
  <2>1. OneEach(queue[v]) /\ job.file \notin Names(Elems(queue[v]))
    BY <1>2, <1>f, <1>5, <1>12 DEF OneJob, Queued
  <2> QED BY <1>2, <1>3, <1>7, <2>1, Appended
<1>14. \A w \in Workers : OneEach(queue'[w])
  BY <1>5, <1>7, <1>13 DEF OneJob
<1>15. \A w \in Workers : Queued(w)' \cap Taken(w)' = {}
  BY <1>2, <1>5, <1>9, <1>10, <1>12 DEF OneJob
<1>16. \A u, w \in Workers :
         u # w => (Queued(u)' \cup Taken(u)') \cap (Queued(w)' \cup Taken(w)') = {}
  BY <1>2, <1>5, <1>9, <1>10, <1>12 DEF OneJob
<1>17. \A w \in Workers : (Queued(w)' \cup Taken(w)') \cap Posted' = {}
  BY <1>2, <1>5, <1>9, <1>10, <1>12 DEF OneJob
<1>18. Flying' \cap Own' = {} /\ (Flying' \cup Own') \cap Offer' = {}
  BY <1>4, <1>5, <1>6, <1>10, <1>11 DEF OneJob
<1>19. OneJob'
  BY <1>1, <1>5, <1>14, <1>15, <1>16, <1>17, <1>18 DEF OneJob
<1>20. Live /\ Live'
  BY <1>1 DEF Live
<1> QED BY <1>2, <1>f, <1>4, <1>6, <1>10, <1>11, <1>19, <1>20 DEF Held

\* A worker takes the job at the head of its queue.
LEMMA TakeMoves ==
    ASSUME IInv, NEW v \in Workers, Take(v)
    PROVE  /\ Flying' = Flying /\ Own' = Own /\ Offer' = Offer /\ Held' = Held
           /\ OneJob' /\ Live' = Live /\ queue[v] # <<>>
           /\ \A w \in Workers : JobsOf(w)' = JobsOf(w)
<1> DEFINE h == Head(queue[v])
<1>1. /\ UNCHANGED <<pc, results, inline, job>> /\ queue[v] # <<>>
      /\ queue' = [queue EXCEPT ![v] = Tail(queue[v])]
      /\ batch' = [batch EXCEPT ![v] = batch[v] \cup {h}]
  BY DEF Take, walkVars
<1>2. /\ queue \in [Workers -> Seq(Jobs)] /\ queue[v] \in Seq(Jobs)
      /\ batch \in [Workers -> SUBSET Jobs]
  BY Typed DEF PoolTypes
<1>3. /\ h \in Jobs /\ Elems(queue[v]) = Elems(Tail(queue[v])) \cup {h}
      /\ OneEach(queue[v]) =>
           OneEach(Tail(queue[v])) /\ h.file \notin Names(Elems(Tail(queue[v])))
  BY <1>1, <1>2, Headed
<1> HIDE DEF h
<1>4. /\ \A w \in Workers \ {v} : queue'[w] = queue[w] /\ batch'[w] = batch[w]
      /\ queue'[v] = Tail(queue[v]) /\ batch'[v] = batch[v] \cup {h}
  BY <1>1, <1>2
<1>5. OneJob
  BY DEF IInv
<1>6. /\ \A w \in Workers \ {v} : Queued(w)' = Queued(w) /\ Taken(w)' = Taken(w)
      /\ Queued(v) = Queued(v)' \cup {h.file} /\ Taken(v)' = Taken(v) \cup {h.file}
      /\ h.file \notin Queued(v)'
  <2>1. \A w \in Workers \ {v} : Queued(w)' = Queued(w) /\ Taken(w)' = Taken(w)
    BY <1>4 DEF Queued, Taken
  <2>2. Queued(v) = Queued(v)' \cup {h.file}
    BY <1>3, <1>4 DEF Queued, Names
  <2>3. Taken(v)' = Taken(v) \cup {h.file}
    BY <1>4 DEF Taken, Names
  <2>4. h.file \notin Queued(v)'
    BY <1>3, <1>4, <1>5 DEF OneJob, Queued
  <2> QED BY <2>1, <2>2, <2>3, <2>4
<1>7. Posted' = Posted /\ Own' = Own /\ Offer' = Offer /\ Live' = Live
  BY <1>1 DEF Posted, Own, Offer, Live
<1>8. \A w \in Workers : Queued(w)' \cup Taken(w)' = Queued(w) \cup Taken(w)
  BY <1>6
<1>9. Flying' = Flying
  BY <1>7, <1>8 DEF Flying
<1>10. \A w \in Workers : JobsOf(w)' = JobsOf(w)
  BY <1>3, <1>4 DEF JobsOf
<1>11. \A w \in Workers : OneEach(queue'[w])
  BY <1>3, <1>4, <1>5 DEF OneJob
<1>12. h.file \notin Taken(v)
  BY <1>5, <1>6 DEF OneJob
<1>13. \A w \in Workers : \A j, k \in batch'[w] : j.file = k.file => j = k
  BY <1>4, <1>5, <1>12 DEF OneJob, Taken, Names
<1>14. \A w \in Workers : Queued(w)' \cap Taken(w)' = {}
  BY <1>5, <1>6, <1>12 DEF OneJob
<1>15. /\ \A u, w \in Workers :
            u # w => (Queued(u)' \cup Taken(u)') \cap (Queued(w)' \cup Taken(w)') = {}
       /\ \A w \in Workers : (Queued(w)' \cup Taken(w)') \cap Posted' = {}
  BY <1>5, <1>7, <1>8 DEF OneJob
<1>16. OneJob'
  BY <1>1, <1>5, <1>7, <1>9, <1>11, <1>13, <1>14, <1>15 DEF OneJob
<1> QED BY <1>1, <1>7, <1>9, <1>10, <1>16 DEF Held

\* A worker posts the completion of a job.
LEMMA CompleteMoves ==
    ASSUME IInv, NEW v \in Workers, Complete(v)
    PROVE  /\ Flying' = Flying /\ Own' = Own /\ Offer' = Offer /\ Held' = Held
           /\ OneJob' /\ Live /\ Live'
           /\ \A w \in Workers : JobsOf(w)' \subseteq JobsOf(w)
<1>1. /\ pc \notin {"joining", "ended"} /\ UNCHANGED <<pc, queue, inline, job>>
      /\ \E j \in batch[v] : \E out \in WorkerOutcomes(j) :
           /\ results' = Append(results, [file |-> j.file, out |-> out])
           /\ batch' = [batch EXCEPT ![v] = @ \ {j}]
  BY DEF Complete, walkVars
<1>2. PICK j \in batch[v] : \E out \in WorkerOutcomes(j) :
           /\ results' = Append(results, [file |-> j.file, out |-> out])
           /\ batch' = [batch EXCEPT ![v] = @ \ {j}]
  BY <1>1
<1>3. PICK out \in WorkerOutcomes(j) :
           /\ results' = Append(results, [file |-> j.file, out |-> out])
           /\ batch' = [batch EXCEPT ![v] = @ \ {j}]
  BY <1>2
<1> DEFINE c == [file |-> j.file, out |-> out]
<1>4. /\ batch \in [Workers -> SUBSET Jobs] /\ results \in Seq(Completions)
      /\ j \in Jobs /\ j.file \in Files /\ c \in Completions /\ c.file = j.file
  BY <1>3, Typed DEF PoolTypes, Jobs, Completions, WorkerOutcomes, Failures
<1> HIDE DEF c
<1>5. OneJob
  BY DEF IInv
<1>6. \A w \in Workers : batch'[w] = IF w = v THEN batch[w] \ {j} ELSE batch[w]
  BY <1>3, <1>4
<1>7. \A w \in Workers : Queued(w)' = Queued(w)
  BY <1>1 DEF Queued
<1>8. /\ \A w \in Workers \ {v} : Taken(w)' = Taken(w)
      /\ Taken(v) = Taken(v)' \cup {j.file} /\ j.file \notin Taken(v)'
  <2>1. \A w \in Workers \ {v} : Taken(w)' = Taken(w)
    BY <1>6 DEF Taken
  <2>2. Taken(v) = Taken(v)' \cup {j.file}
    BY <1>6 DEF Taken, Names
  <2>3. j.file \notin Taken(v)'
    BY <1>5, <1>6 DEF OneJob, Taken, Names
  <2> QED BY <2>1, <2>2, <2>3
<1>9. Posted' = Posted \cup {j.file}
  <2>1. Elems(results') = Elems(results) \cup {c}
    BY <1>3, <1>4, Appended DEF c
  <2> QED BY <1>4, <2>1 DEF Posted, Names
<1>10. Own' = Own /\ Offer' = Offer /\ Live /\ Live'
  BY <1>1 DEF Own, Offer, Live
<1>11. Flying' = Flying
  BY <1>4, <1>7, <1>8, <1>9 DEF Flying
<1>12. \A w \in Workers : JobsOf(w)' \subseteq JobsOf(w)
  BY <1>1, <1>6 DEF JobsOf
<1>13. j.file \notin Posted
  BY <1>5, <1>8 DEF OneJob
<1>14. OneEach(results')
  <2>1. OneEach(results) /\ c.file \notin Names(Elems(results))
    BY <1>4, <1>5, <1>13 DEF OneJob, Posted
  <2> QED BY <1>3, <1>4, <2>1, Appended DEF c
<1>15. \A w \in Workers : \A k, n \in batch'[w] : k.file = n.file => k = n
  BY <1>5, <1>6 DEF OneJob
<1>16. \A w \in Workers : Queued(w)' \cap Taken(w)' = {}
  BY <1>5, <1>7, <1>8 DEF OneJob
<1>17. \A u, w \in Workers :
         u # w => (Queued(u)' \cup Taken(u)') \cap (Queued(w)' \cup Taken(w)') = {}
  BY <1>5, <1>7, <1>8 DEF OneJob
<1>18. \A w \in Workers : (Queued(w)' \cup Taken(w)') \cap Posted' = {}
  BY <1>5, <1>7, <1>8, <1>9 DEF OneJob
<1>19. OneJob'
  BY <1>1, <1>5, <1>10, <1>11, <1>14, <1>15, <1>16, <1>17, <1>18 DEF OneJob
<1> QED BY <1>10, <1>11, <1>12, <1>19 DEF Held

\* The coordinator receives a completion: the file is settled or handed back.
LEMMA ReceiveMoves ==
    ASSUME IInv, ReceiveFileJob
    PROVE  \E f \in Files, out \in Failures \cup {"copied", "canceled", "promoted"} :
             /\ Head(results) = [file |-> f, out |-> out] /\ Head(results) \in Elems(results)
             /\ Live /\ Live' /\ f \in Flying /\ Flying' = Flying \ {f} /\ Offer' = Offer
             /\ IF out = "promoted" THEN Own' = Own \cup {f} /\ Held' = Held /\ f \in Held'
                ELSE Own' = Own /\ Held' = Held \ {f} /\ f \in Held
             /\ \A w \in Workers : JobsOf(w)' = JobsOf(w)
             /\ Elems(results') \subseteq Elems(results)
             /\ OneJob'
<1>1. /\ Awaiting /\ results # <<>> /\ results' = Tail(results) /\ pc' = AfterReceive
      /\ UNCHANGED <<queue, batch, job>>
      /\ IF Head(results).out = "promoted" THEN inline' = Append(inline, Head(results).file)
         ELSE inline' = inline
  BY DEF ReceiveFileJob, walkVars
<1>2. results \in Seq(Completions) /\ inline \in Seq(Files)
  BY Typed DEF PoolTypes, WalkTypes
<1>3. /\ Head(results) \in Completions /\ Head(results) \in Elems(results)
      /\ Elems(results) = Elems(Tail(results)) \cup {Head(results)}
      /\ OneEach(results) =>
           /\ OneEach(Tail(results))
           /\ Head(results).file \notin Names(Elems(Tail(results)))
  BY <1>1, <1>2, Headed
<1>4. PICK f \in Files, out \in Failures \cup {"copied", "canceled", "promoted"} :
        Head(results) = [file |-> f, out |-> out]
  BY <1>3 DEF Completions
<1>5. OneJob
  BY DEF IInv
<1>6. Posted = Posted' \cup {f} /\ f \notin Posted' /\ OneEach(results')
  BY <1>1, <1>3, <1>4, <1>5 DEF Posted, Names, OneJob
<1>7. \A w \in Workers : /\ Queued(w)' = Queued(w) /\ Taken(w)' = Taken(w)
                         /\ f \notin Queued(w) \cup Taken(w) /\ JobsOf(w)' = JobsOf(w)
  BY <1>1, <1>5, <1>6 DEF Queued, Taken, JobsOf, OneJob
<1>8. f \in Flying /\ Flying' = Flying \ {f}
  BY <1>6, <1>7 DEF Flying
<1>9. Offer' = Offer /\ f \notin Own /\ f \notin Offer
  BY <1>1, <1>5, <1>8 DEF Offer, OneJob
<1>10. Live /\ Live'
  <2>1. Live
    BY <1>1 DEF Awaiting, MustReceiveFirst, IInv, Control, Live
  <2> QED BY <2>1, <1>1 DEF AfterReceive, Live
<1>11. CASE out = "promoted"
  <2>1. inline' = Append(inline, f)
    BY <1>1, <1>4, <1>11
  <2>2. Own' = Own \cup {f}
    BY <1>2, <2>1, Appended DEF Own
  <2>3. Once(inline')
    BY <1>2, <1>5, <1>9, <2>1, Appended DEF Own, OneJob
  <2>4. Held' = Held /\ f \in Held'
    BY <1>8, <1>9, <2>2 DEF Held
  <2>5. OneJob'
    BY <1>1, <1>5, <1>6, <1>7, <1>8, <1>9, <2>2, <2>3 DEF OneJob
  <2> QED BY <1>1, <1>3, <1>4, <1>7, <1>8, <1>9, <1>10, <1>11, <2>2, <2>4, <2>5
<1>12. CASE out # "promoted"
  <2>1. inline' = inline
    BY <1>1, <1>4, <1>12
  <2>2. Own' = Own
    BY <2>1 DEF Own
  <2>3. Held' = Held \ {f} /\ f \in Held
    BY <1>8, <1>9, <2>2 DEF Held
  <2>4. OneJob'
    BY <1>1, <1>5, <1>6, <1>7, <1>8, <1>9, <2>1, <2>2 DEF OneJob
  <2> QED BY <1>1, <1>3, <1>4, <1>7, <1>8, <1>9, <1>10, <1>12, <2>2, <2>3, <2>4
<1> QED BY <1>11, <1>12

\* The coordinator ends its innermost copy.
LEMMA EndMoves ==
    ASSUME IInv, EndInline
    PROVE  \E f \in Files :
             /\ f = inline[Len(inline)] /\ Live /\ Live'
             /\ f \in Held /\ Held' = Held \ {f} /\ Flying' = Flying
             /\ \A w \in Workers : JobsOf(w)' = JobsOf(w)
             /\ OneJob'
<1>1. /\ inline # <<>> /\ inline' = SubSeq(inline, 1, Len(inline) - 1)
      /\ UNCHANGED <<queue, batch, results, job, pc>>
  BY DEF EndInline, walkVars, poolVars
<1>2. inline \in Seq(Files)
  BY Typed DEF WalkTypes
<1>3. PICK f \in Files : f = inline[Len(inline)]
  BY <1>1, <1>2, Popped
<1>4. OneJob
  BY DEF IInv
<1>5. f \in Own /\ Own' = Own \ {f} /\ Once(inline')
  <2>1. Once(inline)
    BY <1>4 DEF OneJob
  <2> QED BY <1>1, <1>2, <1>3, <2>1, Popped DEF Own
<1>6. /\ \A w \in Workers : Queued(w)' = Queued(w) /\ Taken(w)' = Taken(w)
      /\ Posted' = Posted /\ Flying' = Flying /\ Offer' = Offer
      /\ \A w \in Workers : JobsOf(w)' = JobsOf(w)
  BY <1>1 DEF Queued, Taken, Posted, Flying, Offer, JobsOf
<1>7. f \in Held /\ Held' = Held \ {f}
  BY <1>4, <1>5, <1>6 DEF Held, OneJob
<1>8. OneJob'
  BY <1>1, <1>4, <1>5, <1>6 DEF OneJob
<1>9. Live /\ Live'
  BY <1>1 DEF IInv, Control, Live
<1> QED BY <1>3, <1>6, <1>7, <1>8, <1>9

\* The other moves only lose jobs.
LEMMA LostMoves ==
    ASSUME IInv, Abort \/ \E w \in Workers : CompleteUnheard(w)
    PROVE  /\ ~Live' /\ Held' \subseteq Held /\ OneJob'
           /\ \A w \in Workers : JobsOf(w)' \subseteq JobsOf(w)
<1>1. OneJob
  BY DEF IInv
<1>2. CASE Abort
  <2>1. /\ UNCHANGED <<queue, batch, results, job>> /\ inline' = <<>> /\ pc' = "joining"
    BY <1>2 DEF Abort, walkVars, poolVars
  <2>2. /\ \A w \in Workers : /\ Queued(w)' = Queued(w) /\ Taken(w)' = Taken(w)
                              /\ JobsOf(w)' = JobsOf(w)
        /\ Posted' = Posted /\ Flying' = Flying /\ Offer' = Offer
    BY <2>1 DEF Queued, Taken, Posted, Flying, Offer, JobsOf
  <2>3. Own' = {} /\ Once(inline')
    BY <2>1 DEF Own, Elems, Once
  <2>4. OneJob'
    BY <1>1, <2>1, <2>2, <2>3 DEF OneJob
  <2> QED BY <2>1, <2>2, <2>3, <2>4 DEF Held, Live
<1>3. ASSUME NEW v \in Workers, CompleteUnheard(v)
      PROVE  /\ ~Live' /\ Held' \subseteq Held /\ OneJob'
             /\ \A w \in Workers : JobsOf(w)' \subseteq JobsOf(w)
  <2>1. /\ UNCHANGED <<queue, results, inline, job, pc>> /\ pc = "joining"
        /\ batch' = [batch EXCEPT ![v] = {}]
    BY <1>3 DEF CompleteUnheard, walkVars
  <2>2. \A w \in Workers : batch'[w] = IF w = v THEN {} ELSE batch[w]
    BY <2>1, Typed DEF PoolTypes
  <2>3. \A w \in Workers : /\ Queued(w)' = Queued(w) /\ Taken(w)' \subseteq Taken(w)
                           /\ JobsOf(w)' \subseteq JobsOf(w)
    BY <2>1, <2>2 DEF Queued, Taken, Names, JobsOf
  <2>4. Posted' = Posted /\ Own' = Own /\ Offer' = Offer
    BY <2>1 DEF Posted, Own, Offer
  <2>5. Flying' \subseteq Flying
    BY <2>3, <2>4 DEF Flying
  <2>6. \A w \in Workers : \A j, k \in batch'[w] : j.file = k.file => j = k
    BY <1>1, <2>2 DEF OneJob
  <2>7. OneJob'
    BY <1>1, <2>1, <2>3, <2>4, <2>5, <2>6 DEF OneJob
  <2> QED BY <2>1, <2>3, <2>4, <2>5, <2>7 DEF Held, Live
<1> QED BY <1>2, <1>3

\* No file is ever in two places.
LEMMA OneJobStep == ASSUME IInv, [Next]_vars PROVE OneJob'
<1>1. CASE UNCHANGED jobVars
  <2>1. OneJob
    BY DEF IInv
  <2> QED BY <1>1, <2>1 DEF OneJob, OneEach, Once, Queued, Taken, Posted, Flying, Own, Offer, jobVars
<1> QED BY <1>1, JobMoves, DispatchMoves, InlineMoves, SubmitMoves, TakeMoves, CompleteMoves,
        ReceiveMoves, EndMoves, LostMoves

---------------------------------------------------------------------------
(* The counts.                                                             *)

\* The files of F in directory d.
In(F, d) == {f \in F : Parent[f] = d}

\* Subsets of Files are finite; adding or removing a file changes their size by one.
LEMMA Sizes ==
    ASSUME NEW F \in SUBSET Files, NEW f \in Files
    PROVE  /\ Cardinality(F) \in Nat
           /\ f \notin F => Cardinality(F \cup {f}) = Cardinality(F) + 1
           /\ f \in F => Cardinality(F \ {f}) = Cardinality(F) - 1 /\ Cardinality(F) > 0
<1>1. IsFiniteSet(F)
  BY TreeAssumption, FS_Subset
<1>2. Cardinality(F) \in Nat
  BY <1>1, FS_CardinalityType
<1>3. f \notin F => Cardinality(F \cup {f}) = Cardinality(F) + 1
  BY <1>1, FS_AddElement
<1>4. f \in F => Cardinality(F \ {f}) = Cardinality(F) - 1
  BY <1>1, FS_RemoveElement
<1>5. f \in F => Cardinality(F) > 0
  <2>1. F # {} => Cardinality(F) # 0
    BY <1>1, FS_EmptySet
  <2> QED BY <1>2, <2>1
<1> QED BY <1>2, <1>3, <1>4, <1>5

\* Counts that go up with a new file,
LEMMA CountUp ==
    ASSUME NEW F \in SUBSET Files, NEW f \in Files, f \notin F,
           NEW n, NEW dir \in [Dirs -> Nat], Counted(n, dir, F)
    PROVE  Counted(n + 1, [dir EXCEPT ![Parent[f]] = @ + 1], F \cup {f})
<1>1. n + 1 = Cardinality(F \cup {f})
  BY Sizes DEF Counted
<1>2. ASSUME NEW d \in Dirs
      PROVE  [dir EXCEPT ![Parent[f]] = @ + 1][d] = Cardinality(In(F \cup {f}, d))
  <2>1. dir[d] = Cardinality(In(F, d)) /\ In(F, d) \in SUBSET Files /\ f \notin In(F, d)
    BY DEF Counted, In
  <2>2. CASE Parent[f] = d
    <3>1. In(F \cup {f}, d) = In(F, d) \cup {f}
      BY <2>2 DEF In
    <3> QED BY <2>1, <2>2, <3>1, Sizes
  <2>3. CASE Parent[f] # d
    <3>1. In(F \cup {f}, d) = In(F, d)
      BY <2>3 DEF In
    <3> QED BY <2>1, <2>3, <3>1
  <2> QED BY <2>2, <2>3
<1> QED BY <1>1, <1>2 DEF Counted, In

\* and down when it has gone.
LEMMA CountDown ==
    ASSUME NEW F \in SUBSET Files, NEW f \in F,
           NEW n, NEW dir \in [Dirs -> Nat], Counted(n, dir, F)
    PROVE  Counted(IF n = 0 THEN 0 ELSE n - 1,
                   [dir EXCEPT ![Parent[f]] = IF @ = 0 THEN 0 ELSE @ - 1], F \ {f})
<1>1. (IF n = 0 THEN 0 ELSE n - 1) = Cardinality(F \ {f})
  BY Sizes DEF Counted
<1>2. ASSUME NEW d \in Dirs
      PROVE  [dir EXCEPT ![Parent[f]] = IF @ = 0 THEN 0 ELSE @ - 1][d]
             = Cardinality(In(F \ {f}, d))
  <2>1. dir[d] = Cardinality(In(F, d)) /\ In(F, d) \in SUBSET Files
    BY DEF Counted, In
  <2>2. CASE Parent[f] = d
    <3>1. In(F \ {f}, d) = In(F, d) \ {f} /\ f \in In(F, d)
      BY <2>2 DEF In
    <3>2. Cardinality(In(F, d) \ {f}) = Cardinality(In(F, d)) - 1 /\ Cardinality(In(F, d)) > 0
      BY <2>1, <3>1, Sizes
    <3> QED BY <2>1, <2>2, <3>1, <3>2
  <2>3. CASE Parent[f] # d
    <3>1. In(F \ {f}, d) = In(F, d)
      BY <2>3 DEF In
    <3> QED BY <2>1, <2>3, <3>1
  <2> QED BY <2>2, <2>3
<1> QED BY <1>1, <1>2 DEF Counted, In

\* A run that is over stays over.
LEMMA StaysOver == ASSUME [Next]_vars, ~Live PROVE ~Live'
<1>1. ASSUME \/ EnterStopped \/ EnterFails \/ EnterDirectory \/ EntriesDone \/ ChildrenDone
             \/ ExitTask \/ Requeue \/ ExitDirectory \/ SubmitFileJob \/ WalkDone \/ Finalize
             \/ JoinWorkers \/ Abort \/ ReceiveFileJob \/ PollCancellation \/ BeginInline
             \/ EndInline \/ RequestCancel \/ UNCHANGED vars
      PROVE  ~Live'
  BY <1>1 DEF EnterStopped, EnterFails, EnterDirectory, EntriesDone, ChildrenDone, ExitTask,
     Requeue, ExitDirectory, SubmitFileJob, WalkDone, Finalize, JoinWorkers, Abort,
     ReceiveFileJob, PollCancellation, BeginInline, EndInline, RequestCancel, AtLoop,
     AfterReceive, vars, Live
<1>2. ASSUME \E o \in Objects : \/ EntryStopped(o) \/ EntryFails(o) \/ EntryExcluded(o)
                                \/ FileSkipped(o) \/ FileDispatched(o) \/ FileInline(o)
                                \/ ChildDirectory(o) \/ ChildReady(o) \/ ChildFails(o)
      PROVE  ~Live'
  BY <1>2 DEF EntryStopped, EntryFails, EntryExcluded, FileSkipped, FileDispatched, FileInline,
     ChildDirectory, ChildReady, ChildFails, AtEntry, Live
<1>3. ASSUME \E w \in Workers : Work(w) PROVE ~Live'
  BY <1>3 DEF Work, Take, StartBatch, Complete, CompleteUnheard, WorkerQuits, Live
<1> QED BY <1>1, <1>2, <1>3 DEF Next, Walk, Ended

\* Only submissions and completions change the counts.
LEMMA CountMoves == ASSUME [Next]_vars PROVE UNCHANGED countVars \/ SubmitFileJob \/ ReceiveFileJob
<1>1. ASSUME \/ EnterStopped \/ EnterFails \/ EnterDirectory \/ EntriesDone \/ ChildrenDone
             \/ ExitTask \/ Requeue \/ ExitDirectory \/ WalkDone \/ Finalize
             \/ JoinWorkers \/ Abort \/ PollCancellation \/ BeginInline
             \/ EndInline \/ RequestCancel \/ UNCHANGED vars
      PROVE  UNCHANGED countVars
  BY <1>1 DEF EnterStopped, EnterFails, EnterDirectory, EntriesDone, ChildrenDone, ExitTask,
     Requeue, ExitDirectory, WalkDone, Finalize, JoinWorkers, Abort,
     PollCancellation, BeginInline, EndInline, RequestCancel, vars, countVars
<1>2. ASSUME \E o \in Objects : \/ EntryStopped(o) \/ EntryFails(o) \/ EntryExcluded(o)
                                \/ FileSkipped(o) \/ FileDispatched(o) \/ FileInline(o)
                                \/ ChildDirectory(o) \/ ChildReady(o) \/ ChildFails(o)
      PROVE  UNCHANGED countVars
  BY <1>2 DEF EntryStopped, EntryFails, EntryExcluded, FileSkipped, FileDispatched, FileInline,
     ChildDirectory, ChildReady, ChildFails, AtEntry, countVars
<1>3. ASSUME \E w \in Workers : Work(w) PROVE UNCHANGED countVars
  BY <1>3 DEF Work, Take, StartBatch, Complete, CompleteUnheard, WorkerQuits, countVars
<1> QED BY <1>1, <1>2, <1>3 DEF Next, Walk, Ended

\* The counts stay those of the jobs in flight.
LEMMA CountsStep == ASSUME IInv, [Next]_vars PROVE Counts'
<1> SUFFICES ASSUME Live' PROVE Counted(outstanding, dir_outstanding, Flying)'
  BY DEF Counts
<1>1. Live /\ Counted(outstanding, dir_outstanding, Flying)
  BY StaysOver DEF IInv, Counts
<1>2. Flying \in SUBSET Files /\ dir_outstanding \in [Dirs -> Nat]
  BY PlacesTyped, Typed DEF FlagTypes
<1>3. CASE SubmitFileJob
  <2>1. PICK f \in Files : f = job.file
    BY <1>3, SubmitMoves
  <2>2. f \notin Flying /\ Flying' = Flying \cup {f}
    BY <1>3, <2>1, SubmitMoves
  <2>3. /\ outstanding' = outstanding + 1
        /\ dir_outstanding' = [dir_outstanding EXCEPT ![Parent[f]] = @ + 1]
    BY <1>3, <2>1 DEF SubmitFileJob
  <2>4. Counted(outstanding', dir_outstanding', Flying')
    BY <1>1, <1>2, <2>2, <2>3, CountUp
  <2> QED BY <2>4 DEF Counted
<1>4. CASE ReceiveFileJob
  <2>1. PICK f \in Flying : f = Head(results).file /\ Flying' = Flying \ {f}
    BY <1>4, ReceiveMoves
  <2>2. /\ outstanding' = IF outstanding = 0 THEN 0 ELSE outstanding - 1
        /\ dir_outstanding' = [dir_outstanding EXCEPT ![Parent[f]] = IF @ = 0 THEN 0 ELSE @ - 1]
    BY <1>4, <2>1 DEF ReceiveFileJob
  <2>3. Counted(outstanding', dir_outstanding', Flying')
    BY <1>1, <1>2, <2>1, <2>2, CountDown
  <2> QED BY <2>3 DEF Counted
<1>5. CASE UNCHANGED countVars /\ ~SubmitFileJob /\ ~ReceiveFileJob
  <2>1. Flying' = Flying
    <3>1. CASE UNCHANGED jobVars
      BY <3>1 DEF jobVars, Flying, Posted, Queued, Taken
    <3> QED BY <1>5, <3>1, JobMoves, DispatchMoves, InlineMoves, TakeMoves, CompleteMoves,
            EndMoves, LostMoves
  <2> QED BY <1>1, <1>5, <2>1 DEF Counted, countVars
<1> QED BY <1>3, <1>4, <1>5, CountMoves

---------------------------------------------------------------------------
(* The deque of directory tasks.                                           *)

Tasks == [op : {"Enter", "Exit"}, dir : Dirs]

\* A task is popped: its directory no longer waits, or no longer is to be left.
LEMMA PopMoves ==
    ASSUME IInv, NEW op \in {"Enter", "Exit"}, AtLoop(op), Pop
    PROVE  \E d \in Dirs :
             /\ d = NextTask.dir /\ Once(tasks')
             /\ IF op = "Enter" THEN d \in Waiting /\ Waiting' = Waiting \ {d} /\ Leaving' = Leaving
                ELSE d \in Leaving /\ Leaving' = Leaving \ {d} /\ Waiting' = Waiting
<1>1. tasks \in Seq(Tasks) /\ tasks # <<>> /\ Once(tasks) /\ NextTask.op = op
  BY Typed DEF WalkTypes, Tasks, AtLoop, IInv, OneTask
<1>2. /\ NextTask \in Tasks /\ NextTask \in Elems(tasks)
      /\ Elems(tasks) = Elems(tasks') \cup {NextTask} /\ NextTask \notin Elems(tasks')
      /\ Once(tasks')
  BY <1>1, Popped DEF Pop, NextTask
<1>3. PICK d \in Dirs : NextTask = Task(op, d) /\ d = NextTask.dir
  BY <1>1, <1>2 DEF Tasks, Task
<1>4. \A e \in Dirs : \A o \in {"Enter", "Exit"} :
        Task(o, e) \in Elems(tasks') <=> Task(o, e) \in Elems(tasks) /\ (o # op \/ e # d)
  BY <1>2, <1>3 DEF Task
<1>5. CASE op = "Enter"
  BY <1>2, <1>3, <1>4, <1>5 DEF Waiting, Leaving
<1>6. CASE op = "Exit"
  BY <1>2, <1>3, <1>4, <1>6 DEF Waiting, Leaving
<1> QED BY <1>5, <1>6

\* A task is pushed, at either end.
LEMMA PushMoves ==
    ASSUME IInv, NEW d \in Dirs, NEW op \in {"Enter", "Exit"},
           tasks' = Append(tasks, Task(op, d)) \/ tasks' = <<Task(op, d)>> \o tasks
    PROVE  IF op = "Enter"
           THEN /\ Waiting' = Waiting \cup {d} /\ Leaving' = Leaving
                /\ d \notin Waiting => Once(tasks')
           ELSE /\ Leaving' = Leaving \cup {d} /\ Waiting' = Waiting
                /\ d \notin Leaving => Once(tasks')
<1>1. tasks \in Seq(Tasks) /\ Once(tasks) /\ Task(op, d) \in Tasks
  BY Typed DEF WalkTypes, Tasks, Task, IInv, OneTask
<1>2. /\ Elems(tasks') = Elems(tasks) \cup {Task(op, d)}
      /\ Task(op, d) \notin Elems(tasks) => Once(tasks')
  <2>1. CASE tasks' = Append(tasks, Task(op, d))
    BY <1>1, <2>1, Appended
  <2>2. CASE tasks' = <<Task(op, d)>> \o tasks
    BY <1>1, <2>2, Pushed
  <2> QED BY <2>1, <2>2
<1>3. \A e \in Dirs : \A o \in {"Enter", "Exit"} :
        Task(o, e) \in Elems(tasks') <=> Task(o, e) \in Elems(tasks) \/ (o = op /\ e = d)
  BY <1>2 DEF Task
<1>4. CASE op = "Enter"
  BY <1>2, <1>3, <1>4 DEF Waiting, Leaving
<1>5. CASE op = "Exit"
  BY <1>2, <1>3, <1>5 DEF Waiting, Leaving
<1> QED BY <1>4, <1>5

\* Where the coordinator is tells what is left to do.
LEMMA ControlStep == ASSUME IInv, [Next]_vars PROVE Control'
<1>1. CASE EnterStopped
  BY <1>1 DEF IInv, Control, Live, EnterStopped, AtLoop, endVars
<1>2. CASE EnterFails
  BY <1>2 DEF IInv, Control, Live, EnterFails, AtLoop, endVars
<1>3. CASE EnterDirectory
  BY <1>3 DEF IInv, Control, Live, EnterDirectory, AtLoop, endVars
<1>4. ASSUME NEW o \in Objects, EntryStopped(o) PROVE Control'
  BY <1>4, Typed
     DEF IInv, Control, Live, WalkTypes, EntryStopped, AtEntry, Entries, endVars, stopVars
<1>5. ASSUME NEW o \in Objects, EntryFails(o) PROVE Control'
  BY <1>5, Typed
     DEF IInv, Control, Live, WalkTypes, EntryFails, AtEntry, Entries, endVars, stopVars
<1>6. ASSUME NEW o \in Objects, EntryExcluded(o) PROVE Control'
  BY <1>6, Typed
     DEF IInv, Control, Live, WalkTypes, EntryExcluded, AtEntry, Entries, endVars, stopVars
<1>7. ASSUME NEW o \in Objects, FileSkipped(o) PROVE Control'
  BY <1>7, Typed
     DEF IInv, Control, Live, WalkTypes, FileSkipped, AtEntry, Entries, endVars, stopVars
<1>8. ASSUME NEW o \in Objects, FileDispatched(o) PROVE Control'
  BY <1>8, DispatchMoves
     DEF IInv, Control, Live, FileDispatched, AtEntry, Entries, endVars, stopVars
<1>9. ASSUME NEW o \in Objects, FileInline(o) PROVE Control'
  BY <1>9, Typed
     DEF IInv, Control, Live, WalkTypes, FileInline, AtEntry, Entries, endVars, stopVars
<1>10. ASSUME NEW o \in Objects, ChildDirectory(o) PROVE Control'
  BY <1>10, Typed
     DEF IInv, Control, Live, WalkTypes, ChildDirectory, AtEntry, Entries, endVars, stopVars
<1>11. ASSUME NEW o \in Objects, ChildReady(o) PROVE Control'
  <2>1. Leaving' = Leaving
    BY <1>11, Typed, PushMoves DEF ChildReady, WalkTypes
  <2> QED BY <1>11, <2>1 DEF IInv, Control, Live, ChildReady, Entries, endVars
<1>12. ASSUME NEW o \in Objects, ChildFails(o) PROVE Control'
  BY <1>12 DEF IInv, Control, Live, Leaving, ChildFails, Entries, endVars
<1>13. CASE EntriesDone
  <2>0. cur \in Dirs /\ tasks' = Append(tasks, Task("Exit", cur))
    BY <1>13, Typed DEF EntriesDone, WalkTypes
  <2>1. cur \in Leaving'
    BY <2>0, PushMoves
  <2>2. cur' = cur
    BY <1>13 DEF EntriesDone
  <2> QED BY <1>13, <2>1, <2>2 DEF IInv, Control, Live, EntriesDone, Entries, endVars
<1>14. CASE ChildrenDone
  BY <1>14, Typed DEF IInv, Control, Live, WalkTypes, Leaving, ChildrenDone, walkVars, endVars
<1>15. CASE ExitTask
  BY <1>15 DEF IInv, Control, Live, ExitTask, AtLoop, endVars
<1>16. CASE Requeue
  BY <1>16, Typed DEF IInv, Control, Live, WalkTypes, Leaving, Requeue, walkVars, endVars
<1>17. CASE ExitDirectory
  BY <1>17, Typed DEF IInv, Control, Live, WalkTypes, Leaving, ExitDirectory, walkVars, endVars
<1>18. CASE SubmitFileJob
  BY <1>18, Typed DEF IInv, Control, Live, WalkTypes, Leaving, SubmitFileJob, walkVars, endVars
<1>19. CASE ReceiveFileJob
  <2>1. /\ pc' \in {pc, "offer", "requeue"} /\ (pc' = "offer" => pc \in {"submit", "offer"})
        /\ (pc' = "requeue" => pc \in {"yield", "requeue"})
        /\ (pc \in {"submit", "offer"} => pc' \in {"submit", "offer"}) /\ Live /\ Live'
    BY <1>19, ReceiveMoves DEF ReceiveFileJob, AfterReceive
  <2>2. UNCHANGED <<tasks, cur, todo, kids, job, busy, exit, aborted>> /\ (busy => inline = <<>>)
    BY <1>19 DEF ReceiveFileJob, walkVars, endVars, Awaiting
  <2>3. Leaving' = Leaving
    BY <2>2 DEF Leaving
  <2>4. ~busy
    BY <2>2 DEF IInv, Control
  <2>5. Control
    BY DEF IInv
  <2> QED BY <2>1, <2>2, <2>3, <2>4, <2>5 DEF Control
<1>20. CASE EndInline
  BY <1>20 DEF IInv, Control, Live, Leaving, EndInline, walkVars, endVars
<1>21. CASE WalkDone
  BY <1>21, Typed DEF IInv, Control, Live, WalkTypes, Leaving, WalkDone, walkVars, endVars
<1>22. CASE Finalize
  BY <1>22, Typed DEF IInv, Control, Live, WalkTypes, Leaving, Finalize, walkVars, endVars
<1>23. CASE JoinWorkers
  BY <1>23, Typed DEF IInv, Control, Live, WalkTypes, Leaving, JoinWorkers, walkVars, endVars
<1>24. CASE Abort
  BY <1>24, Typed DEF IInv, Control, Live, WalkTypes, Leaving, Abort, walkVars, endVars
<1>25. CASE UNCHANGED vars
  <2>1. /\ UNCHANGED <<pc, inline, job, todo, kids, tasks, cur, exit, aborted>>
        /\ busy' = busy \/ (inline # <<>>)
    BY <1>25 DEF vars, walkVars, poolVars, endVars
  <2>2. Control /\ Leaving' = Leaving
    BY <2>1 DEF IInv, Leaving
  <2> QED BY <2>1, <2>2 DEF Control, Live
<1>26. ASSUME \/ PollCancellation
           \/ BeginInline
           \/ (\E w \in Workers : Take(w))
           \/ (\E w \in Workers : StartBatch(w))
           \/ (\E w \in Workers : Complete(w))
           \/ (\E w \in Workers : CompleteUnheard(w))
           \/ (\E w \in Workers : WorkerQuits(w))
           \/ RequestCancel
      PROVE  Control'
  <2>1. /\ UNCHANGED <<pc, inline, job, todo, kids, tasks, cur, exit, aborted>>
        /\ busy' = busy \/ (inline # <<>>)
    BY <1>26
       DEF PollCancellation, BeginInline, Take, StartBatch, Complete, CompleteUnheard,
           WorkerQuits, RequestCancel, vars, walkVars, poolVars, endVars
  <2>2. Control /\ Leaving' = Leaving
    BY <2>1 DEF IInv, Leaving
  <2> QED BY <2>1, <2>2 DEF Control, Live
<1> QED BY <1>1, <1>2, <1>3, <1>4, <1>5, <1>6, <1>7, <1>8, <1>9, <1>10, <1>11, <1>12, <1>13, <1>14, <1>15, <1>16, <1>17, <1>18, <1>19, <1>20, <1>21, <1>22, <1>23, <1>24, <1>25, <1>26 DEF Next, Walk, Work, Ended


---------------------------------------------------------------------------
(* How the walk moves the frontier and the directories it is in.           *)

walkBooks == <<tasks, kids, todo, cur, pc>>

\* With the same deque, entries and position, the same frontier and directories.
LEMMA WalkKept ==
    ASSUME UNCHANGED walkBooks
    PROVE  /\ Waiting' = Waiting /\ Leaving' = Leaving /\ Frontier' = Frontier
           /\ OpenDirs' = OpenDirs /\ Live' = Live /\ (OneTask => OneTask')
  BY DEF walkBooks, Waiting, Leaving, Frontier, OpenDirs, Live, OneTask, InWork

\* With the same jobs, the same files held.
LEMMA HeldKept == ASSUME UNCHANGED jobVars PROVE Held' = Held /\ Flying' = Flying
  BY DEF jobVars, Held, Flying, Own, Offer, Posted, Queued, Taken

\* A failed directory with what lies below it.
LEMMA Subtree ==
    ASSUME NEW x \in Objects, NEW out \in Terminal, NEW unreadable \in SUBSET Dirs,
           NEW S, S = {} \/ S = Unwalked(x, unreadable)
    PROVE  /\ S \cup {x} \in SUBSET Territory(x)
           /\ [o \in S \cup {x} |-> IF o = x THEN out ELSE NotAttempted(S)[o]]
                \in [S \cup {x} -> Terminal]
  BY DEF Unwalked, NotAttempted, Territory, Below, Terminal, Failures

\* One object of the frontier is given an outcome, perhaps with objects below it.
ResolvedOne ==
    /\ Live /\ Live' /\ OneTask' /\ Started' = Started
    /\ \E x \in Frontier : \E X \in SUBSET Territory(x) : \E new \in [X -> Terminal] :
         /\ x \in X /\ (x \in Files \/ new[x] \in Failures \cup {"excluded"})
         /\ seen' = Booked(seen, X) /\ settled' = Settling(settled, new)
         /\ Frontier' = Frontier \ {x}

\* A directory task that goes no further.
LEMMA EnterResolves == ASSUME IInv, EnterStopped \/ EnterFails PROVE ResolvedOne
<1>1. AtLoop("Enter") /\ Pop /\ UNCHANGED <<pc, cur, todo, kids>> /\ UNCHANGED jobVars
  BY DEF EnterStopped, EnterFails, poolVars, jobVars
<1>2. PICK d \in Dirs : /\ d = NextTask.dir /\ Once(tasks') /\ d \in Waiting
                        /\ Waiting' = Waiting \ {d} /\ Leaving' = Leaving
  BY <1>1, PopMoves
<1>3. pc = "loop" /\ todo = {} /\ kids = {} /\ d \in Objects
  BY <1>1 DEF AtLoop, IInv, Control, Objects
<1>4. d \in Frontier /\ Frontier' = Frontier \ {d} /\ OpenDirs' = OpenDirs /\ Live /\ Live'
  BY <1>1, <1>2, <1>3 DEF Frontier, OpenDirs, Live, InWork
<1>5. OneTask' /\ Started' = Started
  BY <1>1, <1>2, <1>3, <1>4, HeldKept DEF OneTask, InWork, Started
<1>6. \E X \in SUBSET Territory(d) : \E new \in [X -> Terminal] :
         /\ d \in X /\ new[d] \in Failures
         /\ seen' = Booked(seen, X) /\ settled' = Settling(settled, new)
  <2>1. CASE EnterStopped
    <3>1. /\ {d} \in SUBSET Territory(d) /\ Only(d, "failed") \in [{d} -> Terminal]
          /\ Only(d, "failed")[d] \in Failures
      BY <1>3 DEF Territory, Only, Terminal, Failures
    <3>2. seen' = Booked(seen, {d}) /\ settled' = Settling(settled, Only(d, "failed"))
      BY <2>1, <1>2 DEF EnterStopped, Discover, Settle, Booked, Settling
    <3> QED BY <3>1, <3>2
  <2>2. CASE EnterFails
    <3>1. PICK out \in Failures, unreadable \in SUBSET Dirs :
            LET S == IF d \in unreadable THEN {} ELSE Unwalked(d, unreadable)
            IN  /\ Discover(S \cup {d})
                /\ Settle([o \in S \cup {d} |-> IF o = d THEN out ELSE NotAttempted(S)[o]])
      <4>1. \E out \in Failures, unreadable \in SUBSET Dirs :
              LET S == IF d \in unreadable THEN {} ELSE Unwalked(d, unreadable)
              IN  /\ Discover(S \cup {d})
                  /\ Settle([o \in S \cup {d} |-> IF o = d THEN out ELSE NotAttempted(S)[o]])
                  /\ Tally(out, FALSE)
        BY <2>2, <1>2, Zenon DEF EnterFails
      <4> QED BY <4>1, Zenon
    <3> DEFINE S == IF d \in unreadable THEN {} ELSE Unwalked(d, unreadable)
               new == [o \in S \cup {d} |-> IF o = d THEN out ELSE NotAttempted(S)[o]]
    <3>2. /\ S \cup {d} \in SUBSET Territory(d) /\ new \in [S \cup {d} -> Terminal]
          /\ new[d] \in Failures
      BY <1>3, Subtree DEF Terminal
    <3>3. seen' = Booked(seen, S \cup {d}) /\ settled' = Settling(settled, new)
      BY <3>1 DEF Discover, Settle, Booked, Settling
    <3> HIDE DEF S, new
    <3> QED BY <3>2, <3>3
  <2> QED BY <2>1, <2>2
<1> QED BY <1>4, <1>5, <1>6 DEF ResolvedOne

\* An entry that goes no further.
LEMMA EntryResolves ==
    ASSUME IInv, NEW x \in Objects,
           EntryStopped(x) \/ EntryFails(x) \/ EntryExcluded(x) \/ FileSkipped(x)
    PROVE  ResolvedOne
<1>1. /\ pc = "entries" /\ x \in todo /\ todo' = todo \ {x}
      /\ UNCHANGED <<tasks, cur, kids, pc>> /\ UNCHANGED jobVars
  BY DEF EntryStopped, EntryFails, EntryExcluded, FileSkipped, AtEntry, poolVars, jobVars
<1>2. OneTask
  BY DEF IInv
<1>3. Waiting' = Waiting /\ Leaving' = Leaving /\ OpenDirs' = OpenDirs /\ Live /\ Live'
  BY <1>1 DEF Waiting, Leaving, OpenDirs, Live, InWork
<1>4. x \in Frontier /\ Frontier' = Frontier \ {x}
  BY <1>1, <1>2, <1>3 DEF Frontier, OneTask
<1>5. OneTask' /\ Started' = Started
  BY <1>1, <1>2, <1>3, HeldKept DEF OneTask, InWork, Started
<1>6. \E X \in SUBSET Territory(x) : \E new \in [X -> Terminal] :
         /\ x \in X /\ (x \in Files \/ new[x] \in Failures \cup {"excluded"})
         /\ seen' = Booked(seen, X) /\ settled' = Settling(settled, new)
  <2>1. CASE EntryStopped(x) \/ EntryExcluded(x) \/ FileSkipped(x)
    <3>1. PICK out \in Terminal : /\ x \in Files \/ out \in Failures \cup {"excluded"}
                                  /\ Discover({x}) /\ Settle(Only(x, out))
      BY <2>1 DEF EntryStopped, EntryExcluded, FileSkipped, Terminal, Failures, FileSuccess,
         Objects
    <3>2. /\ {x} \in SUBSET Territory(x) /\ Only(x, out) \in [{x} -> Terminal]
          /\ Only(x, out)[x] = out
      BY DEF Territory, Only
    <3>3. seen' = Booked(seen, {x}) /\ settled' = Settling(settled, Only(x, out))
      BY <3>1 DEF Discover, Settle, Booked, Settling
    <3> QED BY <3>1, <3>2, <3>3
  <2>2. CASE EntryFails(x)
    <3>1. PICK out \in Failures, unreadable \in SUBSET Dirs :
            LET S == IF x \in Files \cup unreadable THEN {} ELSE Unwalked(x, unreadable)
            IN  /\ Discover(S \cup {x})
                /\ Settle([o \in S \cup {x} |-> IF o = x THEN out ELSE NotAttempted(S)[o]])
                /\ Tally(out, FALSE)
      BY <2>2, Zenon DEF EntryFails
    <3> DEFINE S == IF x \in Files \cup unreadable THEN {} ELSE Unwalked(x, unreadable)
               new == [o \in S \cup {x} |-> IF o = x THEN out ELSE NotAttempted(S)[o]]
    <3>2. /\ S \cup {x} \in SUBSET Territory(x) /\ new \in [S \cup {x} -> Terminal]
          /\ new[x] \in Failures
      <4>1. S = {} \/ S = Unwalked(x, unreadable)
        OBVIOUS
      <4>2. new[x] = out /\ out \in Terminal
        BY DEF Terminal
      <4> HIDE DEF S
      <4> QED BY <4>1, <4>2, Subtree
    <3>3. seen' = Booked(seen, S \cup {x}) /\ settled' = Settling(settled, new)
      BY <3>1 DEF Discover, Settle, Booked, Settling
    <3> HIDE DEF S, new
    <3> QED BY <3>2, <3>3
  <2> QED BY <2>1, <2>2
<1> QED BY <1>3, <1>4, <1>5, <1>6 DEF ResolvedOne

\* A child directory that cannot be created.
LEMMA ChildResolves == ASSUME IInv, NEW k \in Objects, ChildFails(k) PROVE ResolvedOne
<1>1. /\ pc = "children" /\ k \in kids /\ kids' = kids \ {k}
      /\ UNCHANGED <<tasks, cur, todo, pc>> /\ UNCHANGED jobVars
  BY DEF ChildFails, poolVars, jobVars
<1>2. OneTask
  BY DEF IInv
<1>3. Waiting' = Waiting /\ Leaving' = Leaving /\ OpenDirs' = OpenDirs /\ Live /\ Live'
  BY <1>1 DEF Waiting, Leaving, OpenDirs, Live, InWork
<1>4. k \in Frontier /\ Frontier' = Frontier \ {k}
  BY <1>1, <1>2, <1>3 DEF Frontier, OneTask
<1>5. OneTask' /\ Started' = Started
  BY <1>1, <1>2, <1>3, HeldKept DEF OneTask, InWork, Started
<1>6. \E X \in SUBSET Territory(k) : \E new \in [X -> Terminal] :
         /\ k \in X /\ new[k] \in Failures
         /\ seen' = Booked(seen, X) /\ settled' = Settling(settled, new)
  <2>1. PICK out \in Failures, unreadable \in SUBSET Dirs :
          LET S == IF k \in unreadable THEN {} ELSE Unwalked(k, unreadable)
          IN  /\ Discover(S \cup {k})
              /\ Settle([o \in S \cup {k} |-> IF o = k THEN out ELSE NotAttempted(S)[o]])
    BY DEF ChildFails
  <2> DEFINE S == IF k \in unreadable THEN {} ELSE Unwalked(k, unreadable)
             new == [o \in S \cup {k} |-> IF o = k THEN out ELSE NotAttempted(S)[o]]
  <2>2. /\ S \cup {k} \in SUBSET Territory(k) /\ new \in [S \cup {k} -> Terminal]
        /\ new[k] \in Failures
    BY Subtree DEF Terminal
  <2>3. seen' = Booked(seen, S \cup {k}) /\ settled' = Settling(settled, new)
    BY <2>1 DEF Discover, Settle, Booked, Settling
  <2> HIDE DEF S, new
  <2> QED BY <2>2, <2>3
<1> QED BY <1>3, <1>4, <1>5, <1>6 DEF ResolvedOne

\* One object of the frontier is started.
BegunOne ==
    /\ Live /\ Live' /\ OneTask'
    /\ \E x \in Frontier :
         /\ seen' = Booked(seen, {x}) /\ settled' = settled
         /\ Frontier' = (Frontier \ {x}) \cup Entries(x) /\ Started' = Started \cup {x}

\* A started object gets its outcome.
FinishedOne ==
    /\ Live /\ Live' /\ OneTask' /\ Frontier' = Frontier
    /\ \E x \in Started \cap Objects, out \in Terminal :
         /\ seen' = seen /\ settled' = Settling(settled, Only(x, out))
         /\ Started' = Started \ {x}

\* Nothing is discovered or settled.
Moved == Live /\ Live' /\ OneTask' /\ Frontier' = Frontier /\ Started' = Started
         /\ UNCHANGED <<seen, settled>>

\* The run is over.
Over == ~Live' /\ OneTask' /\ UNCHANGED <<seen, settled>>

\* A file begun.
LEMMA FileBegins ==
    ASSUME IInv, NEW x \in Objects, FileDispatched(x) \/ FileInline(x) PROVE BegunOne
<1>1. /\ pc = "entries" /\ pc' \in {"entries", "submit"} /\ x \in todo /\ todo' = todo \ {x}
      /\ UNCHANGED <<tasks, cur, kids, settled>> /\ Discover({x})
  BY DEF FileDispatched, FileInline, AtEntry
<1>2. x \in Files /\ Held' = Held \cup {x}
  BY DispatchMoves, InlineMoves
<1>3. OneTask
  BY DEF IInv
<1>4. Waiting' = Waiting /\ Leaving' = Leaving /\ OpenDirs' = OpenDirs /\ Live /\ Live'
  BY <1>1 DEF Waiting, Leaving, OpenDirs, Live, InWork
<1>5. x \in Frontier /\ Frontier' = Frontier \ {x}
  BY <1>1, <1>3, <1>4 DEF Frontier, OneTask
<1>6. OneTask'
  BY <1>1, <1>3, <1>4 DEF OneTask, InWork
<1>7. Started' = Started \cup {x}
  BY <1>2, <1>4 DEF Started
<1>8. seen' = Booked(seen, {x}) /\ Entries(x) = {}
  BY <1>1, <1>2, FileTerritory DEF Discover, Booked
<1> QED BY <1>1, <1>4, <1>5, <1>6, <1>7, <1>8 DEF BegunOne

\* A directory entered.
LEMMA DirectoryBegins == ASSUME IInv, EnterDirectory PROVE BegunOne
<1>1. /\ AtLoop("Enter") /\ Pop /\ pc' = "entries" /\ cur' = NextTask.dir /\ kids' = {}
      /\ todo' = Entries(NextTask.dir) /\ settled' = settled /\ UNCHANGED jobVars
      /\ Discover({NextTask.dir})
  BY DEF EnterDirectory, poolVars, jobVars
<1>2. PICK d \in Dirs : /\ d = NextTask.dir /\ Once(tasks') /\ d \in Waiting
                        /\ Waiting' = Waiting \ {d} /\ Leaving' = Leaving
  BY <1>1, PopMoves
<1>3. pc = "loop" /\ todo = {} /\ kids = {} /\ d \in Objects /\ Live /\ Live'
  BY <1>1 DEF AtLoop, IInv, Control, Objects, Live
<1>4. d \in Frontier /\ Frontier' = (Frontier \ {d}) \cup Entries(d)
  BY <1>1, <1>2, <1>3 DEF Frontier
<1>5. OpenDirs = Leaving /\ OpenDirs' = Leaving \cup {d} /\ d \notin Leaving
  <2>1. d \notin Started
    BY <1>3, <1>4, Fresh
  <2> QED BY <1>1, <1>2, <1>3, <2>1 DEF OpenDirs, InWork, Started
<1>6. Started' = Started \cup {d}
  BY <1>1, <1>5, HeldKept DEF Started
<1>7. Waiting' \cap Entries(d) = {}
  <2> SUFFICES ASSUME NEW e \in Waiting, e # d, e \in Entries(d) PROVE FALSE
    BY <1>2
  <2>1. e \in Territory(d) /\ e \in Territory(e) /\ e \in Frontier
    <3>1. Territory(e) \subseteq Territory(d)
      BY <1>3, EntryTerritory
    <3> QED BY <3>1 DEF Territory, Frontier
  <2>2. Ledger(seen, settled, Frontier, Started)
    BY <1>3 DEF IInv, Books
  <2> QED BY <1>4, <2>1, <2>2 DEF Ledger
<1>8. OneTask'
  BY <1>1, <1>2, <1>5, <1>7 DEF OneTask, InWork
<1>9. seen' = Booked(seen, {d})
  BY <1>1, <1>2 DEF Discover, Booked
<1> QED BY <1>1, <1>3, <1>4, <1>6, <1>8, <1>9 DEF BegunOne

\* The directories the walk is in are directories.
LEMMA DirsOpen == IInv => OpenDirs \subseteq Dirs
  BY Typed DEF OpenDirs, Leaving, WalkTypes

\* A directory stamped, or not.
LEMMA ExitFinishes == ASSUME IInv, ExitDirectory PROVE FinishedOne
<1>1. /\ pc = "exit" /\ pc' = "loop" /\ UNCHANGED <<tasks, kids, todo, cur>>
      /\ UNCHANGED jobVars /\ seen' = seen
      /\ \E out \in Failures \cup {"done"} : Settle(Only(cur, out))
  BY DEF ExitDirectory, poolVars, walkVars, jobVars
<1>2. PICK d \in Dirs : d = cur
  BY Typed DEF WalkTypes
<1>3. OneTask /\ Live /\ Live'
  BY <1>1 DEF IInv, Live
<1>4. Waiting' = Waiting /\ Leaving' = Leaving /\ Frontier' = Frontier
  BY <1>1 DEF Waiting, Leaving, Frontier
<1>5. OpenDirs = Leaving \cup {d} /\ OpenDirs' = Leaving /\ d \notin Leaving
  BY <1>1, <1>2, <1>3, <1>4 DEF OpenDirs, InWork, OneTask
<1>6. d \notin Held
  BY PlacesTyped, TreeAssumption
<1>7. d \in Started /\ Started' = Started \ {d} /\ d \in Objects
  BY <1>1, <1>5, <1>6, HeldKept DEF Started, Objects
<1>8. OneTask'
  BY <1>1, <1>3, <1>4 DEF OneTask, InWork
<1>9. PICK out \in Terminal : settled' = Settling(settled, Only(d, out))
  BY <1>1, <1>2 DEF Settle, Settling, Terminal
<1> QED BY <1>1, <1>3, <1>4, <1>7, <1>8, <1>9 DEF FinishedOne

\* The position after a completion.
LEMMA AfterWork ==
    ASSUME IInv, ReceiveFileJob \/ EndInline
    PROVE  /\ Waiting' = Waiting /\ Leaving' = Leaving /\ Frontier' = Frontier
           /\ OpenDirs' = OpenDirs /\ OneTask' /\ Live /\ Live' /\ seen' = seen
<1>1. UNCHANGED <<tasks, kids, todo, cur, seen>> /\ (pc' = pc \/ pc' = AfterReceive)
  BY DEF ReceiveFileJob, EndInline, walkVars
<1>2. InWork' = InWork
  BY <1>1 DEF InWork, AfterReceive
<1>3. Live /\ Live'
  BY ReceiveMoves, EndMoves
<1>4. Waiting' = Waiting /\ Leaving' = Leaving /\ Frontier' = Frontier /\ OpenDirs' = OpenDirs
  BY <1>1, <1>2 DEF Waiting, Leaving, Frontier, OpenDirs
<1>5. OneTask'
  BY <1>1, <1>2, <1>4 DEF OneTask, IInv
<1> QED BY <1>1, <1>3, <1>4, <1>5

\* A file settled by its completion, or handed back.
LEMMA ReceiveFinishes == ASSUME IInv, ReceiveFileJob PROVE FinishedOne \/ Moved
<1>1. PICK f \in Files, out \in Failures \cup {"copied", "canceled", "promoted"} :
             /\ Head(results) = [file |-> f, out |-> out]
             /\ IF out = "promoted" THEN Held' = Held ELSE Held' = Held \ {f} /\ f \in Held
  BY ReceiveMoves
<1>2. CASE out = "promoted"
  <2>1. settled' = settled
    BY <1>1, <1>2 DEF ReceiveFileJob
  <2>2. Started' = Started
    BY <1>1, <1>2, AfterWork DEF Started
  <2> QED BY <2>1, <2>2, AfterWork DEF Moved
<1>3. CASE out # "promoted"
  <2>1. settled' = Settling(settled, Only(f, out)) /\ out \in Terminal
    BY <1>1, <1>3 DEF ReceiveFileJob, Settle, Settling, Terminal, FileSuccess
  <2>2. f \in Started /\ Started' = Started \ {f} /\ f \in Objects
    BY <1>1, <1>3, AfterWork, DirsOpen, FileParents, TreeAssumption DEF Started
  <2> QED BY <2>1, <2>2, AfterWork DEF FinishedOne
<1> QED BY <1>2, <1>3

\* A file settled by the coordinator's own copy.
LEMMA EndFinishes == ASSUME IInv, EndInline PROVE FinishedOne
<1>1. PICK f \in Files : f = inline[Len(inline)] /\ f \in Held /\ Held' = Held \ {f}
  BY EndMoves
<1>2. PICK out \in Terminal : settled' = Settling(settled, Only(f, out))
  BY <1>1 DEF EndInline, Settle, Settling, Terminal, Failures, FileSuccess
<1>3. f \in Started /\ Started' = Started \ {f} /\ f \in Objects
  BY <1>1, AfterWork, DirsOpen, FileParents, TreeAssumption DEF Started
<1> QED BY <1>2, <1>3, AfterWork DEF FinishedOne

\* A directory's entries are all handled: it is to be left later.
LEMMA EntriesMove == ASSUME IInv, EntriesDone PROVE Moved
<1>1. /\ pc = "entries" /\ pc' = "children" /\ UNCHANGED <<kids, todo, cur, seen, settled>>
      /\ UNCHANGED jobVars /\ tasks' = Append(tasks, Task("Exit", cur))
  BY DEF EntriesDone, poolVars, jobVars
<1>2. PICK d \in Dirs : d = cur
  BY Typed DEF WalkTypes
<1>3. OneTask /\ d \notin Leaving /\ InWork
  BY <1>1, <1>2 DEF IInv, OneTask, InWork
<1>4. Leaving' = Leaving \cup {d} /\ Waiting' = Waiting /\ Once(tasks')
  BY <1>1, <1>2, <1>3, PushMoves
<1>5. ~InWork' /\ Live /\ Live'
  BY <1>1 DEF InWork, Live
<1>6. OpenDirs' = OpenDirs /\ Frontier' = Frontier
  BY <1>1, <1>2, <1>3, <1>4, <1>5 DEF OpenDirs, Frontier
<1>7. OneTask'
  BY <1>1, <1>3, <1>4, <1>5 DEF OneTask
<1> QED BY <1>1, <1>5, <1>6, <1>7, HeldKept DEF Moved, Started

\* A child directory is ready: it waits.
LEMMA ChildMoves == ASSUME IInv, NEW k \in Objects, ChildReady(k) PROVE Moved
<1>1. /\ pc = "children" /\ k \in kids /\ kids' = kids \ {k}
      /\ UNCHANGED <<pc, todo, cur, seen, settled>>
      /\ UNCHANGED jobVars /\ tasks' = Append(tasks, Task("Enter", k))
  BY DEF ChildReady, poolVars, jobVars
<1>2. k \in Dirs /\ OneTask /\ k \notin Waiting /\ k \notin todo
  BY <1>1, Typed DEF WalkTypes, IInv, OneTask
<1>3. Leaving' = Leaving /\ Waiting' = Waiting \cup {k} /\ Once(tasks')
  BY <1>1, <1>2, PushMoves
<1>4. InWork' = InWork /\ Live /\ Live'
  BY <1>1 DEF InWork, Live
<1>5. OpenDirs' = OpenDirs /\ Frontier' = Frontier
  BY <1>1, <1>2, <1>3, <1>4 DEF OpenDirs, Frontier
<1>6. OneTask'
  BY <1>1, <1>2, <1>3, <1>4 DEF OneTask
<1> QED BY <1>1, <1>4, <1>5, <1>6, HeldKept DEF Moved, Started

\* An entry is a directory to be created.
LEMMA ChildFound == ASSUME IInv, NEW d \in Objects, ChildDirectory(d) PROVE Moved
<1>1. /\ pc = "entries" /\ pc' = "entries" /\ d \in todo /\ todo' = todo \ {d}
      /\ kids' = kids \cup {d}
      /\ UNCHANGED <<tasks, cur, seen, settled>> /\ UNCHANGED jobVars
  BY DEF ChildDirectory, AtEntry, poolVars, jobVars
<1>2. OneTask
  BY DEF IInv
<1>3. Leaving' = Leaving /\ Waiting' = Waiting /\ InWork' = InWork /\ Live /\ Live'
  BY <1>1 DEF Leaving, Waiting, InWork, Live
<1>4. OpenDirs' = OpenDirs /\ Frontier' = Frontier
  BY <1>1, <1>3 DEF OpenDirs, Frontier
<1>5. OneTask'
  BY <1>1, <1>2, <1>3 DEF OneTask
<1> QED BY <1>1, <1>3, <1>4, <1>5, HeldKept DEF Moved, Started

\* A directory is to be left now.
LEMMA ExitMoves == ASSUME IInv, ExitTask PROVE Moved
<1>1. /\ AtLoop("Exit") /\ Pop /\ pc' \in {"yield", "exit"} /\ cur' = NextTask.dir
      /\ UNCHANGED <<kids, todo, seen, settled>> /\ UNCHANGED jobVars
  BY DEF ExitTask, poolVars, jobVars
<1>2. PICK d \in Dirs : /\ d = NextTask.dir /\ Once(tasks') /\ d \in Leaving
                        /\ Leaving' = Leaving \ {d} /\ Waiting' = Waiting
  BY <1>1, PopMoves
<1>3. ~InWork /\ InWork' /\ Live /\ Live' /\ cur' = d
  BY <1>1, <1>2 DEF AtLoop, InWork, Live
<1>4. OpenDirs' = OpenDirs /\ Frontier' = Frontier
  BY <1>1, <1>2, <1>3 DEF OpenDirs, Frontier
<1>5. OneTask'
  BY <1>1, <1>2, <1>3 DEF OneTask, IInv
<1> QED BY <1>1, <1>3, <1>4, <1>5, HeldKept DEF Moved, Started

\* A directory yields.
LEMMA YieldMoves == ASSUME IInv, Requeue PROVE Moved
<1>1. /\ pc = "requeue" /\ pc' = "loop" /\ UNCHANGED <<kids, todo, cur, seen, settled>>
      /\ UNCHANGED jobVars /\ tasks' = <<Task("Exit", cur)>> \o tasks
  BY DEF Requeue, poolVars, jobVars
<1>2. PICK d \in Dirs : d = cur
  BY Typed DEF WalkTypes
<1>3. OneTask /\ d \notin Leaving /\ InWork
  BY <1>1, <1>2 DEF IInv, OneTask, InWork
<1>4. Leaving' = Leaving \cup {d} /\ Waiting' = Waiting /\ Once(tasks')
  BY <1>1, <1>2, <1>3, PushMoves
<1>5. ~InWork' /\ Live /\ Live'
  BY <1>1 DEF InWork, Live
<1>6. OpenDirs' = OpenDirs /\ Frontier' = Frontier
  BY <1>1, <1>2, <1>3, <1>4, <1>5 DEF OpenDirs, Frontier
<1>7. OneTask'
  BY <1>1, <1>3, <1>4, <1>5 DEF OneTask
<1> QED BY <1>1, <1>5, <1>6, <1>7, HeldKept DEF Moved, Started

\* Positions that change without anything else.
LEMMA PlaceMoves == ASSUME IInv, ChildrenDone \/ WalkDone \/ SubmitFileJob PROVE Moved
<1>1. /\ UNCHANGED <<tasks, kids, todo, cur, seen, settled>> /\ Held' = Held
      /\ \/ pc = "children" /\ pc' = "loop"
         \/ pc = "loop" /\ pc' = "drain"
         \/ pc \in {"submit", "offer"} /\ pc' = "entries"
  <2>1. SubmitFileJob => Held' = Held
    BY SubmitMoves
  <2>2. ChildrenDone \/ WalkDone => Held' = Held
    BY HeldKept DEF ChildrenDone, WalkDone, walkVars, poolVars, jobVars
  <2> QED BY <2>1, <2>2 DEF ChildrenDone, WalkDone, SubmitFileJob, walkVars
<1>2. InWork' = InWork /\ Live /\ Live'
  BY <1>1 DEF InWork, Live
<1>3. Leaving' = Leaving /\ Waiting' = Waiting
  BY <1>1 DEF Leaving, Waiting
<1>4. OpenDirs' = OpenDirs /\ Frontier' = Frontier
  BY <1>1, <1>2, <1>3 DEF OpenDirs, Frontier
<1>5. OneTask'
  BY <1>1, <1>2, <1>3 DEF OneTask, IInv
<1> QED BY <1>1, <1>2, <1>4, <1>5 DEF Moved, Started

\* What neither the walk nor the books notice.
LEMMA Unnoticed ==
    ASSUME IInv,
           \/ PollCancellation \/ BeginInline \/ RequestCancel \/ UNCHANGED vars
           \/ \E w \in Workers : Work(w)
    PROVE  Moved \/ (Over /\ ~Live)
<1>1. UNCHANGED walkBooks /\ UNCHANGED <<seen, settled>>
  BY DEF PollCancellation, BeginInline, RequestCancel, Work, Take, StartBatch, Complete,
     CompleteUnheard, WorkerQuits, vars, walkVars, walkBooks
<1>2. /\ Frontier' = Frontier /\ OpenDirs' = OpenDirs /\ Live' = Live /\ OneTask'
  BY <1>1, WalkKept DEF IInv
<1>3. CASE ~Live
  BY <1>1, <1>2, <1>3 DEF Over
<1>4. CASE Live
  <2>1. Held' = Held
    <3>1. ASSUME \/ PollCancellation \/ BeginInline \/ RequestCancel \/ UNCHANGED vars
                 \/ \E w \in Workers : StartBatch(w) \/ WorkerQuits(w)
          PROVE  Held' = Held
      <4>1. UNCHANGED jobVars
        BY <3>1 DEF PollCancellation, BeginInline, RequestCancel, StartBatch, WorkerQuits, vars,
           walkVars, poolVars, jobVars
      <4> QED BY <4>1, HeldKept
    <3>2. ASSUME \E w \in Workers : Take(w) \/ Complete(w) PROVE Held' = Held
      BY <3>2, TakeMoves, CompleteMoves
    <3>3. ~(\E w \in Workers : CompleteUnheard(w))
      BY <1>4 DEF CompleteUnheard, Live
    <3> QED BY <3>1, <3>2, <3>3 DEF Work
  <2> QED BY <1>1, <1>2, <1>4, <2>1 DEF Moved, Started
<1> QED BY <1>3, <1>4

\* The end of the run.
LEMMA EndMoved == ASSUME IInv, Finalize \/ Abort \/ JoinWorkers PROVE Over
<1>1. UNCHANGED <<tasks, kids, todo, cur, seen, settled>> /\ pc' \in {"joining", "ended"}
  BY DEF Finalize, Abort, JoinWorkers, walkVars
<1>2. ~InWork' /\ ~Live' /\ Leaving' = Leaving /\ Waiting' = Waiting
  BY <1>1 DEF InWork, Live, Leaving, Waiting
<1>3. OneTask'
  BY <1>1, <1>2 DEF OneTask, IInv
<1> QED BY <1>1, <1>2, <1>3 DEF Over

\* Every step is of one of these kinds.
LEMMA Kinds ==
    ASSUME IInv, [Next]_vars
    PROVE  \/ ResolvedOne \/ BegunOne \/ FinishedOne \/ Moved
           \/ Over /\ (Finalize \/ Abort \/ ~Live)
<1>1. JoinWorkers => ~Live
  BY DEF JoinWorkers, Live
<1> QED BY <1>1, EnterResolves, EntryResolves, ChildResolves, FileBegins, DirectoryBegins, ExitFinishes,
        ReceiveFinishes, EndFinishes, EntriesMove, ChildMoves, ChildFound, ExitMoves, YieldMoves,
        PlaceMoves, Unnoticed, EndMoved DEF Next, Walk, Ended

\* No directory is twice on the deque, or both waiting and still to be created.
LEMMA OneTaskStep == ASSUME IInv, [Next]_vars PROVE OneTask'
  BY Kinds DEF ResolvedOne, BegunOne, FinishedOne, Moved, Over

\* At the end of the walk nothing is left to discover and nothing is started.
LEMMA AllDone == ASSUME IInv, Finalize PROVE Live /\ Frontier = {} /\ Started = {}
<1>1. /\ pc = "drain" /\ inline = <<>> /\ outstanding = 0 /\ tasks = <<>> /\ todo = {}
      /\ kids = {} /\ Live /\ job = None /\ ~InWork
  BY DEF Finalize, IInv, Control, Live, InWork
<1>2. Flying = {}
  <2>1. Flying \in SUBSET Files /\ Cardinality(Flying) = 0
    BY <1>1, PlacesTyped DEF IInv, Counts, Counted
  <2>2. \A f \in Flying : f \in Files /\ Cardinality(Flying) > 0
    BY <2>1, Sizes
  <2> QED BY <2>1, <2>2
<1>3. Own = {} /\ Offer = {} /\ Waiting = {} /\ Leaving = {}
  BY <1>1 DEF Own, Offer, Waiting, Leaving, Elems
<1> QED BY <1>1, <1>2, <1>3 DEF Frontier, Started, Held, OpenDirs

---------------------------------------------------------------------------
(* The books.                                                              *)

\* While the run goes on, each kind of step keeps the ledger.
LEMMA LedgerKept ==
    ASSUME IInv, ResolvedOne \/ BegunOne \/ FinishedOne \/ Moved PROVE Books'
<1>1. Live /\ Live' /\ Ledger(seen, settled, Frontier, Started)
  BY DEF ResolvedOne, BegunOne, FinishedOne, Moved, IInv, Books
<1>2. /\ seen \in [Objects -> Nat] /\ settled \in [Objects -> Seq(Terminal)]
      /\ Frontier \in SUBSET Objects
  BY <1>1, Typed, Fresh DEF BookTypes
<1>3. CASE ResolvedOne
  <2>1. PICK x \in Frontier : \E X \in SUBSET Territory(x) : \E new \in [X -> Terminal] :
         /\ x \in X /\ (x \in Files \/ new[x] \in Failures \cup {"excluded"})
         /\ seen' = Booked(seen, X) /\ settled' = Settling(settled, new)
         /\ Frontier' = Frontier \ {x}
    BY <1>3 DEF ResolvedOne
  <2>2. PICK X \in SUBSET Territory(x) : \E new \in [X -> Terminal] :
         /\ x \in X /\ (x \in Files \/ new[x] \in Failures \cup {"excluded"})
         /\ seen' = Booked(seen, X) /\ settled' = Settling(settled, new)
         /\ Frontier' = Frontier \ {x}
    BY <2>1
  <2>3. PICK new \in [X -> Terminal] :
         /\ x \in X /\ (x \in Files \/ new[x] \in Failures \cup {"excluded"})
         /\ seen' = Booked(seen, X) /\ settled' = Settling(settled, new)
         /\ Frontier' = Frontier \ {x}
    BY <2>2
  <2>4. Ledger(Booked(seen, X), Settling(settled, new), Frontier \ {x}, Started)
    BY <1>1, <1>2, <2>3, Resolve
  <2>5. Started' = Started
    BY <1>3 DEF ResolvedOne
  <2>6. Ledger(seen', settled', Frontier', Started')
    BY <2>3, <2>4, <2>5
  <2> QED BY <1>1, <2>6 DEF Books, Ledger, Resolved
<1>4. CASE BegunOne
  <2>1. PICK x \in Frontier :
         /\ seen' = Booked(seen, {x}) /\ settled' = settled
         /\ Frontier' = (Frontier \ {x}) \cup Entries(x) /\ Started' = Started \cup {x}
    BY <1>4 DEF BegunOne
  <2>2. Ledger(Booked(seen, {x}), settled, (Frontier \ {x}) \cup Entries(x), Started \cup {x})
    BY <1>1, <1>2, Begin
  <2>3. Ledger(seen', settled', Frontier', Started')
    BY <2>1, <2>2
  <2> QED BY <1>1, <2>3 DEF Books, Ledger, Resolved
<1>5. CASE FinishedOne
  <2>1. PICK x \in Started \cap Objects, out \in Terminal :
         /\ seen' = seen /\ settled' = Settling(settled, Only(x, out))
         /\ Started' = Started \ {x}
    BY <1>5 DEF FinishedOne
  <2>2. Ledger(seen, Settling(settled, Only(x, out)), Frontier, Started \ {x})
    BY <1>1, <1>2, Finish
  <2>3. Frontier' = Frontier
    BY <1>5 DEF FinishedOne
  <2>4. Ledger(seen', settled', Frontier', Started')
    BY <2>1, <2>2, <2>3
  <2> QED BY <1>1, <2>4 DEF Books, Ledger, Resolved
<1>6. CASE Moved
  BY <1>1, <1>6 DEF Moved, Books, Ledger, Resolved
<1> QED BY <1>3, <1>4, <1>5, <1>6

\* What the exit code says when the walk is done.
LEMMA Earned ==
    ASSUME IInv, Finalize
    PROVE  /\ \A o \in Objects : seen[o] <= 1 /\ Len(settled[o]) = seen[o]
           /\ exit' = 0 => \A o \in Objects :
                \/ settled[o] \in {<<"copied">>, <<"skipped">>, <<"done">>}
                \/ \E a \in Above[o] \cup {o} : settled[a] = <<"excluded">>
           /\ exit' = 3 => requested
<1>1. Live /\ Frontier = {} /\ Started = {}
  BY AllDone
<1>2. Ledger(seen, settled, Frontier, Started)
  BY <1>1 DEF IInv, Books
<1>3. ASSUME NEW o \in Objects
      PROVE  /\ seen[o] \in {0, 1} /\ Len(settled[o]) = seen[o]
             /\ seen[o] = 1 => \E v \in Terminal : settled[o] = <<v>> /\ settled[o][1] = v
                                                   /\ 1 \in DOMAIN settled[o]
  <2>1. seen[o] \in Nat /\ settled[o] \in Seq(Terminal)
    BY Typed DEF BookTypes
  <2>2. seen[o] <= 1 /\ Len(settled[o]) <= seen[o] /\ ~(seen[o] = 1 /\ settled[o] = <<>>)
    BY <1>1, <1>2 DEF Ledger
  <2>3. settled[o] # <<>> => Len(settled[o]) > 0
    BY <2>1, EmptySeq
  <2>4. Len(settled[o]) = seen[o] /\ seen[o] \in {0, 1}
    BY <2>1, <2>2, <2>3
  <2>5. ASSUME seen[o] = 1
        PROVE  \E v \in Terminal : settled[o] = <<v>> /\ settled[o][1] = v
                                   /\ 1 \in DOMAIN settled[o]
    <3>1. Len(settled[o]) = 1 /\ settled[o][1] \in Terminal /\ 1 \in DOMAIN settled[o]
      BY <2>1, <2>4, <2>5
    <3>2. settled[o] = <<settled[o][1]>>
      BY <2>1, <3>1
    <3> QED BY <3>1, <3>2
  <2> QED BY <2>4, <2>5
<1>4. /\ exit' = 0 => ~breaker /\ ~canceled /\ ~AnyFailed
      /\ exit' = 3 => ~breaker /\ canceled
  BY DEF Finalize, CompletedExit
<1>5. exit' = 3 => requested
  BY <1>4 DEF IInv, Stops
<1>6. ASSUME exit' = 0, NEW o \in Objects
      PROVE  \/ settled[o] \in {<<"copied">>, <<"skipped">>, <<"done">>}
             \/ \E a \in Above[o] \cup {o} : settled[a] = <<"excluded">>
  <2>1. Resolved(seen, settled, Frontier, o)
    BY <1>2 DEF Ledger
  <2>2. CASE seen[o] = 1
    <3>1. PICK v \in Terminal : settled[o] = <<v>> /\ settled[o][1] = v /\ 1 \in DOMAIN settled[o]
      BY <1>3, <2>2
    <3>2. v \notin Failures
      BY <1>4, <1>6, <3>1 DEF AnyFailed
    <3>3. v # "not_attempted" /\ v # "canceled"
      BY <1>4, <1>6, <3>1 DEF IInv, Outcomes
    <3>4. v \in {"copied", "skipped", "done", "excluded"}
      BY <3>2, <3>3 DEF Terminal, FileSuccess
    <3> QED BY <3>1, <3>4
  <2>3. ASSUME NEW a \in Above[o], NEW out \in Failures \cup {"excluded"}, settled[a] = <<out>>
        PROVE  settled[a] = <<"excluded">>
    <3>1. a \in Objects
      BY AboveDirs DEF Objects
    <3>2. 1 \in DOMAIN settled[a] /\ settled[a][1] = out
      BY <2>3
    <3>3. out \notin Failures
      BY <1>4, <1>6, <3>1, <3>2 DEF AnyFailed
    <3> QED BY <2>3, <3>3
  <2> QED BY <1>1, <2>1, <2>2, <2>3 DEF Resolved
<1>7. \A o \in Objects : seen[o] <= 1 /\ Len(settled[o]) = seen[o]
  BY <1>3
<1> QED BY <1>5, <1>6, <1>7

\* After the end the flags and the exit code stand.
LEMMA FlagsStand ==
    ASSUME IInv, [Next]_vars, ~Live
    PROVE  UNCHANGED <<exit, aborted, requested, seen, settled>>
<1>1. inline = <<>> /\ pc \in {"joining", "ended"}
  BY DEF IInv, Control, Live
<1>2. ASSUME \E w \in Workers : Work(w)
      PROVE  UNCHANGED <<exit, aborted, requested, seen, settled>>
  BY <1>2 DEF Work, Take, StartBatch, Complete, CompleteUnheard, WorkerQuits, endVars
<1>3. ASSUME JoinWorkers \/ UNCHANGED vars
      PROVE  UNCHANGED <<exit, aborted, requested, seen, settled>>
  BY <1>3 DEF JoinWorkers, endVars, vars
<1>4. ~(\/ EnterStopped \/ EnterFails \/ EnterDirectory \/ EntriesDone \/ ChildrenDone
        \/ ExitTask \/ Requeue \/ ExitDirectory \/ SubmitFileJob \/ WalkDone \/ Finalize
        \/ Abort \/ ReceiveFileJob \/ PollCancellation \/ BeginInline \/ EndInline
        \/ RequestCancel)
  BY <1>1 DEF EnterStopped, EnterFails, EnterDirectory, EntriesDone, ChildrenDone,
     ExitTask, Requeue, ExitDirectory, SubmitFileJob, WalkDone, Finalize,
     Abort, ReceiveFileJob, PollCancellation, BeginInline, EndInline,
     RequestCancel, AtLoop, Awaiting, MustReceiveFirst
<1>5. ~(\E o \in Objects : \/ EntryStopped(o) \/ EntryFails(o) \/ EntryExcluded(o)
                           \/ FileSkipped(o) \/ FileDispatched(o) \/ FileInline(o)
                           \/ ChildDirectory(o) \/ ChildReady(o) \/ ChildFails(o))
  BY <1>1 DEF EntryStopped, EntryFails, EntryExcluded, FileSkipped, FileDispatched, FileInline,
     ChildDirectory, ChildReady, ChildFails, AtEntry
<1> QED BY <1>2, <1>3, <1>4, <1>5 DEF Next, Walk, Ended

\* The books stay right.
LEMMA BooksStep == ASSUME IInv, [Next]_vars PROVE Books'
<1>1. CASE ResolvedOne \/ BegunOne \/ FinishedOne \/ Moved
  BY <1>1, LedgerKept
<1>2. CASE Over /\ ~Live
  <2>1. Closed /\ ~Live'
    BY <1>2 DEF Over, IInv, Books
  <2> QED BY <1>2, <2>1, FlagsStand DEF Books, Closed
<1>3. CASE Over /\ Finalize
  <2>1. ~Live' /\ UNCHANGED <<seen, settled, requested>>
    BY <1>3 DEF Over, Finalize
  <2>2. \A o \in Objects : seen[o] <= 1 /\ Len(settled[o]) <= seen[o]
    <3>1. seen \in [Objects -> Nat]
      BY Typed DEF BookTypes
    <3> QED BY <1>3, <3>1, Earned
  <2> QED BY <1>3, <2>1, <2>2, Earned DEF Books, Closed
<1>4. CASE Over /\ Abort
  <2>1. ~Live' /\ UNCHANGED <<seen, settled, exit>> /\ aborted' = TRUE /\ Live
    BY <1>4 DEF Over, Abort, Live
  <2>2. exit = 7
    BY <2>1 DEF IInv, Control
  <2>3. \A o \in Objects : seen[o] <= 1 /\ Len(settled[o]) <= seen[o]
    BY <2>1 DEF IInv, Books, Ledger
  <2> QED BY <2>1, <2>2, <2>3 DEF Books, Closed
<1> QED BY <1>1, <1>2, <1>3, <1>4, Kinds

---------------------------------------------------------------------------
(* The stop flags, and the outcomes that need one.                         *)

\* The flags are tallied with an outcome and a stop that the code may have seen.
Tallied ==
    \E out : \E stop \in {FALSE, requested} :
      Tally(out, stop) /\ (out = "canceled" => requested \/ worker_cancel)


\* Every step leaves the flags alone or tallies an outcome.
LEMMA TallyMoves == ASSUME IInv, [Next]_vars PROVE UNCHANGED stopVars \/ Tallied
<1>1. CASE EnterStopped
  <2>1. Tally("none", requested)
    BY <1>1 DEF EnterStopped, Observe
  <2>2. "none" # "canceled"
    OBVIOUS
  <2> QED BY <2>1, <2>2, Zenon DEF Tallied
<1>2. CASE EnterFails
  <2>1. \E out \in Failures : Tally(out, FALSE)
    BY <1>2, Zenon DEF EnterFails
  <2> QED BY <2>1 DEF Tallied, Failures
<1>3. ASSUME NEW o \in Objects, EntryFails(o) PROVE UNCHANGED stopVars \/ Tallied
  <2>1. \E out \in Failures : Tally(out, FALSE)
    BY <1>3, Zenon DEF EntryFails
  <2> QED BY <2>1 DEF Tallied, Failures
<1>4. ASSUME NEW o \in Objects, FileSkipped(o) PROVE UNCHANGED stopVars \/ Tallied
  <2>1. Tally("skipped", FALSE)
    BY <1>4 DEF FileSkipped
  <2>2. "skipped" # "canceled"
    OBVIOUS
  <2> QED BY <2>1, <2>2, Zenon DEF Tallied
<1>5. ASSUME NEW o \in Objects, ChildFails(o) PROVE UNCHANGED stopVars \/ Tallied
  <2>1. \E out \in Failures : Tally(out, FALSE)
    BY <1>5, Zenon DEF ChildFails
  <2> QED BY <2>1 DEF Tallied, Failures
<1>6. CASE ExitTask
  <2>1. Tally("none", requested)
    BY <1>6 DEF ExitTask, Observe
  <2>2. "none" # "canceled"
    OBVIOUS
  <2> QED BY <2>1, <2>2, Zenon DEF Tallied
<1>7. CASE ExitDirectory
  <2>1. UNCHANGED stopVars \/ \E out \in Failures : Tally(out, FALSE)
    BY <1>7, Zenon DEF ExitDirectory
  <2> QED BY <2>1 DEF Tallied, Failures
<1>8. CASE ReceiveFileJob
  <2>1. results \in Seq(Completions) /\ results # <<>>
    BY <1>8, Typed DEF PoolTypes, ReceiveFileJob
  <2>2. 1 \in DOMAIN results /\ Head(results) = results[1]
    BY <2>1, EmptySeq
  <2>3. Head(results).out = "canceled" => worker_cancel
    BY <2>2 DEF IInv, Stops
  <2>4. Observe \/ Tally(Head(results).out, requested)
    BY <1>8 DEF ReceiveFileJob
  <2> QED BY <2>3, <2>4 DEF Tallied, Observe
<1>9. CASE PollCancellation
  <2>1. Tally("none", requested)
    BY <1>9 DEF PollCancellation, Observe
  <2>2. "none" # "canceled"
    OBVIOUS
  <2> QED BY <2>1, <2>2, Zenon DEF Tallied
<1>10. CASE EndInline
  <2>1. \E out \in {"copied", "failed", "device"} \cup (IF requested THEN {"canceled"} ELSE {}) :
           Tally(out, FALSE)
    BY <1>10, Zenon DEF EndInline
  <2> QED BY <2>1 DEF Tallied
<1>11. CASE UNCHANGED vars
  BY <1>11 DEF vars, stopVars
<1>12. ASSUME \/ EnterDirectory
           \/ (\E o \in Objects : EntryStopped(o))
           \/ (\E o \in Objects : EntryExcluded(o))
           \/ (\E o \in Objects : FileDispatched(o))
           \/ (\E o \in Objects : FileInline(o))
           \/ (\E o \in Objects : ChildDirectory(o))
           \/ (\E o \in Objects : ChildReady(o))
           \/ EntriesDone
           \/ ChildrenDone
           \/ Requeue
           \/ SubmitFileJob
           \/ BeginInline
           \/ WalkDone
           \/ Finalize
           \/ JoinWorkers
           \/ (\E w \in Workers : Take(w))
           \/ (\E w \in Workers : StartBatch(w))
           \/ (\E w \in Workers : Complete(w))
           \/ (\E w \in Workers : CompleteUnheard(w))
           \/ (\E w \in Workers : WorkerQuits(w))
           \/ Abort
           \/ RequestCancel
      PROVE  UNCHANGED stopVars \/ Tallied
  BY <1>12
     DEF vars, EnterDirectory, EntryStopped, EntryExcluded, FileDispatched, FileInline,
         ChildDirectory, ChildReady, EntriesDone, ChildrenDone, Requeue, SubmitFileJob,
         BeginInline, WalkDone, Finalize, JoinWorkers, Take, StartBatch, Complete,
         CompleteUnheard, WorkerQuits, Abort, RequestCancel, AtEntry, stopVars
<1> QED BY <1>1, <1>2, <1>3, <1>4, <1>5, <1>6, <1>7, <1>8, <1>9, <1>10, <1>11, <1>12 DEF Next, Walk, Work, Ended

\* Only the user's request changes the request.
LEMMA RequestMoves == ASSUME [Next]_vars PROVE UNCHANGED requested \/ RequestCancel
<1>1. ASSUME \/ EnterStopped \/ EnterFails \/ EnterDirectory \/ EntriesDone \/ ChildrenDone
             \/ ExitTask \/ Requeue \/ ExitDirectory \/ SubmitFileJob \/ ReceiveFileJob
             \/ PollCancellation \/ BeginInline \/ EndInline \/ WalkDone \/ Finalize
             \/ JoinWorkers \/ Abort \/ UNCHANGED vars
             \/ \E w \in Workers : Work(w)
      PROVE  UNCHANGED requested
  BY <1>1 DEF EnterStopped, EnterFails, EnterDirectory, EntriesDone, ChildrenDone, ExitTask,
     Requeue, ExitDirectory, SubmitFileJob, ReceiveFileJob, PollCancellation, BeginInline,
     EndInline, WalkDone, Finalize, JoinWorkers, Abort, Work, Take, StartBatch, Complete,
     CompleteUnheard, WorkerQuits, vars
<1>2. ASSUME \E o \in Objects : \/ EntryStopped(o) \/ EntryFails(o) \/ EntryExcluded(o)
                                \/ FileSkipped(o) \/ FileDispatched(o) \/ FileInline(o)
                                \/ ChildDirectory(o) \/ ChildReady(o) \/ ChildFails(o)
      PROVE  UNCHANGED requested
  BY <1>2 DEF EntryStopped, EntryFails, EntryExcluded, FileSkipped, FileDispatched, FileInline,
     ChildDirectory, ChildReady, ChildFails, AtEntry
<1> QED BY <1>1, <1>2 DEF Next, Walk, Ended

\* Stops are never taken back, and each has its cause.
LEMMA StopsGrow ==
    ASSUME IInv, [Next]_vars
    PROVE  /\ requested => requested'
           /\ canceled => canceled'
           /\ worker_cancel => worker_cancel'
           /\ breaker => breaker'
           /\ canceled' \/ worker_cancel' => requested' \/ breaker'
<1>1. requested => requested'
  BY RequestMoves DEF RequestCancel
<1>2. canceled \/ worker_cancel => requested \/ breaker
  BY DEF IInv, Stops
<1>3. CASE UNCHANGED stopVars
  BY <1>1, <1>2, <1>3 DEF stopVars
<1>4. CASE Tallied
  <2>1. PICK out : \E stop \in {FALSE, requested} :
          Tally(out, stop) /\ (out = "canceled" => requested \/ worker_cancel)
    BY <1>4 DEF Tallied
  <2>2. PICK stop \in {FALSE, requested} :
          Tally(out, stop) /\ (out = "canceled" => requested \/ worker_cancel)
    BY <2>1
  <2>3. /\ breaker' = (breaker \/ Trips(out))
        /\ canceled' = (canceled \/ stop \/ out = "canceled")
        /\ worker_cancel' = (worker_cancel \/ stop \/ out = "canceled" \/ Trips(out))
    BY <2>2 DEF Tally
  <2>4. stop => requested
    BY <2>2
  <2>5. out = "canceled" => requested \/ worker_cancel
    BY <2>2
  <2> QED BY <1>1, <1>2, <2>3, <2>4, <2>5, Zenon
<1> QED BY <1>3, <1>4, TallyMoves

\* A canceled completion needs the workers' stop flag.
LEMMA StopsStep == ASSUME IInv, [Next]_vars PROVE Stops'
<1>1. \A c \in Elems(results) : c.out = "canceled" => worker_cancel
  BY DEF IInv, Stops, Elems
<1>2. SUFFICES \A c \in Elems(results') : c.out = "canceled" => worker_cancel'
  BY StopsGrow DEF Stops, Elems
<1>3. CASE ReceiveFileJob
  BY <1>1, <1>3, ReceiveMoves, StopsGrow
<1>4. ASSUME NEW w \in Workers, Complete(w)
      PROVE  \A c \in Elems(results') : c.out = "canceled" => worker_cancel'
  <2>1. PICK j \in batch[w] : \E out \in WorkerOutcomes(j) :
            results' = Append(results, [file |-> j.file, out |-> out])
    BY <1>4 DEF Complete
  <2>2. PICK out \in WorkerOutcomes(j) : results' = Append(results, [file |-> j.file, out |-> out])
    BY <2>1
  <2>3. [file |-> j.file, out |-> out] \in Completions /\ results \in Seq(Completions)
    BY Typed DEF PoolTypes, Jobs, Completions, WorkerOutcomes, Failures
  <2>4. Elems(results') = Elems(results) \cup {[file |-> j.file, out |-> out]}
    BY <2>2, <2>3, Appended
  <2>5. out = "canceled" => worker_cancel
    BY DEF WorkerOutcomes, Failures
  <2> QED BY <1>1, <2>4, <2>5, StopsGrow
<1>5. CASE UNCHANGED jobVars
  BY <1>1, <1>5, StopsGrow DEF jobVars
<1>6. ASSUME \/ \E o \in Objects : FileDispatched(o) \/ FileInline(o)
             \/ SubmitFileJob \/ EndInline \/ Abort
             \/ \E w \in Workers : Take(w) \/ CompleteUnheard(w)
      PROVE  results' = results
  BY <1>6
     DEF FileDispatched, FileInline, SubmitFileJob, EndInline, Abort, Take, CompleteUnheard,
     AtEntry, poolVars
<1> QED BY <1>1, <1>3, <1>4, <1>5, <1>6, StopsGrow, JobMoves

---------------------------------------------------------------------------
(* Outcomes.                                                               *)

\* An outcome stands once it is recorded.
LEMMA Recorded ==
    ASSUME IInv, [Next]_vars
    PROVE  /\ seen' \in [Objects -> Nat] /\ settled' \in [Objects -> Seq(Terminal)]
           /\ \A o \in Objects : settled[o] # <<>> => settled'[o] = settled[o]
<1>1. seen \in [Objects -> Nat] /\ settled \in [Objects -> Seq(Terminal)]
  BY Typed DEF BookTypes
<1>2. CASE ResolvedOne
  <2>1. PICK x \in Frontier : \E X \in SUBSET Territory(x) : \E new \in [X -> Terminal] :
         seen' = Booked(seen, X) /\ settled' = Settling(settled, new)
    BY <1>2 DEF ResolvedOne
  <2>2. PICK X \in SUBSET Territory(x) : \E new \in [X -> Terminal] :
         seen' = Booked(seen, X) /\ settled' = Settling(settled, new)
    BY <2>1
  <2>3. PICK new \in [X -> Terminal] : seen' = Booked(seen, X) /\ settled' = Settling(settled, new)
    BY <2>2
  <2>4. \A o \in Territory(x) : o \in Objects => settled[o] = <<>>
    <3>1. Ledger(seen, settled, Frontier, Started)
      BY <1>2 DEF ResolvedOne, IInv, Books
    <3>2. \A o \in Territory(x) : seen[o] = 0
      BY <3>1 DEF Ledger
    <3> QED BY <1>1, <3>1, <3>2, LedgerFacts
  <2> QED BY <1>1, <2>3, <2>4 DEF Booked, Settling
<1>3. CASE BegunOne
  BY <1>1, <1>3 DEF BegunOne, Booked
<1>4. CASE FinishedOne
  <2>1. PICK x \in Started \cap Objects, out \in Terminal :
          seen' = seen /\ settled' = Settling(settled, Only(x, out))
    BY <1>4 DEF FinishedOne
  <2>2. settled[x] = <<>>
    <3>1. Ledger(seen, settled, Frontier, Started)
      BY <1>4 DEF FinishedOne, IInv, Books
    <3> QED BY <3>1 DEF Ledger
  <2> QED BY <1>1, <2>1, <2>2 DEF Settling, Only
<1>5. CASE Moved \/ Over
  BY <1>1, <1>5 DEF Moved, Over
<1> QED BY <1>2, <1>3, <1>4, <1>5, Kinds

\* A recorded outcome has its excuse, if it needs one.
Excused(v) ==
    /\ v = "canceled" => canceled'
    /\ v = "not_attempted" => breaker' \/ AnyFailed'
Records ==
    \A o \in Objects : \/ settled'[o] = settled[o]
                       \/ \E v \in Terminal : Excused(v) /\ settled'[o] = Append(settled[o], v)

\* One object gets an outcome.
LEMMA RecordsOne ==
    ASSUME NEW x, NEW v \in Terminal, Settle(Only(x, v)), Excused(v) PROVE Records
  BY DEF Settle, Only, Records

\* A failed directory gets one, and with it what lies below.
LEMMA RecordsFailure ==
    ASSUME IInv, NEW x \in Objects, NEW S \in SUBSET Objects, NEW out \in Failures,
           Settle([o \in S \cup {x} |-> IF o = x THEN out ELSE NotAttempted(S)[o]])
    PROVE  Records
<1>1. settled[x] \in Seq(Terminal) /\ settled'[x] = Append(settled[x], out)
  BY Typed DEF BookTypes, Settle
<1>2. AnyFailed'
  <2>1. Len(settled[x]) + 1 \in DOMAIN settled'[x] /\ settled'[x][Len(settled[x]) + 1] = out
    BY <1>1
  <2> QED BY <2>1 DEF AnyFailed, Objects
<1>3. \A v \in Terminal : v # "canceled" => Excused(v)
  BY <1>2 DEF Excused
<1>4. \A o \in S : NotAttempted(S)[o] \in {"failed", "not_attempted"}
  BY DEF NotAttempted
<1> QED BY <1>3, <1>4 DEF Settle, Records, Failures, Terminal

\* Every outcome recorded has its excuse.
LEMMA RecordsMove == ASSUME IInv, [Next]_vars PROVE Records
<1>1. CASE EnterStopped
  BY <1>1, RecordsOne DEF EnterStopped, Excused, Terminal, Failures
<1>2. CASE EnterFails
  <2>1. NextTask.dir \in Objects
    <3>1. tasks \in Seq([op : {"Enter", "Exit"}, dir : Dirs]) /\ tasks # <<>>
      BY <1>2, Typed DEF WalkTypes, EnterFails, AtLoop
    <3>2. NextTask \in [op : {"Enter", "Exit"}, dir : Dirs]
      BY <3>1, Popped DEF NextTask
    <3> QED BY <3>2 DEF Objects
  <2>2. PICK out \in Failures, unreadable \in SUBSET Dirs :
          LET S == IF NextTask.dir \in unreadable THEN {} ELSE Unwalked(NextTask.dir, unreadable)
          IN  /\ Discover(S \cup {NextTask.dir})
              /\ Settle([x \in S \cup {NextTask.dir} |-> IF x = NextTask.dir THEN out ELSE NotAttempted(S)[x]])
              /\ Tally(out, FALSE)
    BY <1>2, Zenon DEF EnterFails
  <2> DEFINE S == IF NextTask.dir \in unreadable THEN {} ELSE Unwalked(NextTask.dir, unreadable)
  <2>3. S \in SUBSET Objects
    BY DEF Unwalked, Below
  <2>4. Settle([x \in S \cup {NextTask.dir} |-> IF x = NextTask.dir THEN out ELSE NotAttempted(S)[x]])
    BY <2>2
  <2> HIDE DEF S
  <2> QED BY <2>1, <2>3, <2>4, RecordsFailure
<1>3. ASSUME NEW o \in Objects, EntryStopped(o) PROVE Records
  <2>1. breaker /\ UNCHANGED stopVars
    BY <1>3 DEF EntryStopped
  <2>2. breaker' = breaker
    BY <2>1 DEF stopVars
  <2>3. PICK v \in {"failed", "not_attempted"} : Settle(Only(o, v))
    BY <1>3 DEF EntryStopped
  <2>4. Excused(v)
    BY <2>1, <2>2 DEF Excused
  <2> QED BY <2>3, <2>4, RecordsOne DEF Terminal, Failures
<1>4. ASSUME NEW o \in Objects, EntryFails(o) PROVE Records
  <2>1. o \in Objects
    OBVIOUS
  <2>2. PICK out \in Failures, unreadable \in SUBSET Dirs :
          LET S == IF o \in Files \cup unreadable THEN {} ELSE Unwalked(o, unreadable)
          IN  /\ Discover(S \cup {o})
              /\ Settle([x \in S \cup {o} |-> IF x = o THEN out ELSE NotAttempted(S)[x]])
              /\ Tally(out, FALSE)
    BY <1>4, Zenon DEF EntryFails
  <2> DEFINE S == IF o \in Files \cup unreadable THEN {} ELSE Unwalked(o, unreadable)
  <2>3. S \in SUBSET Objects
    BY DEF Unwalked, Below
  <2>4. Settle([x \in S \cup {o} |-> IF x = o THEN out ELSE NotAttempted(S)[x]])
    BY <2>2
  <2> HIDE DEF S
  <2> QED BY <2>1, <2>3, <2>4, RecordsFailure
<1>5. ASSUME NEW o \in Objects, EntryExcluded(o) PROVE Records
  BY <1>5, RecordsOne DEF EntryExcluded, Excused, Terminal
<1>6. ASSUME NEW o \in Objects, FileSkipped(o) PROVE Records
  BY <1>6, RecordsOne DEF FileSkipped, Excused, Terminal, FileSuccess
<1>7. ASSUME NEW o \in Objects, ChildFails(o) PROVE Records
  <2>1. o \in Objects
    OBVIOUS
  <2>2. PICK out \in Failures, unreadable \in SUBSET Dirs :
          LET S == IF o \in unreadable THEN {} ELSE Unwalked(o, unreadable)
          IN  /\ Discover(S \cup {o})
              /\ Settle([x \in S \cup {o} |-> IF x = o THEN out ELSE NotAttempted(S)[x]])
              /\ Tally(out, FALSE)
    BY <1>7, Zenon DEF ChildFails
  <2> DEFINE S == IF o \in unreadable THEN {} ELSE Unwalked(o, unreadable)
  <2>3. S \in SUBSET Objects
    BY DEF Unwalked, Below
  <2>4. Settle([x \in S \cup {o} |-> IF x = o THEN out ELSE NotAttempted(S)[x]])
    BY <2>2
  <2> HIDE DEF S
  <2> QED BY <2>1, <2>3, <2>4, RecordsFailure
<1>8. CASE ExitDirectory
  <2>1. PICK v \in Failures \cup {"done"} : Settle(Only(cur, v))
    BY <1>8 DEF ExitDirectory
  <2> QED BY <2>1, RecordsOne DEF Excused, Terminal, Failures
<1>9. CASE ReceiveFileJob
  <2>1. PICK f \in Files, out \in Failures \cup {"copied", "canceled", "promoted"} :
          Head(results) = [file |-> f, out |-> out]
    BY <1>9, ReceiveMoves
  <2>2. CASE out = "promoted"
    BY <1>9, <2>1, <2>2 DEF ReceiveFileJob, Records
  <2>3. CASE out # "promoted"
    <3>1. Settle(Only(f, out)) /\ Tally(out, requested)
      BY <1>9, <2>1, <2>3 DEF ReceiveFileJob
    <3>2. out = "canceled" => canceled'
      BY <3>1 DEF Tally
    <3>3. Excused(out)
      BY <3>2 DEF Excused, Failures
    <3> QED BY <2>3, <3>1, <3>3, RecordsOne DEF Terminal, FileSuccess
  <2> QED BY <2>2, <2>3
<1>10. CASE EndInline
  <2>1. PICK out \in {"copied", "failed", "device"} \cup (IF requested THEN {"canceled"} ELSE {}) :
           Settle(Only(inline[Len(inline)], out)) /\ Tally(out, FALSE)
    BY <1>10, Zenon DEF EndInline
  <2>2. out = "canceled" => canceled'
    BY <2>1 DEF Tally
  <2>3. Excused(out)
    BY <2>1, <2>2 DEF Excused
  <2> QED BY <2>1, <2>3, RecordsOne DEF Terminal, Failures, FileSuccess
<1>11. CASE UNCHANGED vars
  BY <1>11 DEF Records, vars
<1>12. ASSUME \/ EnterDirectory
           \/ (\E o \in Objects : FileDispatched(o))
           \/ (\E o \in Objects : FileInline(o))
           \/ (\E o \in Objects : ChildDirectory(o))
           \/ (\E o \in Objects : ChildReady(o))
           \/ EntriesDone
           \/ ChildrenDone
           \/ ExitTask
           \/ Requeue
           \/ SubmitFileJob
           \/ PollCancellation
           \/ BeginInline
           \/ WalkDone
           \/ Finalize
           \/ JoinWorkers
           \/ (\E w \in Workers : Take(w))
           \/ (\E w \in Workers : StartBatch(w))
           \/ (\E w \in Workers : Complete(w))
           \/ (\E w \in Workers : CompleteUnheard(w))
           \/ (\E w \in Workers : WorkerQuits(w))
           \/ Abort
           \/ RequestCancel
      PROVE  Records
  BY <1>12
     DEF Records, vars, EnterDirectory, FileDispatched, FileInline, ChildDirectory, ChildReady,
         EntriesDone, ChildrenDone, ExitTask, Requeue, SubmitFileJob, PollCancellation,
         BeginInline, WalkDone, Finalize, JoinWorkers, Take, StartBatch, Complete,
         CompleteUnheard, WorkerQuits, Abort, RequestCancel, AtEntry
<1> QED BY <1>1, <1>2, <1>3, <1>4, <1>5, <1>6, <1>7, <1>8, <1>9, <1>10, <1>11, <1>12 DEF Next, Walk, Work, Ended

\* A canceled or unattempted object is an outcome of a stop or a failure.
LEMMA OutcomesStep == ASSUME IInv, [Next]_vars PROVE Outcomes'
<1>1. /\ settled \in [Objects -> Seq(Terminal)] /\ settled' \in [Objects -> Seq(Terminal)]
      /\ \A o \in Objects : settled[o] # <<>> => settled'[o] = settled[o]
  BY Recorded, Typed DEF BookTypes
<1>2. AnyFailed => AnyFailed'
  <2>1. ASSUME NEW o \in Objects, NEW i \in DOMAIN settled[o], settled[o][i] \in Failures
        PROVE  AnyFailed'
    <3>1. settled[o] # <<>>
      BY <1>1
    <3> QED BY <1>1, <2>1, <3>1 DEF AnyFailed, Objects
  <2> QED BY <2>1 DEF AnyFailed
<1>3. ASSUME NEW o \in Objects, NEW u, settled'[o] = <<u>> PROVE settled[o] = <<u>> \/ Excused(u)
  <2>1. ASSUME NEW v \in Terminal, settled'[o] = Append(settled[o], v), Excused(v)
        PROVE  Excused(u)
    <3>1. settled[o] \in Seq(Terminal)
      BY <1>1
    <3>2. Append(settled[o], v)[Len(settled[o]) + 1] = v /\ Len(Append(settled[o], v)) = Len(settled[o]) + 1
      BY <3>1
    <3>3. Len(settled[o]) = 0
      BY <1>3, <2>1, <3>1, <3>2
    <3>4. v = u
      BY <1>3, <2>1, <3>2, <3>3
    <3> QED BY <2>1, <3>4
  <2> QED BY <1>3, <2>1, RecordsMove DEF Records
<1>4. ASSUME NEW o \in Objects, settled'[o] = <<"not_attempted">> PROVE breaker' \/ AnyFailed'
  <2>1. settled[o] = <<"not_attempted">> => breaker \/ AnyFailed
    BY DEF IInv, Outcomes
  <2> QED BY <1>2, <1>3, <1>4, <2>1, StopsGrow DEF Excused
<1>5. ASSUME NEW o \in Objects, settled'[o] = <<"canceled">> PROVE canceled'
  <2>1. settled[o] = <<"canceled">> => canceled
    BY DEF IInv, Outcomes
  <2> QED BY <1>3, <1>5, <2>1, StopsGrow DEF Excused
<1> QED BY <1>4, <1>5 DEF Outcomes, Objects

---------------------------------------------------------------------------
(* Stamps.                                                                 *)

\* A directory the walk is still in has not been stamped.
LEMMA OpenUnset == IInv /\ Live => \A d \in OpenDirs : stamp[d] = "unset"
<1> SUFFICES ASSUME IInv, Live, NEW d \in OpenDirs PROVE stamp[d] = "unset"
  OBVIOUS
<1>1. d \in Dirs /\ d \in Objects /\ d \in Started
  BY DirsOpen DEF Started, Objects
<1>2. Ledger(seen, settled, Frontier, Started)
  BY DEF IInv, Books
<1>3. settled[d] = <<>>
  BY <1>1, <1>2 DEF Ledger
<1>4. stamp[d] \in {"unset", "clean", "dirty"} /\ stamp[d] # "dirty" /\ stamp[d] # "clean"
  BY <1>1, <1>3, Typed DEF BookTypes, IInv, Stamps
<1> QED BY <1>4

\* Touching a directory that has not been stamped changes nothing.
LEMMA TouchesNothing ==
    ASSUME IInv, NEW d \in Dirs, stamp[d] = "unset", Touch(d) PROVE stamp' = stamp
  BY Typed DEF BookTypes, Touch

\* A worker's job is held.
LEMMA TakenHeld ==
    ASSUME IInv, NEW w \in Workers, NEW j \in batch[w]
    PROVE  j \in Jobs /\ j.file \in Held /\ j.file \in Files /\ Parent[j.file] \in Dirs
<1>1. j \in Jobs /\ j.file \in Files
  BY Typed DEF PoolTypes, Jobs
<1>2. j.file \in Taken(w)
  BY DEF Taken, Names
<1> QED BY <1>1, <1>2, FileParents DEF Held, Flying

\* A directory is stamped as it is left.
Stamped ==
    /\ ExitDirectory /\ Settle(Only(cur, "done"))
    /\ stamp' = [stamp EXCEPT ![cur] = "clean"]

\* No other step changes a stamp: every disturbed directory is one not yet stamped.
LEMMA StampMoves == ASSUME IInv, [Next]_vars PROVE stamp' = stamp \/ Stamped
<1>1. ASSUME NEW o \in Objects, ChildReady(o) PROVE stamp' = stamp \/ Stamped
  <2>1. cur \in Leaving /\ Live /\ cur \in Dirs
    BY <1>1, Typed DEF ChildReady, IInv, Control, Live, WalkTypes
  <2>2. stamp[cur] = "unset"
    BY <2>1, OpenUnset DEF OpenDirs
  <2> QED BY <1>1, <2>1, <2>2, TouchesNothing DEF ChildReady
<1>2. CASE ExitDirectory
  BY <1>2 DEF ExitDirectory, Stamped
<1>3. CASE EndInline
  <2>1. PICK f \in Files : f = inline[Len(inline)] /\ f \in Held
    BY <1>3, EndMoves
  <2>2. Touch(Parent[f])
    BY <1>3, <2>1 DEF EndInline
  <2>3. stamp[Parent[f]] = "unset" /\ Parent[f] \in Dirs
    BY <2>1, FileParents DEF IInv, Stamps
  <2> QED BY <2>2, <2>3, TouchesNothing
<1>4. ASSUME NEW w \in Workers, Complete(w) PROVE stamp' = stamp \/ Stamped
  <2>1. PICK j \in batch[w] : \E out \in WorkerOutcomes(j) : Executed(j, out)
    BY <1>4 DEF Complete
  <2>2. stamp[Parent[j.file]] = "unset" /\ Parent[j.file] \in Dirs
    BY TakenHeld DEF IInv, Stamps
  <2> QED BY <2>1, <2>2, TouchesNothing DEF Executed
<1>5. ASSUME NEW w \in Workers, CompleteUnheard(w) PROVE stamp' = stamp \/ Stamped
  <2>1. PICK j \in batch[w] : \E out \in WorkerOutcomes(j) : Executed(j, out)
    BY <1>5 DEF CompleteUnheard
  <2>2. stamp[Parent[j.file]] = "unset" /\ Parent[j.file] \in Dirs
    BY TakenHeld DEF IInv, Stamps
  <2> QED BY <2>1, <2>2, TouchesNothing DEF Executed
<1>6. CASE UNCHANGED vars
  BY <1>6 DEF vars
<1>7. ASSUME \/ EnterStopped
           \/ EnterFails
           \/ EnterDirectory
           \/ (\E o \in Objects : EntryStopped(o))
           \/ (\E o \in Objects : EntryFails(o))
           \/ (\E o \in Objects : EntryExcluded(o))
           \/ (\E o \in Objects : FileSkipped(o))
           \/ (\E o \in Objects : FileDispatched(o))
           \/ (\E o \in Objects : FileInline(o))
           \/ (\E o \in Objects : ChildDirectory(o))
           \/ (\E o \in Objects : ChildFails(o))
           \/ EntriesDone
           \/ ChildrenDone
           \/ ExitTask
           \/ Requeue
           \/ SubmitFileJob
           \/ ReceiveFileJob
           \/ PollCancellation
           \/ BeginInline
           \/ WalkDone
           \/ Finalize
           \/ JoinWorkers
           \/ (\E w \in Workers : Take(w))
           \/ (\E w \in Workers : StartBatch(w))
           \/ (\E w \in Workers : WorkerQuits(w))
           \/ Abort
           \/ RequestCancel
      PROVE  stamp' = stamp \/ Stamped
  BY <1>7
     DEF vars, EnterStopped, EnterFails, EnterDirectory, EntryStopped, EntryFails,
         EntryExcluded, FileSkipped, FileDispatched, FileInline, ChildDirectory, ChildFails,
         EntriesDone, ChildrenDone, ExitTask, Requeue, SubmitFileJob, ReceiveFileJob,
         PollCancellation, BeginInline, WalkDone, Finalize, JoinWorkers, Take, StartBatch,
         WorkerQuits, Abort, RequestCancel, AtEntry
<1> QED BY <1>1, <1>2, <1>3, <1>4, <1>5, <1>6, <1>7 DEF Next, Walk, Work, Ended

\* Who is held was held before, or is an entry of the directory the walk is in.
LEMMA HeldMoves ==
    ASSUME IInv, [Next]_vars PROVE \A f \in Held' : f \in Held \/ stamp[Parent[f]] = "unset"
<1>1. CASE UNCHANGED jobVars
  BY <1>1, HeldKept
<1>2. ASSUME NEW o \in Objects, FileDispatched(o) \/ FileInline(o)
      PROVE  \A f \in Held' : f \in Held \/ stamp[Parent[f]] = "unset"
  <2>1. Held' = Held \cup {o} /\ Live
    BY <1>2, DispatchMoves, InlineMoves
  <2>2. pc = "entries" /\ o \in todo
    BY <1>2 DEF FileDispatched, FileInline, AtEntry
  <2>3. Parent[o] = cur /\ cur \in OpenDirs
    BY <2>2 DEF IInv, Control, Entries, OpenDirs, InWork
  <2> QED BY <2>1, <2>3, OpenUnset
<1>3. CASE SubmitFileJob
  BY <1>3, SubmitMoves
<1>4. CASE ReceiveFileJob
  BY <1>4, ReceiveMoves
<1>5. CASE EndInline
  BY <1>5, EndMoves
<1>6. CASE Abort
  BY <1>6, LostMoves
<1>7. ASSUME NEW w \in Workers, Take(w) \/ Complete(w) \/ CompleteUnheard(w)
      PROVE  \A f \in Held' : f \in Held \/ stamp[Parent[f]] = "unset"
  BY <1>7, TakeMoves, CompleteMoves, LostMoves
<1> QED BY <1>1, <1>2, <1>3, <1>4, <1>5, <1>6, <1>7, JobMoves

\* The directory being stamped has no file left that could disturb it.
LEMMA NoneHeld == ASSUME IInv, ExitDirectory PROVE \A f \in Held : Parent[f] # cur
<1>1. Live /\ pc = "exit" /\ inline = <<>> /\ job = None /\ dir_outstanding[cur] = 0
  BY DEF ExitDirectory, Live, MayFinalize, IInv, Control
<1>2. Held = Flying
  BY <1>1 DEF Held, Own, Elems, Offer
<1>3. cur \in Dirs
  BY Typed DEF WalkTypes
<1>4. Cardinality({f \in Flying : Parent[f] = cur}) = 0
  BY <1>1, <1>3 DEF IInv, Counts, Counted
<1>5. IsFiniteSet({f \in Flying : Parent[f] = cur})
  <2>1. {f \in Flying : Parent[f] = cur} \subseteq Files
    BY PlacesTyped
  <2> QED BY <2>1, TreeAssumption, FS_Subset
<1>6. {f \in Flying : Parent[f] = cur} = {}
  BY <1>4, <1>5, FS_EmptySet
<1> QED BY <1>2, <1>6

\* A directory's stamp is its last change.
LEMMA StampsStep == ASSUME IInv, [Next]_vars PROVE Stamps'
<1>1. /\ stamp \in [Dirs -> {"unset", "clean", "dirty"}]
      /\ \A d \in Dirs : stamp[d] # "dirty" /\ (stamp[d] = "clean" => settled[d] # <<>>)
      /\ \A f \in Held : stamp[Parent[f]] = "unset"
  BY Typed DEF BookTypes, IInv, Stamps
<1>2. \A d \in Dirs : settled[d] # <<>> => settled'[d] # <<>>
  BY Recorded DEF Objects
<1>3. CASE stamp' = stamp
  <2>1. \A f \in Held' : stamp'[Parent[f]] = "unset"
    BY <1>1, <1>3, HeldMoves
  <2> QED BY <1>1, <1>2, <1>3, <2>1 DEF Stamps
<1>4. CASE Stamped
  <2>1. stamp' = [stamp EXCEPT ![cur] = "clean"] /\ Settle(Only(cur, "done")) /\ cur \in Dirs
    BY <1>4, Typed DEF Stamped, WalkTypes
  <2>2. settled'[cur] = Append(settled[cur], "done") /\ settled[cur] \in Seq(Terminal)
    BY <2>1, Typed DEF Settle, Only, Objects, BookTypes
  <2>3. settled'[cur] # <<>>
    BY <2>2
  <2>4. Held' = Held
    BY <1>4, HeldKept DEF Stamped, ExitDirectory, walkVars, poolVars, jobVars
  <2>5. \A f \in Held' : stamp'[Parent[f]] = "unset"
    <3>1. \A f \in Held : Parent[f] \in Dirs /\ Parent[f] # cur
      BY <1>4, NoneHeld, PlacesTyped, FileParents DEF Stamped
    <3> QED BY <1>1, <2>1, <2>4, <3>1
  <2> QED BY <1>1, <1>2, <2>1, <2>3, <2>5 DEF Stamps
<1> QED BY <1>3, <1>4, StampMoves

---------------------------------------------------------------------------
(* Who copies what.                                                        *)

\* A journal once lost is not found again.
LEMMA JournalMoves == ASSUME IInv, [Next]_vars PROVE journal' => journal
<1>1. CASE EndInline
  <2>1. PICK out \in {"copied", "failed", "device"} \cup (IF requested THEN {"canceled"} ELSE {}) :
           journal' \in (IF out = "copied" /\ journal /\ Largest[inline[Len(inline)]] >= CheckpointThreshold
                         THEN {TRUE, FALSE} ELSE {journal})
    BY <1>1, Zenon DEF EndInline
  <2> QED BY <2>1
<1>2. CASE UNCHANGED vars
  BY <1>2 DEF vars
<1>3. ASSUME \/ EnterStopped
           \/ EnterFails
           \/ EnterDirectory
           \/ (\E o \in Objects : EntryStopped(o))
           \/ (\E o \in Objects : EntryFails(o))
           \/ (\E o \in Objects : EntryExcluded(o))
           \/ (\E o \in Objects : FileSkipped(o))
           \/ (\E o \in Objects : FileDispatched(o))
           \/ (\E o \in Objects : FileInline(o))
           \/ (\E o \in Objects : ChildDirectory(o))
           \/ (\E o \in Objects : ChildReady(o))
           \/ (\E o \in Objects : ChildFails(o))
           \/ EntriesDone
           \/ ChildrenDone
           \/ ExitTask
           \/ Requeue
           \/ ExitDirectory
           \/ SubmitFileJob
           \/ ReceiveFileJob
           \/ PollCancellation
           \/ BeginInline
           \/ WalkDone
           \/ Finalize
           \/ JoinWorkers
           \/ (\E w \in Workers : Take(w))
           \/ (\E w \in Workers : StartBatch(w))
           \/ (\E w \in Workers : Complete(w))
           \/ (\E w \in Workers : CompleteUnheard(w))
           \/ (\E w \in Workers : WorkerQuits(w))
           \/ Abort
           \/ RequestCancel
      PROVE  journal' => journal
  BY <1>3
     DEF vars, EnterStopped, EnterFails, EnterDirectory, EntryStopped, EntryFails,
         EntryExcluded, FileSkipped, FileDispatched, FileInline, ChildDirectory, ChildReady,
         ChildFails, EntriesDone, ChildrenDone, ExitTask, Requeue, ExitDirectory, SubmitFileJob,
         ReceiveFileJob, PollCancellation, BeginInline, WalkDone, Finalize, JoinWorkers, Take,
         StartBatch, Complete, CompleteUnheard, WorkerQuits, Abort, RequestCancel, AtEntry
<1> QED BY <1>1, <1>2, <1>3 DEF Next, Walk, Work, Ended

\* A file copied: by the coordinator, or by a worker that had not to hand it back.
ByMoved ==
    \/ by' = by
    \/ \E out : by' = [by EXCEPT ![inline[Len(inline)]] = IF out = "copied" THEN "coordinator" ELSE @]
    \/ \E w \in Workers : \E j \in JobsOf(w) : \E out :
         /\ by' = [by EXCEPT ![j.file] = IF out = "copied" THEN "worker" ELSE @]
         /\ out = "copied" => ~Promotes(j)

\* No other step copies a file.
LEMMA ByMoves == ASSUME IInv, [Next]_vars PROVE ByMoved
<1>1. CASE EndInline
  <2>1. \E out \in {"copied", "failed", "device"} \cup (IF requested THEN {"canceled"} ELSE {}) :
           by' = [by EXCEPT ![inline[Len(inline)]] = IF out = "copied" THEN "coordinator" ELSE @]
    BY <1>1, Zenon DEF EndInline
  <2> QED BY <2>1 DEF ByMoved
<1>2. ASSUME NEW w \in Workers, Complete(w) PROVE ByMoved
  <2>1. PICK j \in batch[w] : \E out \in WorkerOutcomes(j) : Executed(j, out)
    BY <1>2 DEF Complete
  <2>2. PICK out \in WorkerOutcomes(j) : Executed(j, out)
    BY <2>1
  <2>3. by' = [by EXCEPT ![j.file] = IF out = "copied" THEN "worker" ELSE @]
    BY <2>2 DEF Executed
  <2>4. out = "copied" => ~Promotes(j)
    BY DEF WorkerOutcomes, Failures
  <2>5. j \in JobsOf(w)
    BY DEF JobsOf
  <2> QED BY <2>3, <2>4, <2>5 DEF ByMoved
<1>3. ASSUME NEW w \in Workers, CompleteUnheard(w) PROVE ByMoved
  <2>1. PICK j \in batch[w] : \E out \in WorkerOutcomes(j) : Executed(j, out)
    BY <1>3 DEF CompleteUnheard
  <2>2. PICK out \in WorkerOutcomes(j) : Executed(j, out)
    BY <2>1
  <2>3. by' = [by EXCEPT ![j.file] = IF out = "copied" THEN "worker" ELSE @]
    BY <2>2 DEF Executed
  <2>4. out = "copied" => ~Promotes(j)
    BY DEF WorkerOutcomes, Failures
  <2>5. j \in JobsOf(w)
    BY DEF JobsOf
  <2> QED BY <2>3, <2>4, <2>5 DEF ByMoved
<1>4. CASE UNCHANGED vars
  BY <1>4 DEF ByMoved, vars
<1>5. ASSUME \/ EnterStopped
           \/ EnterFails
           \/ EnterDirectory
           \/ (\E o \in Objects : EntryStopped(o))
           \/ (\E o \in Objects : EntryFails(o))
           \/ (\E o \in Objects : EntryExcluded(o))
           \/ (\E o \in Objects : FileSkipped(o))
           \/ (\E o \in Objects : FileDispatched(o))
           \/ (\E o \in Objects : FileInline(o))
           \/ (\E o \in Objects : ChildDirectory(o))
           \/ (\E o \in Objects : ChildReady(o))
           \/ (\E o \in Objects : ChildFails(o))
           \/ EntriesDone
           \/ ChildrenDone
           \/ ExitTask
           \/ Requeue
           \/ ExitDirectory
           \/ SubmitFileJob
           \/ ReceiveFileJob
           \/ PollCancellation
           \/ BeginInline
           \/ WalkDone
           \/ Finalize
           \/ JoinWorkers
           \/ (\E w \in Workers : Take(w))
           \/ (\E w \in Workers : StartBatch(w))
           \/ (\E w \in Workers : WorkerQuits(w))
           \/ Abort
           \/ RequestCancel
      PROVE  ByMoved
  BY <1>5
     DEF ByMoved, vars, EnterStopped, EnterFails, EnterDirectory, EntryStopped, EntryFails,
         EntryExcluded, FileSkipped, FileDispatched, FileInline, ChildDirectory, ChildReady,
         ChildFails, EntriesDone, ChildrenDone, ExitTask, Requeue, ExitDirectory, SubmitFileJob,
         ReceiveFileJob, PollCancellation, BeginInline, WalkDone, Finalize, JoinWorkers, Take,
         StartBatch, WorkerQuits, Abort, RequestCancel, AtEntry
<1> QED BY <1>1, <1>2, <1>3, <1>4, <1>5 DEF Next, Walk, Work, Ended

\* Jobs reach the workers through the queue only.
LEMMA JobsMove ==
    ASSUME IInv, [Next]_vars, NEW w \in Workers
    PROVE  JobsOf(w)' \subseteq JobsOf(w) \cup (IF SubmitFileJob THEN {job} ELSE {})
<1>1. CASE UNCHANGED jobVars
  BY <1>1 DEF jobVars, JobsOf
<1>2. ASSUME NEW o \in Objects, FileDispatched(o) \/ FileInline(o) PROVE JobsOf(w)' = JobsOf(w)
  BY <1>2 DEF FileDispatched, FileInline, AtEntry, poolVars, JobsOf
<1>3. CASE SubmitFileJob
  <2>1. job \in Jobs /\ queue[job.worker] \in Seq(Jobs) /\ job.worker \in Workers
    BY <1>3, SubmitMoves, Typed DEF PoolTypes, Jobs
  <2>2. /\ queue' = [queue EXCEPT ![job.worker] = Append(queue[job.worker], job)]
        /\ batch' = batch
    BY <1>3 DEF SubmitFileJob
  <2>3. Elems(Append(queue[job.worker], job)) = Elems(queue[job.worker]) \cup {job}
    BY <2>1, Appended
  <2>4. queue'[w] = queue[w] \/ (w = job.worker /\ queue'[w] = Append(queue[job.worker], job))
    BY <2>1, <2>2, Typed DEF PoolTypes
  <2>5. Elems(queue'[w]) \subseteq Elems(queue[w]) \cup {job}
    BY <2>3, <2>4
  <2> QED BY <1>3, <2>2, <2>5 DEF JobsOf
<1>4. CASE ReceiveFileJob
  BY <1>4, ReceiveMoves
<1>5. CASE EndInline
  BY <1>5, EndMoves
<1>6. CASE Abort
  BY <1>6, LostMoves
<1>7. ASSUME NEW v \in Workers, Take(v) \/ Complete(v) \/ CompleteUnheard(v)
      PROVE  JobsOf(w)' \subseteq JobsOf(w)
  BY <1>7, TakeMoves, CompleteMoves, LostMoves
<1> QED BY <1>1, <1>2, <1>3, <1>4, <1>5, <1>6, <1>7, JobMoves

\* With a journal every job is limited by the checkpoint threshold,
LEMMA OfferLimited ==
    ASSUME IInv, [Next]_vars, journal, job' # None PROVE Limited(job')
<1>1. ASSUME NEW o \in Objects, FileDispatched(o) PROVE Limited(job')
  <2>1. PICK w \in Workers : job' = [file |-> o, worker |-> w, limit |-> PromoteThreshold]
    BY <1>1 DEF FileDispatched
  <2>2. LargeThreshold \in Nat /\ CheckpointThreshold \in Nat /\ None \notin Nat
    BY SizeAssumption, PoolAssumption
  <2>3. /\ Min({LargeThreshold, CheckpointThreshold}) \in Nat
        /\ Min({LargeThreshold, CheckpointThreshold}) <= CheckpointThreshold
    BY <2>2 DEF Min
  <2>4. PromoteThreshold \in Nat /\ PromoteThreshold <= CheckpointThreshold
    BY <2>2, <2>3 DEF PromoteThreshold
  <2> QED BY <2>1, <2>2, <2>4 DEF Limited
<1>2. ASSUME job' = job PROVE Limited(job')
  BY <1>2 DEF IInv, Journalled, Limited
<1>3. CASE UNCHANGED jobVars
  BY <1>2, <1>3 DEF jobVars
<1>4. ASSUME NEW o \in Objects, FileInline(o) PROVE job' = job
  BY <1>4 DEF FileInline
<1>5. CASE SubmitFileJob
  BY <1>5 DEF SubmitFileJob
<1>6. ASSUME ReceiveFileJob \/ EndInline \/ Abort \/ \E w \in Workers : Take(w) \/ Complete(w) \/ CompleteUnheard(w)
      PROVE  job' = job
  BY <1>6 DEF ReceiveFileJob, EndInline, Abort, Take, Complete, CompleteUnheard, walkVars
<1> QED BY <1>1, <1>2, <1>3, <1>4, <1>5, <1>6, JobMoves

\* so a worker that copies a file copies one that needs no journal.
LEMMA JournalledStep == ASSUME IInv, [Next]_vars PROVE Journalled'
<1>1. journal' => journal
  BY JournalMoves
<1>2. ASSUME journal', NEW w \in Workers, NEW j \in JobsOf(w)' PROVE Limited(j)
  <2>1. \A i \in JobsOf(w) : Limited(i)
    BY <1>1, <1>2 DEF IInv, Journalled
  <2>2. SubmitFileJob => Limited(job)
    <3>1. SubmitFileJob => job # None
      BY Typed DEF SubmitFileJob, WalkTypes
    <3> QED BY <1>1, <1>2, <3>1 DEF IInv, Journalled
  <2> QED BY <2>1, <2>2, JobsMove
<1>3. journal' /\ job' # None => Limited(job')
  BY <1>1, OfferLimited
<1>4. ASSUME NEW f \in Files, by'[f] = "worker", journal' PROVE Largest[f] < CheckpointThreshold
  <2>1. by[f] = "worker" => Largest[f] < CheckpointThreshold
    BY <1>1, <1>4 DEF IInv, Journalled, WorkersNeedNoJournal
  <2>2. by \in [Files -> {"nobody", "worker", "coordinator"}]
    BY Typed DEF BookTypes
  <2>3. ASSUME NEW out, by' = [by EXCEPT ![inline[Len(inline)]] =
                                   IF out = "copied" THEN "coordinator" ELSE @]
        PROVE  by[f] = "worker"
    BY <1>4, <2>2, <2>3
  <2>4. ASSUME NEW w \in Workers, NEW j \in JobsOf(w), NEW out, out = "copied" => ~Promotes(j),
               by' = [by EXCEPT ![j.file] = IF out = "copied" THEN "worker" ELSE @]
        PROVE  Largest[f] < CheckpointThreshold
    <3>1. CASE by[f] = "worker"
      BY <2>1, <3>1
    <3>2. CASE by[f] # "worker"
      <4>1. f = j.file /\ out = "copied"
        BY <1>4, <2>2, <2>4, <3>2
      <4>2. Limited(j)
        BY <1>1, <1>4 DEF IInv, Journalled
      <4>3. j \in Jobs
        BY Typed DEF PoolTypes, JobsOf, Elems
      <4>4. j.limit \in Nat /\ Largest[f] \in Nat /\ CheckpointThreshold \in Nat
        BY <4>2, <4>3, SizeAssumption DEF Limited, Jobs
      <4> QED BY <2>4, <4>1, <4>2, <4>4 DEF Limited, Promotes
    <3> QED BY <3>1, <3>2
  <2>5. by' = by => by[f] = "worker"
    BY <1>4
  <2> QED BY <2>1, <2>3, <2>4, <2>5, ByMoves DEF ByMoved
<1> QED BY <1>2, <1>3, <1>4 DEF Journalled, WorkersNeedNoJournal, Limited, JobsOf, Elems

---------------------------------------------------------------------------
(* One spindle.                                                            *)

\* The coordinator is busy once it has begun.
LEMMA BusyMoves == ASSUME IInv, [Next]_vars PROVE busy' => busy \/ BeginInline
<1>1. CASE BeginInline
  BY <1>1
<1>2. CASE EndInline
  BY <1>2 DEF EndInline
<1>3. CASE UNCHANGED vars
  BY <1>3 DEF vars
<1>4. ASSUME \/ EnterStopped
           \/ EnterFails
           \/ EnterDirectory
           \/ (\E o \in Objects : EntryStopped(o))
           \/ (\E o \in Objects : EntryFails(o))
           \/ (\E o \in Objects : EntryExcluded(o))
           \/ (\E o \in Objects : FileSkipped(o))
           \/ (\E o \in Objects : FileDispatched(o))
           \/ (\E o \in Objects : FileInline(o))
           \/ (\E o \in Objects : ChildDirectory(o))
           \/ (\E o \in Objects : ChildReady(o))
           \/ (\E o \in Objects : ChildFails(o))
           \/ EntriesDone
           \/ ChildrenDone
           \/ ExitTask
           \/ Requeue
           \/ ExitDirectory
           \/ SubmitFileJob
           \/ ReceiveFileJob
           \/ PollCancellation
           \/ WalkDone
           \/ Finalize
           \/ JoinWorkers
           \/ (\E w \in Workers : Take(w))
           \/ (\E w \in Workers : StartBatch(w))
           \/ (\E w \in Workers : Complete(w))
           \/ (\E w \in Workers : CompleteUnheard(w))
           \/ (\E w \in Workers : WorkerQuits(w))
           \/ Abort
           \/ RequestCancel
      PROVE  busy' => busy \/ BeginInline
  BY <1>4
     DEF vars, EnterStopped, EnterFails, EnterDirectory, EntryStopped, EntryFails,
         EntryExcluded, FileSkipped, FileDispatched, FileInline, ChildDirectory, ChildReady,
         ChildFails, EntriesDone, ChildrenDone, ExitTask, Requeue, ExitDirectory, SubmitFileJob,
         ReceiveFileJob, PollCancellation, WalkDone, Finalize, JoinWorkers, Take, StartBatch,
         Complete, CompleteUnheard, WorkerQuits, Abort, RequestCancel, AtEntry
<1> QED BY <1>1, <1>2, <1>3, <1>4 DEF Next, Walk, Work, Ended

\* On one spindle the coordinator and the worker take turns.
LEMMA PhasesStep == ASSUME IInv, [Next]_vars PROVE PhasesApart'
<1>1. SUFFICES ASSUME SameSpindle, busy', NEW w \in Workers
               PROVE  queue'[w] = <<>> /\ batch'[w] = {}
  BY DEF PhasesApart, SameSpindle
<1>2. CASE BeginInline
  <2>1. Live /\ outstanding = 0
    BY <1>1, <1>2, Typed DEF BeginInline, MustDrainFirst, IInv, Control, FlagTypes
  <2>2. Cardinality(Flying) = 0
    BY <2>1 DEF IInv, Counts, Counted
  <2>3. Flying = {}
    <3>1. IsFiniteSet(Flying)
      BY PlacesTyped, TreeAssumption, FS_Subset
    <3> QED BY <2>2, <3>1, FS_EmptySet
  <2>4. Queued(w) = {} /\ Taken(w) = {}
    BY <2>3, PlacesTyped DEF Flying
  <2>5. batch[w] = {}
    BY <2>4 DEF Taken, Names
  <2>6. queue[w] = <<>>
    <3>1. queue[w] \in Seq(Jobs)
      BY Typed DEF PoolTypes
    <3>2. queue[w] # <<>> => Head(queue[w]) \in Elems(queue[w])
      BY <3>1, Headed
    <3> QED BY <2>4, <3>2 DEF Queued, Names
  <2> QED BY <1>2, <2>5, <2>6 DEF BeginInline, poolVars
<1>3. CASE busy
  <2>1. inline # <<>> /\ \A v \in Workers : queue[v] = <<>> /\ batch[v] = {}
    BY <1>1, <1>3 DEF IInv, Control, PhasesApart
  <2>2. ~SubmitFileJob /\ \A v \in Workers : ~Take(v) /\ ~Complete(v)
    BY <2>1 DEF SubmitFileJob, Take, Complete
  <2>3. CASE UNCHANGED jobVars
    BY <2>1, <2>3 DEF jobVars
  <2>4. ASSUME \/ \E o \in Objects : FileDispatched(o) \/ FileInline(o)
               \/ ReceiveFileJob \/ EndInline \/ Abort
        PROVE  UNCHANGED <<queue, batch>>
    BY <2>4 DEF FileDispatched, FileInline, ReceiveFileJob, EndInline, Abort, AtEntry, poolVars
  <2>5. \A v \in Workers : ~CompleteUnheard(v)
    BY <2>1 DEF CompleteUnheard
  <2> QED BY <2>1, <2>2, <2>3, <2>4, <2>5, JobMoves
<1> QED BY <1>1, <1>2, <1>3, BusyMoves

---------------------------------------------------------------------------
(* The invariant, and what it says.                                        *)

\* Types of the books.
LEMMA BookTypesStep == ASSUME IInv, [Next]_vars PROVE BookTypes'
<1>1. seen' \in [Objects -> Nat] /\ settled' \in [Objects -> Seq(Terminal)]
  BY Recorded
<1>2. stamp' \in [Dirs -> {"unset", "clean", "dirty"}]
  <2>1. stamp \in [Dirs -> {"unset", "clean", "dirty"}]
    BY Typed DEF BookTypes
  <2> QED BY <2>1, StampMoves DEF Stamped
<1>3. by' \in [Files -> {"nobody", "worker", "coordinator"}]
  <2>1. by \in [Files -> {"nobody", "worker", "coordinator"}]
    BY Typed DEF BookTypes
  <2> QED BY <2>1, ByMoves DEF ByMoved
<1> QED BY <1>1, <1>2, <1>3 DEF BookTypes

\* The types are kept.
LEMMA TypeStep == ASSUME IInv, [Next]_vars PROVE TypeOK'
<1>1. WalkTypes' /\ PoolTypes' /\ FlagTypes' /\ BookTypes'
  BY WalkTypesStep, PoolTypesStep, FlagTypesStep, BookTypesStep
<1>2. WalkTypes' /\ PoolTypes' /\ FlagTypes' /\ BookTypes' => TypeOK'
  BY DEF TypeOK, WalkTypes, PoolTypes, FlagTypes, BookTypes
<1> QED BY <1>1, <1>2

\* The places at the start.
LEMMA InitPlaces ==
    ASSUME Init
    PROVE  /\ Frontier = {Root} /\ Waiting = {Root} /\ Leaving = {} /\ Started = {} /\ Flying = {}
           /\ Held = {} /\ Live /\ ~InWork
<1>1. tasks = <<Task("Enter", Root)>> /\ Elems(tasks) = {Task("Enter", Root)}
  BY DEF Init, Elems
<1>2. Root \in Dirs
  BY TreeAssumption
<1>3. Waiting = {Root} /\ Leaving = {}
  BY <1>1, <1>2 DEF Waiting, Leaving, Task
<1>4. Live /\ ~InWork /\ kids = {} /\ todo = {}
  BY DEF Init, Live, InWork
<1>5. Flying = {}
  <2>1. Posted = {}
    BY DEF Init, Posted, Elems, Names
  <2>2. \A w \in Workers : Queued(w) = {} /\ Taken(w) = {}
    BY DEF Init, Queued, Taken, Elems, Names
  <2> QED BY <2>1, <2>2 DEF Flying
<1>6. Own = {} /\ Offer = {}
  BY DEF Init, Own, Offer, Elems
<1> QED BY <1>3, <1>4, <1>5, <1>6 DEF Frontier, Started, Held, OpenDirs

\* The ledger at the start: the whole tree is still to be discovered.
LEMMA InitLedger == ASSUME Init PROVE Ledger(seen, settled, {Root}, {})
<1>1. \A o \in Objects : seen[o] = 0 /\ settled[o] = <<>> /\ Len(settled[o]) = 0
  BY DEF Init
<1>2. \A o \in Objects : Resolved(seen, settled, {Root}, o)
  BY RootTerritory DEF Resolved
<1>3. \A o \in Objects : seen[o] <= 1 /\ Len(settled[o]) <= seen[o] /\ seen[o] # 1
  BY <1>1
<1>4. \A o \in Territory(Root) : seen[o] = 0
  BY <1>1, RootTerritory
<1> QED BY <1>2, <1>3, <1>4 DEF Ledger

\* The invariant holds at the start.
LEMMA InitIInv == ASSUME Init PROVE IInv
<1>1. TypeOK
  <2>1. Task("Enter", Root) \in [op : {"Enter", "Exit"}, dir : Dirs]
    BY TreeAssumption DEF Task
  <2>2. tasks \in Seq([op : {"Enter", "Exit"}, dir : Dirs])
    BY <2>1 DEF Init
  <2>3. /\ pc \in Pcs /\ pc \notin {"submit", "offer"}
        /\ cur \in Dirs /\ todo \subseteq Objects /\ kids \subseteq Dirs
        /\ job \in Jobs \cup {None} /\ inline \in Seq(Files) /\ busy \in BOOLEAN
    <3>1. pc = "loop" /\ cur \in Dirs /\ todo = {} /\ kids = {}
      BY TreeAssumption DEF Init
    <3>2. job = None /\ inline = <<>>
      BY DEF Init
    <3>3. busy \in BOOLEAN
      BY Zenon DEF Init
    <3> QED BY <3>1, <3>2, <3>3 DEF Pcs
  <2>4. /\ queue \in [Workers -> Seq(Jobs)] /\ batch \in [Workers -> SUBSET Jobs]
        /\ gathering \in [Workers -> BOOLEAN] /\ alive \in [Workers -> BOOLEAN]
        /\ results \in Seq(Completions)
        /\ outstanding \in Nat /\ dir_outstanding \in [Dirs -> Nat]
    BY DEF Init
  <2>5. /\ {requested, canceled, worker_cancel, breaker, journal, aborted} \subseteq BOOLEAN
        /\ breaker_streak \in Nat /\ exit \in Nat
    BY DEF Init
  <2>6. /\ seen \in [Objects -> Nat] /\ settled \in [Objects -> Seq(Terminal)]
        /\ stamp \in [Dirs -> {"unset", "clean", "dirty"}]
        /\ by \in [Files -> {"nobody", "worker", "coordinator"}]
    BY DEF Init
  <2> QED BY <2>2, <2>3, <2>4, <2>5, <2>6 DEF TypeOK
<1>2. Control
  BY InitPlaces DEF Init, Control
<1>3. OneTask
  <2>1. Once(tasks)
    BY DEF Init, Once
  <2> QED BY <2>1, InitPlaces DEF OneTask, Init
<1>4. OneJob
  <2>1. \A w \in Workers : queue[w] = <<>> /\ batch[w] = {}
    BY DEF Init
  <2>2. results = <<>> /\ inline = <<>> /\ job = None
    BY DEF Init
  <2>3. \A w \in Workers : Queued(w) = {} /\ Taken(w) = {}
    BY <2>1 DEF Queued, Taken, Elems, Names
  <2>4. Own = {} /\ Offer = {} /\ Posted = {}
    BY <2>2 DEF Own, Offer, Posted, Elems, Names
  <2> QED BY <2>1, <2>2, <2>3, <2>4 DEF OneJob, OneEach, Once
<1>5. Counts
  <2>1. Cardinality({}) = 0
    BY FS_EmptySet
  <2>2. \A d \in Dirs : {f \in {} : Parent[f] = d} = {}
    OBVIOUS
  <2>3. outstanding = 0 /\ \A d \in Dirs : dir_outstanding[d] = 0
    BY DEF Init
  <2> QED BY <2>1, <2>2, <2>3, InitPlaces DEF Counts, Counted
<1>6. Books
  BY InitPlaces, InitLedger DEF Books
<1>7. Stops /\ PhasesApart
  BY DEF Init, Stops, PhasesApart
<1>8. Outcomes /\ Stamps
  <2>1. \A o \in Objects : settled[o] = <<>>
    BY DEF Init
  <2>2. \A d \in Dirs : stamp[d] = "unset"
    BY DEF Init
  <2> QED BY <2>1, <2>2, InitPlaces DEF Outcomes, Stamps
<1>9. Journalled
  <2>1. \A w \in Workers : JobsOf(w) = {}
    BY DEF Init, JobsOf, Elems
  <2>2. job = None /\ \A f \in Files : by[f] = "nobody"
    BY DEF Init
  <2> QED BY <2>1, <2>2 DEF Journalled, WorkersNeedNoJournal
<1> QED BY <1>1, <1>2, <1>3, <1>4, <1>5, <1>6, <1>7, <1>8, <1>9 DEF IInv

\* The inductive invariant holds in every state of every run, whatever the
\* tree, the thresholds, the transport and the number of workers.
THEOREM Invariance == Spec => []IInv
<1>1. Init => IInv
  BY InitIInv
<1>2. IInv /\ [Next]_vars => IInv'
  <2> SUFFICES ASSUME IInv, [Next]_vars PROVE IInv'
    OBVIOUS
  <2>1. TypeOK' /\ Control' /\ OneTask' /\ OneJob' /\ Counts'
    BY TypeStep, ControlStep, OneTaskStep, OneJobStep, CountsStep
  <2>2. Books' /\ Stops' /\ Outcomes'
    BY BooksStep, StopsStep, OutcomesStep
  <2>3. Stamps' /\ Journalled' /\ PhasesApart'
    BY StampsStep, JournalledStep, PhasesStep
  <2> QED BY <2>1, <2>2, <2>3 DEF IInv
<1> QED BY <1>1, <1>2, PTL DEF Spec

\* The coordinator's, the workers' and the counters' state keeps its shape.
THEOREM TypeCorrect == Spec => []TypeOK
<1>1. IInv => TypeOK
  BY DEF IInv
<1> QED BY <1>1, Invariance, PTL

\* No object is discovered or settled twice, and a run that ends without being
\* aborted has settled everything it discovered.
THEOREM Accounted == Spec => []AccountedOnce
<1>1. IInv => AccountedOnce
  <2> SUFFICES ASSUME IInv PROVE AccountedOnce
    OBVIOUS
  <2>1. \A o \in Objects : seen[o] <= 1 /\ Len(settled[o]) <= seen[o]
    BY DEF IInv, Books, Ledger, Closed
  <2>2. pc = "ended" /\ ~aborted => \A o \in Objects : Len(settled[o]) = seen[o]
    BY DEF IInv, Books, Live, Closed
  <2> QED BY <2>1, <2>2 DEF AccountedOnce
<1> QED BY <1>1, Invariance, PTL

\* Exit code 0 covers the whole tree, and 3 means that the user asked.
THEOREM ExitEarned == Spec => []ExitIsEarned
<1>1. IInv => ExitIsEarned
  <2> SUFFICES ASSUME IInv PROVE ExitIsEarned
    OBVIOUS
  <2>1. CASE Live
    <3>1. exit = 7
      BY <2>1 DEF IInv, Control
    <3> QED BY <3>1 DEF ExitIsEarned
  <2>2. CASE ~Live
    BY <2>2 DEF IInv, Books, Closed, ExitIsEarned
  <2> QED BY <2>1, <2>2
<1> QED BY <1>1, Invariance, PTL

\* Nothing disturbs a directory after it has been stamped.
THEOREM StampLast == Spec => []StampIsLast
<1>1. IInv => StampIsLast
  BY DEF IInv, Stamps, StampIsLast
<1> QED BY <1>1, Invariance, PTL

\* While the run has a journal, no worker copies a file that could need it.
THEOREM NoJournalNeeded == Spec => []WorkersNeedNoJournal
<1>1. IInv => WorkersNeedNoJournal
  BY DEF IInv, Journalled
<1> QED BY <1>1, Invariance, PTL

\* The counts the coordinator waits on are those of the jobs in flight.
THEOREM CountsExact == Spec => []CountsAreExact
<1>1. IInv => CountsAreExact
  <2> SUFFICES ASSUME IInv, Live PROVE CountsAreExact
    BY DEF CountsAreExact, Live
  <2>1. \A f \in Files : InFlight(f) <=> f \in Flying
    <3>1. ASSUME NEW f \in Files, NEW w \in Workers
          PROVE  /\ f \in Taken(w) <=> \E j \in batch[w] : j.file = f
                 /\ f \in Queued(w) <=> \E i \in DOMAIN queue[w] : queue[w][i].file = f
      BY DEF Taken, Queued, Names, Elems
    <3>2. ASSUME NEW f \in Files
          PROVE  f \in Posted <=> \E i \in DOMAIN results : results[i].file = f
      BY DEF Posted, Names, Elems
    <3> QED BY <3>1, <3>2 DEF InFlight, Flying
  <2>2. {f \in Files : InFlight(f)} = Flying
    BY <2>1, PlacesTyped
  <2>3. ASSUME NEW d \in Dirs
        PROVE  {f \in Files : InFlight(f) /\ Parent[f] = d} = {f \in Flying : Parent[f] = d}
    BY <2>1, PlacesTyped
  <2> QED BY <2>2, <2>3 DEF IInv, Counts, Counted, CountsAreExact
<1> QED BY <1>1, Invariance, PTL

\* On one spindle the coordinator's own copy and the worker's I/O never overlap.
THEOREM Apart == Spec => []PhasesApart
<1>1. IInv => PhasesApart
  BY DEF IInv
<1> QED BY <1>1, Invariance, PTL
=============================================================================
