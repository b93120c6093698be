--------------------------- MODULE StreamsProofs ---------------------------
(***************************************************************************)
(* What copy_file publishes of a large, sparse or many-streamed file, what *)
(* it leaves behind and what a kill costs, proved for every file, every    *)
(* geometry and any number of changes, failures and runs.                  *)
(*                                                                         *)
(* The source's time only grows and every change moves it.  So while the   *)
(* time is the snapshot's, the source is what was enumerated, and what was *)
(* read, hashed, written or recorded so far is a part of that.             *)
(***************************************************************************)
EXTENDS Streams, Induction, SequenceTheorems, TLAPS

-----------------------------------------------------------------------------
(* The inductive invariant.                                                  *)

\* Where copy_file stands: with a temporary of its own, in the loop of a stream,
\* among the segments.
InLoop == {"loop", "move", "append", "persist", "rearm"}
InSegments == {"writers", "writer", "segments"}
Held == InLoop \cup InSegments
          \cup {"read", "base", "basepersist", "named", "flushed", "commit"}
Routed == Held \cup {"resume", "create", "ok"}
Places == Routed \cup {"start", "list", "open", "route", "small", "failed", "killed"}

IsData(d) == d \in [DOMAIN file.data -> Seq(Nat)]

\* The source shows what it showed when it was enumerated.
Fresh == src.mtime = snap.mtime

SourceInv ==
    /\ file \in Files
    /\ st \in Places
    /\ runs \in Nat
    /\ DOMAIN src = {"id", "mtime", "data"}
    /\ src.id \in Nat /\ src.mtime \in Nat /\ IsData(src.data)
    /\ \A n \in DOMAIN src.data : Len(src.data[n]) <= Word
    /\ st # "start" =>
        /\ snap.id \in Nat /\ snap.mtime \in Nat /\ snap.size \in Nat
        /\ snap.mtime <= src.mtime
        /\ Len(src.data[""]) <= snap.size /\ snap.size <= Word
        /\ IsData(enumd) /\ Len(enumd[""]) = snap.size
        /\ Fresh => src.data = enumd

Locals == {"strat", "sizes", "temp", "jr", "fork", "pos", "seg", "next", "hash", "ranges",
           "todo", "plan", "opened", "hp"}

IsCall(c) ==
    /\ DOMAIN c = Locals
    /\ c.jr \in BOOLEAN
    /\ c.fork \in DOMAIN file.data
    /\ c.pos \in Nat /\ c.seg \in Nat /\ c.opened \in Nat /\ c.hp \in Nat
    /\ c.next \in Nat \cup {None}
    /\ c.temp \in Nat \cup {None}
    /\ c.hash \in [DOMAIN c.hash -> Seq(Nat) \cup {None}]
    /\ c.todo \subseteq DOMAIN file.data \ {""}

\* The streams are listed.
Listed == st \in Routed \cup {"route"} \/ (st = "open" /\ file.journal)

CallInv ==
    /\ IsCall(call)
    /\ call.jr => file.journal
    /\ st \in {"open", "list", "route", "resume", "create"} =>
        call.jr = file.journal
    /\ st \in {"start", "open", "list", "route", "resume", "create"} =>
        call.fork = "" /\ call.hp = 0 /\ call.opened = 0 /\ call.temp = None
    /\ Listed =>
        /\ call.sizes \in [DOMAIN file.data -> Nat]
        /\ \A n \in DOMAIN file.data : call.sizes[n] <= Word
        /\ Fresh => \A n \in DOMAIN file.data : call.sizes[n] = Len(enumd[n])
    /\ st \in Routed \cup {"route"} /\ file.journal => call.sizes[""] = snap.size
    /\ st \in Routed =>
        /\ DOMAIN call.hash = DOMAIN file.data
        /\ call.strat \in {"sparse", "segmented", "ordered"}
        /\ call.todo \subseteq Representable(call.sizes)
        /\ call.strat = "sparse" =>
            /\ call.ranges \subseteq (1 .. snap.size) \X (1 .. snap.size)
            /\ Fresh => call.ranges = AllocatedRanges(enumd[""])
    /\ st \in {"resume", "create"} =>
        /\ call.hash[""] \in {<< >>, None}
        /\ call.todo = Representable(call.sizes) \ {""}
    /\ st \in Routed /\ call.hash[""] = None => ~ShouldHash(call.sizes)

IsTemp(r) ==
    /\ DOMAIN r = {"armed", "data"}
    /\ r.armed \in BOOLEAN
    /\ r.data \in [DOMAIN r.data -> Seq(Nat)]
    /\ "" \in DOMAIN r.data
    /\ DOMAIN r.data \subseteq DOMAIN file.data
    /\ ~file.dstStreams => DOMAIN r.data = {""}

\* A journal record is of the version that has its time.
IsRecord(c, n) ==
    /\ c \in Checkpoints
    /\ n \in DOMAIN file.data
    /\ file.journal
    /\ Len(c.digest) = c.mark
    /\ c.mtime <= src.mtime
    /\ c.mtime = src.mtime =>
        c.mark <= Len(src.data[n]) /\ c.digest = Prefix(src.data[n], c.mark)

DiskInv ==
    /\ DOMAIN temps \subseteq Nat
    /\ \A t \in DOMAIN temps : IsTemp(temps[t])
    /\ DOMAIN ckpt = Names
    /\ \A n \in Names : ckpt[n] # None => IsRecord(ckpt[n], n)
    /\ st \in Held => call.temp \in DOMAIN temps

\* The journal's record of the unnamed stream is of this temporary.
Claimed == ckpt[""] # None /\ ckpt[""].temp = call.temp

\* A record of a large named stream is written only when the temporary is claimed.
NamedClaimed ==
    /\ st \in {"named", "flushed"} \/ (st \in InLoop /\ call.fork # "")
    /\ call.jr
    /\ \/ \E n \in call.todo : Size(n) >= CkptThreshold
       \/ st \in InLoop /\ Size(call.fork) >= CkptThreshold
    => Claimed

KeepInv ==
    /\ KeptIsClaimed
    /\ st = "create" => \A t \in DOMAIN temps \ excused : temps[t].armed
    /\ st \in Held => \A t \in DOMAIN temps \ (excused \cup {call.temp}) : temps[t].armed
    /\ st \in Held \ {"rearm", "writer"} => Temp.armed \/ Claimed
    /\ st \in {"persist", "basepersist"} => Claimed
    /\ NamedClaimed

\* The mark a kill falls back to.
Mark(n) == IF ckpt[n] # None /\ ckpt[n].temp = call.temp THEN ckpt[n].mark ELSE 0

CursorInv ==
    /\ st \in InLoop =>
        /\ call.pos <= Size(call.fork)
        /\ call.hash[call.fork] # None => Len(call.hash[call.fork]) = call.pos
        /\ call.next # None =>
            /\ Eligible(call.fork)
            /\ call.hash[call.fork] # None
            /\ call.pos <= call.next
            /\ call.next <= Mark(call.fork) + CheckpointInterval(Size(call.fork))
            /\ st \in {"loop", "rearm"} => call.pos < call.next \/ call.pos <= Mark(call.fork)
    /\ st = "move" =>
        /\ call.pos <= call.seg /\ call.seg <= Size(call.fork)
        /\ call.next # None => call.seg <= call.next
        /\ call.strat = "sparse" /\ call.fork = "" =>
            \/ \E r \in call.ranges : call.pos + 1 .. call.seg \subseteq r[1] .. r[2]
            \/ \A i \in call.pos + 1 .. call.seg : \A r \in call.ranges : i \notin r[1] .. r[2]
    /\ st \in {"append", "persist"} => call.next # None /\ call.next = call.pos
    /\ st = "persist" => Mark(call.fork) = call.pos
    /\ st \in {"base", "basepersist"} => call.jr /\ call.hash[""] # None

\* What the temporary holds of a stream written up to a position.
Written(n, p) ==
    IF n = "" /\ call.strat = "sparse"
    THEN Prefix(enumd[n], p) \o Zeros(snap.size - p)
    ELSE Prefix(enumd[n], p)

\* A stream is as enumerated, and so is its digest.
Exact(n) ==
    /\ n \in DOMAIN Temp.data
    /\ Temp.data[n] = enumd[n]
    /\ call.hash[n] \in {None, enumd[n]}

\* The streams that are not finished.
Pending ==
    call.todo \cup (IF st \in InLoop THEN {call.fork} ELSE {})
              \cup (IF st \in InSegments THEN {""} ELSE {})

DataInv ==
    /\ st \in InLoop =>
        /\ call.fork \in DOMAIN Temp.data
        /\ Fresh => /\ Temp.data[call.fork] = Written(call.fork, call.pos)
                    /\ call.hash[call.fork] \in {None, Prefix(enumd[call.fork], call.pos)}
    /\ st \in Held => call.fork \in Representable(call.sizes)
    /\ st \in Held /\ Fresh =>
        \A n \in Representable(call.sizes) \ Pending : Exact(n)
    /\ st = "commit" =>
        /\ DOMAIN Temp.data = Representable(call.sizes)
        /\ \A n \in DOMAIN Temp.data : Exact(n)
    /\ dest # None => st = "ok" /\ PublishedIsEnumerated

\* The ranges of a plan: adjacent, none empty, from the start to the end.
IsPlan(plan) ==
    /\ plan \in Seq(Nat \X Nat) /\ plan # << >>
    /\ plan[1][1] = 0
    /\ \A k \in DOMAIN plan : plan[k][2] > 0
    /\ \A k \in DOMAIN plan :
        plan[k][1] + plan[k][2] = IF k = Len(plan) THEN snap.size ELSE plan[k + 1][1]

\* What a segment thread has done.
ThreadInv(k) ==
    /\ DOMAIN th[k] = {"at", "pos"}
    /\ th[k].at \in {"open", "copy", "done"}
    /\ th[k].pos \in call.plan[k][1] .. SegmentEnd(k)
    /\ th[k].at = "done" /\ ~firstErr => th[k].pos = SegmentEnd(k)
    /\ th[k].pos > call.plan[k][1] => Len(Temp.data[""]) >= th[k].pos
    /\ Fresh => \A i \in call.plan[k][1] + 1 .. th[k].pos : Temp.data[""][i] = enumd[""][i]

SegmentInv ==
    /\ st \in Routed /\ call.strat = "segmented" =>
        /\ IsPlan(call.plan)
        /\ DOMAIN file.data = {""}
        /\ file.transport \in {"wsl_src", "wsl_dst"}
    /\ st \in InSegments => call.strat = "segmented" /\ Len(Temp.data[""]) <= snap.size
    /\ st \in {"writers", "writer"} =>
        /\ call.opened <= Len(call.plan)
        /\ call.hp = 0 /\ call.hash[""] \in {<< >>, None}
    /\ st = "segments" =>
        /\ DOMAIN th = Threads
        /\ \A k \in Threads : ThreadInv(k)
        /\ stop \in BOOLEAN /\ stop = firstErr
        /\ call.hp <= snap.size
        /\ HashesSource /\ Fresh => call.hash[""] = Prefix(enumd[""], call.hp)

IInv == SourceInv /\ CallInv /\ DiskInv /\ KeepInv /\ CursorInv /\ DataInv /\ SegmentInv

-----------------------------------------------------------------------------
(* Least and greatest of a few numbers.                                      *)

\* The smaller of two, as the code's min and max compute it.
LEMMA MinPair ==
  ASSUME NEW a \in Int, NEW b \in Int
  PROVE  Min({a, b}) = IF a <= b THEN a ELSE b
BY DEF Min

\* The larger of two.
LEMMA MaxPair ==
  ASSUME NEW a \in Int, NEW b \in Int
  PROVE  Max({a, b}) = IF a >= b THEN a ELSE b
BY DEF Max

\* A nonempty set of naturals has a Min.
LEMMA MinOfSet ==
  ASSUME NEW S \in SUBSET Nat, S # {}
  PROVE  Min(S) \in S /\ \A x \in S : Min(S) <= x
<1>1. \E m \in S : \A x \in S : m <= x
  BY LeastNatural
<1> QED BY <1>1 DEF Min

\* The quotient times the divisor does not exceed the dividend, and the next
\* multiple does.
LEMMA Quotient ==
  ASSUME NEW a \in Nat, NEW b \in Nat \ {0}
  PROVE  /\ a \div b \in Nat
         /\ (a \div b) * b <= a /\ a < (a \div b + 1) * b
         /\ (a \div b + 1) * b <= a + b
OBVIOUS

\* The first i numbers of a sequence of naturals.
LEMMA PrefixFacts ==
  ASSUME NEW s \in Seq(Nat), NEW n \in Nat, n <= Len(s)
  PROVE  /\ Prefix(s, n) \in Seq(Nat)
         /\ Len(Prefix(s, n)) = n
         /\ \A i \in 1 .. n : Prefix(s, n)[i] = s[i]
<1>1. \A i \in 1 .. n : s[i] \in Nat
  OBVIOUS
<1> QED BY <1>1, SubSeqProperties DEF Prefix

\* A hole of n units.
LEMMA ZerosFacts ==
  ASSUME NEW n \in Nat
  PROVE  /\ Zeros(n) \in Seq(Nat)
         /\ Len(Zeros(n)) = n
         /\ \A i \in 1 .. n : Zeros(n)[i] = 0
BY DEF Zeros

\* A write keeps what lies outside it and fills a gap with zeros.
LEMMA PutFacts ==
  ASSUME NEW s \in Seq(Nat), NEW v \in Seq(Nat), NEW p \in Nat
  PROVE  /\ Put(s, p, v) \in Seq(Nat)
         /\ Len(Put(s, p, v)) = IF Len(s) >= p + Len(v) THEN Len(s) ELSE p + Len(v)
         /\ \A i \in 1 .. Len(Put(s, p, v)) :
                Put(s, p, v)[i] = IF i \in p + 1 .. p + Len(v) THEN v[i - p]
                                  ELSE IF i <= Len(s) THEN s[i] ELSE 0
<1> DEFINE m == Max({Len(s), p + Len(v)})
<1>1. m = IF Len(s) >= p + Len(v) THEN Len(s) ELSE p + Len(v)
  BY MaxPair
<1>2. m \in Nat
  BY <1>1
<1>3. Put(s, p, v) = [i \in 1 .. m |->
            IF i \in p + 1 .. p + Len(v) THEN v[i - p]
            ELSE IF i <= Len(s) THEN s[i] ELSE 0]
  BY DEF Put
<1> HIDE DEF m
<1>4. \A i \in 1 .. m : (IF i \in p + 1 .. p + Len(v) THEN v[i - p]
            ELSE IF i <= Len(s) THEN s[i] ELSE 0) \in Nat
  BY <1>2
<1> QED BY <1>1, <1>2, <1>3, <1>4

\* What is read of a sequence.
LEMMA ReadFacts ==
  ASSUME NEW s \in Seq(Nat), NEW p \in Nat, NEW k \in Nat, p + k <= Len(s)
  PROVE  LET v == SubSeq(s, p + 1, p + k)
         IN  /\ v \in Seq(Nat)
             /\ Len(v) = k
             /\ \A i \in 1 .. k : v[i] = s[p + i]
<1> DEFINE v == SubSeq(s, p + 1, p + k)
<1>1. \A i \in p + 1 .. p + k : s[i] \in Nat
  OBVIOUS
<1>2. v \in Seq(Nat) /\ Len(v) = (IF p + 1 <= p + k THEN p + k - (p + 1) + 1 ELSE 0)
      /\ \A i \in 1 .. p + k - (p + 1) + 1 : v[i] = s[p + 1 + i - 1]
  BY <1>1, SubSeqProperties
<1> HIDE DEF v
<1>3. Len(v) = k
  BY <1>2
<1>4. ASSUME NEW i \in 1 .. k PROVE v[i] = s[p + i]
  <2>1. p + 1 + i - 1 = p + i /\ i \in 1 .. p + k - (p + 1) + 1
    OBVIOUS
  <2> QED BY <1>2, <2>1
<1> QED BY <1>2, <1>3, <1>4 DEF v

\* A file written up to p, its end of file pinned or not.
Filled(e, p, pinned) == IF pinned THEN Prefix(e, p) \o Zeros(Len(e) - p) ELSE Prefix(e, p)

\* What a temporary holds of a stream written up to p, pinned to its size or not.
LEMMA FilledFacts ==
  ASSUME NEW e \in Seq(Nat), NEW p \in Nat, p <= Len(e), NEW b \in BOOLEAN
  PROVE  /\ Filled(e, p, b) \in Seq(Nat)
         /\ Len(Filled(e, p, b)) = IF b THEN Len(e) ELSE p
         /\ \A i \in 1 .. Len(Filled(e, p, b)) :
                Filled(e, p, b)[i] = IF i <= p THEN e[i] ELSE 0
<1>1. Len(e) - p \in Nat
  OBVIOUS
<1>2. /\ Prefix(e, p) \in Seq(Nat) /\ Len(Prefix(e, p)) = p
      /\ \A i \in 1 .. p : Prefix(e, p)[i] = e[i]
  BY PrefixFacts
<1>3. /\ Zeros(Len(e) - p) \in Seq(Nat) /\ Len(Zeros(Len(e) - p)) = Len(e) - p
      /\ \A i \in 1 .. Len(e) - p : Zeros(Len(e) - p)[i] = 0
  BY <1>1, ZerosFacts
<1>4. CASE ~b
  BY <1>2, <1>4 DEF Filled
<1>5. CASE b
  <2> DEFINE x == Prefix(e, p)
             z == Zeros(Len(e) - p)
  <2> HIDE DEF x, z
  <2>1. /\ x \in Seq(Nat) /\ Len(x) = p /\ \A i \in 1 .. p : x[i] = e[i]
        /\ z \in Seq(Nat) /\ Len(z) = Len(e) - p /\ \A i \in 1 .. Len(e) - p : z[i] = 0
    BY <1>2, <1>3 DEF x, z
  <2>2. /\ x \o z \in Seq(Nat) /\ Len(x \o z) = Len(x) + Len(z)
        /\ \A i \in 1 .. Len(x) + Len(z) :
                (x \o z)[i] = IF i <= Len(x) THEN x[i] ELSE z[i - Len(x)]
    BY <2>1, ConcatProperties
  <2>3. Len(x \o z) = Len(e)
    BY <2>1, <2>2
  <2>4. ASSUME NEW i \in 1 .. Len(x \o z)
        PROVE (x \o z)[i] = IF i <= p THEN e[i] ELSE 0
    <3>1. CASE i <= p
      BY <2>1, <2>2, <2>3, <3>1
    <3>2. CASE ~(i <= p)
      <4>1. i - p \in 1 .. Len(e) - p
        BY <2>3, <3>2
      <4> QED BY <2>1, <2>2, <2>3, <3>2, <4>1
    <3> QED BY <3>1, <3>2
  <2> QED BY <2>2, <2>3, <2>4, <1>5 DEF Filled, x, z
<1> QED BY <1>4, <1>5

\* Writing the next k units of it at p.
LEMMA FilledPut ==
  ASSUME NEW e \in Seq(Nat), NEW p \in Nat, NEW k \in Nat, p + k <= Len(e), NEW b \in BOOLEAN
  PROVE  Put(Filled(e, p, b), p, SubSeq(e, p + 1, p + k)) = Filled(e, p + k, b)
<1> DEFINE s == Filled(e, p, b)
           v == SubSeq(e, p + 1, p + k)
           t == Filled(e, p + k, b)
           u == Put(s, p, v)
<1>0. p <= Len(e) /\ p + k \in Nat
  OBVIOUS
<1>1. /\ s \in Seq(Nat) /\ Len(s) = (IF b THEN Len(e) ELSE p)
      /\ \A i \in 1 .. Len(s) : s[i] = IF i <= p THEN e[i] ELSE 0
  BY <1>0, FilledFacts
<1>2. /\ t \in Seq(Nat) /\ Len(t) = (IF b THEN Len(e) ELSE p + k)
      /\ \A i \in 1 .. Len(t) : t[i] = IF i <= p + k THEN e[i] ELSE 0
  BY <1>0, FilledFacts
<1>3. v \in Seq(Nat) /\ Len(v) = k /\ \A i \in 1 .. k : v[i] = e[p + i]
  BY ReadFacts
<1> HIDE DEF s, v, t
<1>4. /\ u \in Seq(Nat) /\ Len(u) = (IF Len(s) >= p + Len(v) THEN Len(s) ELSE p + Len(v))
      /\ \A i \in 1 .. Len(u) : u[i] = IF i \in p + 1 .. p + Len(v) THEN v[i - p]
                                       ELSE IF i <= Len(s) THEN s[i] ELSE 0
  <2>1. s \in Seq(Nat) /\ v \in Seq(Nat) /\ p \in Nat
    BY <1>1, <1>3
  <2> HIDE <1>1, <1>2, <1>3
  <2> QED BY <2>1, PutFacts, Zenon
<1> HIDE DEF u
<1>5. Len(u) = Len(t)
  BY <1>1, <1>2, <1>3, <1>4
<1>6. ASSUME NEW i \in 1 .. Len(u) PROVE u[i] = t[i]
  <2>1. t[i] = IF i <= p + k THEN e[i] ELSE 0
    BY <1>2, <1>5
  <2>2. CASE i \in p + 1 .. p + k
    <3>1. i - p \in 1 .. k /\ p + (i - p) = i
      BY <2>2
    <3>2. v[i - p] = e[i]
      BY <3>1, <1>3
    <3> QED BY <1>3, <1>4, <2>1, <2>2, <3>2
  <2>3. CASE i \notin p + 1 .. p + k
    BY <1>1, <1>3, <1>4, <2>1, <2>3
  <2> QED BY <2>2, <2>3
<1>7. u = t
  BY <1>2, <1>4, <1>5, <1>6, SeqEqual
<1> QED BY <1>7 DEF u, s, v, t

\* The digest of the next k units after that of the first p.
LEMMA PrefixRead ==
  ASSUME NEW e \in Seq(Nat), NEW p \in Nat, NEW k \in Nat, p + k <= Len(e)
  PROVE  Prefix(e, p) \o SubSeq(e, p + 1, p + k) = Prefix(e, p + k)
<1>1. 1 \in 1 .. Len(e) + 1 /\ p \in 1 - 1 .. Len(e) /\ p + k \in p .. Len(e)
  OBVIOUS
<1> QED BY <1>1, ConcatAdjacentSubSeq DEF Prefix

\* Zeros where the sequence has a hole.
LEMMA HoleRead ==
  ASSUME NEW e \in Seq(Nat), NEW p \in Nat, NEW k \in Nat, p + k <= Len(e),
         \A i \in p + 1 .. p + k : e[i] = 0
  PROVE  SubSeq(e, p + 1, p + k) = Zeros(k)
<1> DEFINE v == SubSeq(e, p + 1, p + k)
           z == Zeros(k)
<1>1. v \in Seq(Nat) /\ Len(v) = k /\ \A i \in 1 .. k : v[i] = e[p + i]
  BY ReadFacts
<1>2. z \in Seq(Nat) /\ Len(z) = k /\ \A i \in 1 .. k : z[i] = 0
  BY ZerosFacts
<1>3. \A i \in 1 .. k : p + i \in p + 1 .. p + k
  OBVIOUS
<1> HIDE DEF v, z
<1>4. \A i \in 1 .. Len(v) : v[i] = z[i]
  BY <1>1, <1>2, <1>3
<1>5. v = z
  BY <1>1, <1>2, <1>4, SeqEqual
<1> QED BY <1>5 DEF v, z

\* A hole needs no write once the end of file is pinned.
LEMMA FilledHole ==
  ASSUME NEW e \in Seq(Nat), NEW p \in Nat, NEW k \in Nat, p + k <= Len(e),
         \A i \in p + 1 .. p + k : e[i] = 0
  PROVE  Filled(e, p, TRUE) = Filled(e, p + k, TRUE)
<1> DEFINE s == Filled(e, p, TRUE)
           t == Filled(e, p + k, TRUE)
<1>0. p <= Len(e) /\ p + k \in Nat /\ TRUE \in BOOLEAN
  OBVIOUS
<1>1. /\ s \in Seq(Nat) /\ Len(s) = Len(e)
      /\ \A i \in 1 .. Len(s) : s[i] = IF i <= p THEN e[i] ELSE 0
  BY <1>0, FilledFacts
<1>2. /\ t \in Seq(Nat) /\ Len(t) = Len(e)
      /\ \A i \in 1 .. Len(t) : t[i] = IF i <= p + k THEN e[i] ELSE 0
  BY <1>0, FilledFacts
<1> HIDE DEF s, t
<1>2a. ASSUME NEW i \in 1 .. Len(s) PROVE s[i] = t[i]
  <2>1. CASE i \in p + 1 .. p + k
    BY <1>1, <1>2, <2>1
  <2>2. CASE i \notin p + 1 .. p + k
    <3>1. (i <= p) <=> (i <= p + k)
      BY <2>2
    <3> QED BY <1>1, <1>2, <3>1
  <2> QED BY <2>1, <2>2
<1>3. s = t
  BY <1>1, <1>2, <1>2a, SeqEqual
<1> QED BY <1>3 DEF s, t

\* Written to the end, it is the stream.
LEMMA FilledWhole ==
  ASSUME NEW e \in Seq(Nat), NEW b \in BOOLEAN
  PROVE  Filled(e, Len(e), b) = e /\ Prefix(e, Len(e)) = e
<1>1. Prefix(e, Len(e)) = e
  BY SubSeqFull DEF Prefix
<1> DEFINE t == Filled(e, Len(e), b)
<1>2. /\ t \in Seq(Nat) /\ Len(t) = Len(e)
      /\ \A i \in 1 .. Len(t) : t[i] = IF i <= Len(e) THEN e[i] ELSE 0
  BY FilledFacts
<1> HIDE DEF t
<1>3. t = e
  BY <1>2, SeqEqual
<1> QED BY <1>1, <1>3 DEF t

\* Before the first write it is empty, or all hole.
LEMMA FilledNothing ==
  ASSUME NEW e \in Seq(Nat)
  PROVE  /\ Filled(e, 0, FALSE) = << >> /\ Prefix(e, 0) = << >>
         /\ Filled(e, 0, TRUE) = Zeros(Len(e))
<1>1. Prefix(e, 0) = << >>
  BY SubSeqEmpty DEF Prefix
<1>2. Zeros(Len(e)) \in Seq(Nat)
  BY ZerosFacts
<1>3. << >> \o Zeros(Len(e)) = Zeros(Len(e))
  BY <1>2, ConcatEmptySeq
<1>4. Len(e) - 0 = Len(e)
  OBVIOUS
<1> QED BY <1>1, <1>3, <1>4 DEF Filled

-----------------------------------------------------------------------------
(* The allocated ranges.                                                     *)

\* A unit outside every allocated range is a hole.
LEMMA OutsideIsHole ==
  ASSUME NEW s \in Seq(Nat), NEW i \in 1 .. Len(s), s[i] # 0
  PROVE  \E r \in AllocatedRanges(s) : i \in r[1] .. r[2]
<1> DEFINE A == {a \in 1 .. i : \A j \in a .. i : s[j] # 0}
           B == {b \in 0 .. Len(s) - i : \A j \in i .. Len(s) - b : s[j] # 0}
<1>1. A \in SUBSET Nat /\ i \in A
  OBVIOUS
<1>2. PICK a \in A : \A x \in A : a <= x
  BY <1>1, LeastNatural
<1>3. B \in SUBSET Nat /\ Len(s) - i \in B
  OBVIOUS
<1>4. PICK b \in B : \A x \in B : b <= x
  BY <1>3, LeastNatural
<1> DEFINE e == Len(s) - b
<1>5. a \in 1 .. Len(s) /\ e \in 1 .. Len(s) /\ a <= i /\ i <= e
  OBVIOUS
<1>6. ASSUME NEW j \in a .. e PROVE s[j] # 0
  BY <1>5
<1>7. a = 1 \/ s[a - 1] = 0
  <2> SUFFICES ASSUME a # 1, s[a - 1] # 0 PROVE FALSE
    OBVIOUS
  <2>1. a - 1 \in 1 .. i
    BY <1>5
  <2>2. \A j \in a - 1 .. i : s[j] # 0
    BY <1>5
  <2>3. a - 1 \in A
    BY <2>1, <2>2
  <2>4. a <= a - 1
    BY <2>3, <1>2
  <2> QED BY <2>4, <1>5
<1>8. e = Len(s) \/ s[e + 1] = 0
  <2> SUFFICES ASSUME b # 0, s[e + 1] # 0 PROVE FALSE
    BY <1>5
  <2>1. b - 1 \in 0 .. Len(s) - i
    OBVIOUS
  <2>2. \A j \in i .. Len(s) - (b - 1) : s[j] # 0
    OBVIOUS
  <2>3. b - 1 \in B
    BY <2>1, <2>2
  <2>4. b <= b - 1
    BY <2>3, <1>4
  <2> QED BY <2>4
<1> DEFINE r == <<a, e>>
<1>9. r \in (1 .. Len(s)) \X (1 .. Len(s)) /\ r[1] = a /\ r[2] = e
  BY <1>5
<1> HIDE DEF A, B, e, r
<1>10. r \in AllocatedRanges(s)
  BY <1>5, <1>6, <1>7, <1>8, <1>9 DEF AllocatedRanges
<1> QED BY <1>5, <1>9, <1>10


-----------------------------------------------------------------------------
(* The locals of the call.                                                   *)

\* The listed sizes.
LEMMA CallSizes ==
  ASSUME NEW c, IsCall(c), NEW x
  PROVE  LET d == [c EXCEPT !.sizes = x]
         IN  /\ IsCall(d)
             /\ d.strat = c.strat /\ d.sizes = x /\ d.temp = c.temp /\ d.jr = c.jr
             /\ d.fork = c.fork /\ d.pos = c.pos /\ d.seg = c.seg /\ d.next = c.next
             /\ d.hash = c.hash /\ d.ranges = c.ranges /\ d.todo = c.todo /\ d.plan = c.plan
             /\ d.opened = c.opened /\ d.hp = c.hp
<1> DEFINE d == [c EXCEPT !.sizes = x]
<1>1. d = [c EXCEPT !.sizes = x]
  OBVIOUS
<1> HIDE DEF d
<1>2. DOMAIN d = Locals
  BY <1>1 DEF IsCall
<1>3. /\ d.strat = c.strat /\ d.sizes = x /\ d.temp = c.temp /\ d.jr = c.jr
      /\ d.fork = c.fork /\ d.pos = c.pos /\ d.seg = c.seg /\ d.next = c.next
      /\ d.hash = c.hash /\ d.ranges = c.ranges /\ d.todo = c.todo /\ d.plan = c.plan
      /\ d.opened = c.opened /\ d.hp = c.hp
  BY <1>1 DEF IsCall, Locals
<1>4. IsCall(d)
  BY <1>2, <1>3 DEF IsCall
<1> QED BY <1>3, <1>4 DEF d

\* The temporary.
LEMMA CallTemp ==
  ASSUME NEW c, IsCall(c), NEW t \in Nat
  PROVE  LET d == [c EXCEPT !.temp = t]
         IN  /\ IsCall(d)
             /\ d.strat = c.strat /\ d.sizes = c.sizes /\ d.temp = t /\ d.jr = c.jr
             /\ d.fork = c.fork /\ d.pos = c.pos /\ d.seg = c.seg /\ d.next = c.next
             /\ d.hash = c.hash /\ d.ranges = c.ranges /\ d.todo = c.todo /\ d.plan = c.plan
             /\ d.opened = c.opened /\ d.hp = c.hp
<1> DEFINE d == [c EXCEPT !.temp = t]
<1>1. d = [c EXCEPT !.temp = t]
  OBVIOUS
<1> HIDE DEF d
<1>2. DOMAIN d = Locals
  BY <1>1 DEF IsCall
<1>3. /\ d.strat = c.strat /\ d.sizes = c.sizes /\ d.temp = t /\ d.jr = c.jr
      /\ d.fork = c.fork /\ d.pos = c.pos /\ d.seg = c.seg /\ d.next = c.next
      /\ d.hash = c.hash /\ d.ranges = c.ranges /\ d.todo = c.todo /\ d.plan = c.plan
      /\ d.opened = c.opened /\ d.hp = c.hp
  BY <1>1 DEF IsCall, Locals
<1>4. IsCall(d)
  BY <1>2, <1>3 DEF IsCall
<1> QED BY <1>3, <1>4 DEF d

\* The next bound.
LEMMA CallSeg ==
  ASSUME NEW c, IsCall(c), NEW x \in Nat
  PROVE  LET d == [c EXCEPT !.seg = x]
         IN  /\ IsCall(d)
             /\ d.strat = c.strat /\ d.sizes = c.sizes /\ d.temp = c.temp /\ d.jr = c.jr
             /\ d.fork = c.fork /\ d.pos = c.pos /\ d.seg = x /\ d.next = c.next
             /\ d.hash = c.hash /\ d.ranges = c.ranges /\ d.todo = c.todo /\ d.plan = c.plan
             /\ d.opened = c.opened /\ d.hp = c.hp
<1> DEFINE d == [c EXCEPT !.seg = x]
<1>1. d = [c EXCEPT !.seg = x]
  OBVIOUS
<1> HIDE DEF d
<1>2. DOMAIN d = Locals
  BY <1>1 DEF IsCall
<1>3. /\ d.strat = c.strat /\ d.sizes = c.sizes /\ d.temp = c.temp /\ d.jr = c.jr
      /\ d.fork = c.fork /\ d.pos = c.pos /\ d.seg = x /\ d.next = c.next
      /\ d.hash = c.hash /\ d.ranges = c.ranges /\ d.todo = c.todo /\ d.plan = c.plan
      /\ d.opened = c.opened /\ d.hp = c.hp
  BY <1>1 DEF IsCall, Locals
<1>4. IsCall(d)
  BY <1>2, <1>3 DEF IsCall
<1> QED BY <1>3, <1>4 DEF d

\* The journal is given up.
LEMMA CallNoJournal ==
  ASSUME NEW c, IsCall(c)
  PROVE  LET d == [c EXCEPT !.jr = FALSE, !.next = None]
         IN  /\ IsCall(d)
             /\ d.strat = c.strat /\ d.sizes = c.sizes /\ d.temp = c.temp /\ d.jr = FALSE
             /\ d.fork = c.fork /\ d.pos = c.pos /\ d.seg = c.seg /\ d.next = None
             /\ d.hash = c.hash /\ d.ranges = c.ranges /\ d.todo = c.todo /\ d.plan = c.plan
             /\ d.opened = c.opened /\ d.hp = c.hp
<1> DEFINE d == [c EXCEPT !.jr = FALSE, !.next = None]
<1>1. d = [c EXCEPT !.jr = FALSE, !.next = None]
  OBVIOUS
<1> HIDE DEF d
<1>2. DOMAIN d = Locals
  BY <1>1 DEF IsCall
<1>3. /\ d.strat = c.strat /\ d.sizes = c.sizes /\ d.temp = c.temp /\ d.jr = FALSE
      /\ d.fork = c.fork /\ d.pos = c.pos /\ d.seg = c.seg /\ d.next = None
      /\ d.hash = c.hash /\ d.ranges = c.ranges /\ d.todo = c.todo /\ d.plan = c.plan
      /\ d.opened = c.opened /\ d.hp = c.hp
  BY <1>1 DEF IsCall, Locals
<1>4. IsCall(d)
  BY <1>2, <1>3 DEF IsCall
<1> QED BY <1>3, <1>4 DEF d

\* The next boundary.
LEMMA CallNext ==
  ASSUME NEW c, IsCall(c), NEW x \in Nat \cup {None}
  PROVE  LET d == [c EXCEPT !.next = x]
         IN  /\ IsCall(d)
             /\ d.strat = c.strat /\ d.sizes = c.sizes /\ d.temp = c.temp /\ d.jr = c.jr
             /\ d.fork = c.fork /\ d.pos = c.pos /\ d.seg = c.seg /\ d.next = x
             /\ d.hash = c.hash /\ d.ranges = c.ranges /\ d.todo = c.todo /\ d.plan = c.plan
             /\ d.opened = c.opened /\ d.hp = c.hp
<1> DEFINE d == [c EXCEPT !.next = x]
<1>1. d = [c EXCEPT !.next = x]
  OBVIOUS
<1> HIDE DEF d
<1>2. DOMAIN d = Locals
  BY <1>1 DEF IsCall
<1>3. /\ d.strat = c.strat /\ d.sizes = c.sizes /\ d.temp = c.temp /\ d.jr = c.jr
      /\ d.fork = c.fork /\ d.pos = c.pos /\ d.seg = c.seg /\ d.next = x
      /\ d.hash = c.hash /\ d.ranges = c.ranges /\ d.todo = c.todo /\ d.plan = c.plan
      /\ d.opened = c.opened /\ d.hp = c.hp
  BY <1>1 DEF IsCall, Locals
<1>4. IsCall(d)
  BY <1>2, <1>3 DEF IsCall
<1> QED BY <1>3, <1>4 DEF d

\* Another segment writer.
LEMMA CallOpened ==
  ASSUME NEW c, IsCall(c), NEW x \in Nat
  PROVE  LET d == [c EXCEPT !.opened = x]
         IN  /\ IsCall(d)
             /\ d.strat = c.strat /\ d.sizes = c.sizes /\ d.temp = c.temp /\ d.jr = c.jr
             /\ d.fork = c.fork /\ d.pos = c.pos /\ d.seg = c.seg /\ d.next = c.next
             /\ d.hash = c.hash /\ d.ranges = c.ranges /\ d.todo = c.todo /\ d.plan = c.plan
             /\ d.opened = x /\ d.hp = c.hp
<1> DEFINE d == [c EXCEPT !.opened = x]
<1>1. d = [c EXCEPT !.opened = x]
  OBVIOUS
<1> HIDE DEF d
<1>2. DOMAIN d = Locals
  BY <1>1 DEF IsCall
<1>3. /\ d.strat = c.strat /\ d.sizes = c.sizes /\ d.temp = c.temp /\ d.jr = c.jr
      /\ d.fork = c.fork /\ d.pos = c.pos /\ d.seg = c.seg /\ d.next = c.next
      /\ d.hash = c.hash /\ d.ranges = c.ranges /\ d.todo = c.todo /\ d.plan = c.plan
      /\ d.opened = x /\ d.hp = c.hp
  BY <1>1 DEF IsCall, Locals
<1>4. IsCall(d)
  BY <1>2, <1>3 DEF IsCall
<1> QED BY <1>3, <1>4 DEF d

-----------------------------------------------------------------------------
(* The temporaries.                                                          *)

\* A temporary with other data in one of its streams.
LEMMA TempData ==
  ASSUME NEW ts, NEW t \in DOMAIN ts, DOMAIN ts[t] = {"armed", "data"},
         NEW n \in DOMAIN ts[t].data, NEW s
  PROVE  LET u == [ts EXCEPT ![t].data[n] = s]
         IN  /\ DOMAIN u = DOMAIN ts
             /\ \A x \in DOMAIN ts \ {t} : u[x] = ts[x]
             /\ DOMAIN u[t] = {"armed", "data"} /\ u[t].armed = ts[t].armed
             /\ u[t].data = [ts[t].data EXCEPT ![n] = s]
<1> DEFINE d == [ts[t].data EXCEPT ![n] = s]
           r == [ts[t] EXCEPT !.data = d]
           u == [ts EXCEPT ![t].data[n] = s]
<1>1. u = [ts EXCEPT ![t] = r]
  OBVIOUS
<1>2. r.armed = ts[t].armed /\ r.data = d /\ DOMAIN r = {"armed", "data"}
  <2> HIDE DEF d
  <2> QED OBVIOUS
<1> HIDE DEF r, u
<1>3. DOMAIN u = DOMAIN ts /\ (\A x \in DOMAIN ts \ {t} : u[x] = ts[x]) /\ u[t] = r
  BY <1>1
<1> QED BY <1>2, <1>3 DEF u

\* A temporary with its disposition set or cleared.
LEMMA TempArmed ==
  ASSUME NEW ts, NEW t \in DOMAIN ts, DOMAIN ts[t] = {"armed", "data"}, NEW b
  PROVE  LET u == [ts EXCEPT ![t].armed = b]
         IN  /\ DOMAIN u = DOMAIN ts
             /\ \A x \in DOMAIN ts \ {t} : u[x] = ts[x]
             /\ DOMAIN u[t] = {"armed", "data"} /\ u[t].armed = b /\ u[t].data = ts[t].data
<1> DEFINE r == [ts[t] EXCEPT !.armed = b]
           u == [ts EXCEPT ![t].armed = b]
<1>1. u = [ts EXCEPT ![t] = r]
  OBVIOUS
<1>2. r.armed = b /\ r.data = ts[t].data /\ DOMAIN r = {"armed", "data"}
  OBVIOUS
<1> HIDE DEF r, u
<1>3. DOMAIN u = DOMAIN ts /\ (\A x \in DOMAIN ts \ {t} : u[x] = ts[x]) /\ u[t] = r
  BY <1>1
<1> QED BY <1>2, <1>3 DEF u

\* A temporary less.
LEMMA TempDropped ==
  ASSUME NEW ts, NEW t
  PROVE  LET u == Restrict(ts, DOMAIN ts \ {t})
         IN  DOMAIN u = DOMAIN ts \ {t} /\ \A x \in DOMAIN u : u[x] = ts[x]
BY DEF Restrict

\* Closing drops the temporary or leaves all of them; one that is left is unarmed.
LEMMA ClosedTemps ==
  ASSUME NEW ts, NEW t
  PROVE  LET u == Closed(ts, t)
         IN  /\ DOMAIN u \subseteq DOMAIN ts
             /\ \A x \in DOMAIN u : u[x] = ts[x]
             /\ DOMAIN ts \ {t} \subseteq DOMAIN u
             /\ t # None /\ t \in DOMAIN u => ~ts[t].armed
BY TempDropped DEF Closed

\* What IsTemp says survives a new value of one stream.
LEMMA TempKept ==
  ASSUME NEW r, IsTemp(r), NEW u, NEW n \in DOMAIN r.data, NEW s \in Seq(Nat),
         DOMAIN u = {"armed", "data"}, u.armed \in BOOLEAN,
         u.data = [r.data EXCEPT ![n] = s]
  PROVE  IsTemp(u)
BY DEF IsTemp

-----------------------------------------------------------------------------
(* What a step leaves alone.                                                 *)

\* What the invariant's parts say of the source depends on these variables only.
LEMMA SourceFrame ==
  ASSUME SourceInv, UNCHANGED <<file, src, snap, enumd, runs>>, st # "start", st' \in Places
  PROVE  SourceInv' /\ (Fresh' <=> Fresh)
BY DEF SourceInv, Fresh, IsData

\* A record stays one while the source stays.
LEMMA RecordFrame ==
  ASSUME UNCHANGED <<file, src>>, NEW c, NEW n
  PROVE  IsRecord(c, n)' <=> IsRecord(c, n)
BY DEF IsRecord

\* So does the journal.
LEMMA CkptFrame ==
  ASSUME DiskInv, UNCHANGED <<file, src, ckpt>>
  PROVE  DOMAIN ckpt' = Names' /\ \A n \in Names' : ckpt'[n] # None => IsRecord(ckpt[n], n)'
BY RecordFrame DEF DiskInv, Names

\* The types of the locals.
LEMMA CallFrame == 
  ASSUME UNCHANGED <<file>>, NEW c, IsCall(c)
  PROVE  IsCall(c)'
BY DEF IsCall

\* What the destination can hold and whether it is hashed depends on the sizes only.
LEMMA SizesFrame ==
  ASSUME UNCHANGED file, NEW s
  PROVE  /\ Representable(s)' = Representable(s)
         /\ CheckpointEligible(s)' = CheckpointEligible(s)
         /\ ShouldHash(s)' = ShouldHash(s)
BY DEF Representable, CheckpointEligible, ShouldHash, Largest

\* The locals stay what they are while copy_file stands where it stands.
LEMMA LocalsFrame ==
  ASSUME CallInv, UNCHANGED <<file, snap, enumd, st, call>>, Fresh' => Fresh
  PROVE  CallInv'
<1>1. IsCall(call)'
  BY CallFrame DEF CallInv
<1>2. Representable(call.sizes)' = Representable(call.sizes)
      /\ ShouldHash(call.sizes)' = ShouldHash(call.sizes)
  BY SizesFrame
<1> QED BY <1>1, <1>2 DEF CallInv, Listed

\* The type of a temporary.
LEMMA TempFrame ==
  ASSUME UNCHANGED file, NEW r, IsTemp(r)
  PROVE  IsTemp(r)'
BY DEF IsTemp

\* copy_file gives up.
LEMMA FailStep ==
  ASSUME IInv, st \notin {"start", "rearm", "writer", "ok", "small", "failed", "killed"},
         Fail("failed"), UNCHANGED <<file, src, snap, enumd, call, ckpt, dest, excused, runs>>
  PROVE  IInv'
<1>1. st' = "failed" /\ temps' = Closed(temps, call.temp)
  BY DEF Fail
<1>2. SourceInv'
  BY <1>1, SourceFrame DEF IInv, Places
<1>3. CallInv'
  BY <1>1, CallFrame DEF IInv, CallInv, Listed, Routed, Held, InLoop, InSegments
<1>4. /\ DOMAIN temps' \subseteq DOMAIN temps
      /\ \A x \in DOMAIN temps' : temps'[x] = temps[x]
      /\ call.temp # None /\ call.temp \in DOMAIN temps' => ~temps[call.temp].armed
  BY <1>1, ClosedTemps
<1>5. DiskInv'
  BY <1>1, <1>4, CkptFrame, TempFrame DEF IInv, DiskInv, Held, InLoop, InSegments
<1>6. KeepInv'
  <2>1. KeptIsClaimed'
    BY <1>1, <1>4 DEF IInv, KeepInv, KeptIsClaimed, Held, InLoop, InSegments, Claimed
  <2> QED BY <1>1, <2>1 DEF KeepInv, NamedClaimed, Held, InLoop, InSegments
<1>7. CursorInv' /\ DataInv' /\ SegmentInv'
  BY <1>1 DEF IInv, CursorInv, DataInv, SegmentInv, Routed, Held, InLoop, InSegments
<1> QED BY <1>2, <1>3, <1>5, <1>6, <1>7 DEF IInv

-----------------------------------------------------------------------------
(* The world around.                                                         *)

\* The definitions the invariant is made of.
LEMMA Untouched ==
  ASSUME IInv, UNCHANGED <<file, src, snap, enumd, st, call, segVars, diskVars, runs>>
  PROVE  IInv'
<1>1. SourceInv'
  BY DEF IInv, SourceInv, Fresh, IsData
<1>2. CallInv'
  BY LocalsFrame DEF IInv, Fresh
<1>3. DiskInv'
  BY CkptFrame, TempFrame DEF IInv, DiskInv, diskVars
<1>4. KeepInv'
  BY DEF IInv, KeepInv, KeptIsClaimed, NamedClaimed, Claimed, Temp, Size, diskVars
<1>5. CursorInv'
  BY DEF IInv, CursorInv, Mark, Size, Eligible, CheckpointInterval, diskVars
<1>6. DataInv'
  BY DEF IInv, DataInv, Fresh, Temp, Written, Exact, Pending, Representable,
         PublishedIsEnumerated, diskVars
<1>7. SegmentInv'
  BY DEF IInv, SegmentInv, Fresh, Temp, IsPlan, Threads, ThreadInv, SegmentEnd, HashesSource,
         diskVars, segVars
<1> QED BY <1>1, <1>2, <1>3, <1>4, <1>5, <1>6, <1>7 DEF IInv

\* The source's name, the cancellation and the end touch nothing the invariant names.
LEMMA QuietStep ==
  ASSUME IInv, SwapSource \/ CancelRun \/ Ended
  PROVE  IInv'
BY Untouched DEF SwapSource, CancelRun, Ended, vars, srcVars

\* The time moves, so that the source no longer is what was enumerated.
LEMMA ChangeStep == ASSUME IInv, ChangeSource PROVE IInv'
<1>0. /\ UNCHANGED <<file, snap, enumd, st, call, segVars, diskVars, runs>>
      /\ st \notin {"start", "ok", "failed", "killed", "small"}
  BY DEF ChangeSource, Running
<1> DEFINE Moved ==
        /\ DOMAIN src' = {"id", "mtime", "data"} /\ src'.id = src.id
        /\ src'.mtime = src.mtime + 1
        /\ src'.data \in [DOMAIN file.data -> Seq(Nat)]
        /\ \A m \in DOMAIN file.data : Len(src'.data[m]) <= Len(src.data[m])
<1>1. Moved
  <2>0. DOMAIN src = {"id", "mtime", "data"} /\ src.mtime \in Nat
        /\ src.data \in [DOMAIN file.data -> Seq(Nat)]
    BY DEF IInv, SourceInv, IsData
  <2>1. ASSUME NEW n \in DOMAIN src.data, NEW i \in DOMAIN src.data[n],
               src' = [src EXCEPT !.mtime = @ + 1, !.data[n][i] = src.mtime + 1]
        PROVE  Moved
    <3> DEFINE s == [src.data[n] EXCEPT ![i] = src.mtime + 1]
               d == [src.data EXCEPT ![n] = s]
    <3>1. s \in Seq(Nat) /\ Len(s) = Len(src.data[n])
      BY <2>0
    <3>2. src' = [src EXCEPT !.mtime = src.mtime + 1, !.data = d]
      BY <2>1
    <3> HIDE DEF s
    <3>3. d \in [DOMAIN file.data -> Seq(Nat)]
          /\ \A m \in DOMAIN file.data : Len(d[m]) <= Len(src.data[m])
      BY <2>0, <3>1
    <3> HIDE DEF d
    <3> QED BY <2>0, <3>2, <3>3
  <2>2. ASSUME NEW n \in DOMAIN src.data, src.data[n] # << >>,
               src' = [src EXCEPT !.mtime = @ + 1, !.data[n] = Front(@)]
        PROVE  Moved
    <3> DEFINE s == Front(src.data[n])
               d == [src.data EXCEPT ![n] = s]
    <3>1. s \in Seq(Nat) /\ Len(s) <= Len(src.data[n])
      <4>1. src.data[n] \in Seq(Nat) /\ Len(src.data[n]) \in Nat /\ Len(src.data[n]) # 0
        BY <2>0, <2>2, EmptySeq
      <4>2. s = Prefix(src.data[n], Len(src.data[n]) - 1)
        BY DEF Front, Prefix
      <4>3. Len(src.data[n]) - 1 \in Nat /\ Len(src.data[n]) - 1 <= Len(src.data[n])
        BY <4>1
      <4> QED BY <4>1, <4>2, <4>3, PrefixFacts
    <3>2. src' = [src EXCEPT !.mtime = src.mtime + 1, !.data = d]
      BY <2>2
    <3> HIDE DEF s
    <3>3. d \in [DOMAIN file.data -> Seq(Nat)]
          /\ \A m \in DOMAIN file.data : Len(d[m]) <= Len(src.data[m])
      BY <2>0, <3>1
    <3> HIDE DEF d
    <3> QED BY <2>0, <3>2, <3>3
  <2> QED BY <2>1, <2>2 DEF ChangeSource
<1>2. SourceInv' /\ ~Fresh'
  <2>1. "" \in DOMAIN file.data
    BY FilesAssumption DEF IInv, SourceInv
  <2>2. src.id \in Nat /\ src.mtime \in Nat /\ snap.mtime \in Nat /\ snap.mtime <= src.mtime
        /\ snap.size \in Nat
        /\ Word \in Nat
    BY <1>0, GeometryAssumption DEF IInv, SourceInv
  <2>3. ~Fresh'
    BY <1>0, <1>1, <2>2 DEF Fresh
  <2>4. PICK d \in [DOMAIN file.data -> Seq(Nat)] : d = src'.data
    BY <1>1
  <2>5. PICK e \in [DOMAIN file.data -> Seq(Nat)] : e = src.data
    BY DEF IInv, SourceInv, IsData
  <2>6. \A m \in DOMAIN file.data : Len(d[m]) \in Nat /\ Len(e[m]) \in Nat /\ Len(d[m]) <= Len(e[m])
    BY <1>1, <2>4, <2>5
  <2>7. (\A m \in DOMAIN file.data : Len(e[m]) <= Word) /\ Len(e[""]) <= snap.size
    BY <1>0, <2>5 DEF IInv, SourceInv
  <2>8. (\A m \in DOMAIN file.data : Len(d[m]) <= Word) /\ Len(d[""]) <= snap.size
    <3>1. ASSUME NEW x \in Nat, NEW y \in Nat, NEW z \in Nat, x <= y, y <= z PROVE x <= z
      BY <3>1
    <3> QED BY <2>1, <2>2, <2>6, <2>7, <3>1
  <2>9. file' = file /\ st' = st /\ runs' = runs /\ snap' = snap /\ enumd' = enumd
    BY <1>0
  <2>10. /\ DOMAIN src' = {"id", "mtime", "data"} /\ src'.id \in Nat /\ src'.mtime \in Nat
         /\ snap.mtime <= src'.mtime
    BY <1>1, <2>2
  <2>11. DOMAIN d = DOMAIN file.data
    OBVIOUS
  <2> HIDE DEF Moved
  <2> QED BY <1>0, <2>9, <2>10, <2>3, <2>4, <2>8, <2>11 DEF IInv, SourceInv, IsData
<1>3. CallInv'
  BY <1>0, <1>2, LocalsFrame DEF IInv
<1>4. DiskInv'
  <2>1. ASSUME NEW n, NEW c, IsRecord(c, n) PROVE IsRecord(c, n)'
    <3>1. c.mtime \in Nat /\ src.mtime \in Nat
      BY <2>1 DEF IsRecord, Checkpoints, IInv, SourceInv
    <3>2. c.mtime <= src'.mtime /\ c.mtime # src'.mtime
      BY <1>1, <2>1, <3>1 DEF IsRecord
    <3> QED BY <1>0, <2>1, <3>2 DEF IsRecord
  <2> QED BY <1>0, <2>1, TempFrame DEF IInv, DiskInv, diskVars, Names
<1>5. KeepInv'
  BY <1>0 DEF IInv, KeepInv, KeptIsClaimed, NamedClaimed, Claimed, Temp, Size, diskVars
<1>6. CursorInv'
  BY <1>0 DEF IInv, CursorInv, Mark, Size, Eligible, CheckpointInterval, diskVars
<1>7. DataInv'
  BY <1>0, <1>2 DEF IInv, DataInv, Temp, Exact, Representable, PublishedIsEnumerated, diskVars
<1>8. SegmentInv'
  BY <1>0, <1>2 DEF IInv, SegmentInv, Temp, IsPlan, Threads, ThreadInv, SegmentEnd,
         HashesSource, diskVars, segVars
<1> QED BY <1>2, <1>3, <1>4, <1>5, <1>6, <1>7, <1>8 DEF IInv

\* A kill closes the handles; what stays is claimed or excused.
LEMMA KillStep == ASSUME IInv, Kill PROVE IInv'
<1>1. /\ st' = "killed" /\ temps' = Closed(temps, call.temp)
      /\ st \notin {"start", "ok", "failed", "killed", "small"}
      /\ UNCHANGED <<file, src, snap, enumd, call, ckpt, dest, runs>>
      /\ excused \subseteq excused'
      /\ st \in {"rearm", "writer"} => call.temp \in excused'
  BY DEF Kill, Running, srcVars
<1>2. SourceInv'
  BY <1>1, SourceFrame DEF IInv, Places
<1>3. CallInv'
  BY <1>1, CallFrame DEF IInv, CallInv, Listed, Routed, Held, InLoop, InSegments
<1>4. /\ DOMAIN temps' \subseteq DOMAIN temps
      /\ \A x \in DOMAIN temps' : temps'[x] = temps[x]
      /\ call.temp # None /\ call.temp \in DOMAIN temps' => ~temps[call.temp].armed
  BY <1>1, ClosedTemps
<1>5. DiskInv'
  BY <1>1, <1>4, CkptFrame, TempFrame DEF IInv, DiskInv, Held, InLoop, InSegments
<1>6. KeepInv'
  <2>1. KeptIsClaimed'
    BY <1>1, <1>4 DEF IInv, KeepInv, KeptIsClaimed, Held, InLoop, InSegments, Claimed
  <2> QED BY <1>1, <2>1 DEF KeepInv, NamedClaimed, Held, InLoop, InSegments
<1>7. CursorInv' /\ DataInv' /\ SegmentInv'
  BY <1>1 DEF IInv, CursorInv, DataInv, SegmentInv, Routed, Held, InLoop, InSegments
<1> QED BY <1>2, <1>3, <1>5, <1>6, <1>7 DEF IInv

\* The temporaries are well formed after a step, whichever state says so.
LEMMA TempsFrame ==
  ASSUME UNCHANGED file, \A x \in DOMAIN temps' : IsTemp(temps'[x])
  PROVE  \A x \in DOMAIN temps' : IsTemp(temps[x])'
BY DEF IsTemp

\* Power loss damages a temporary that a record claims; the record's digest tells.
LEMMA PowerLossStep == ASSUME IInv, PowerLoss PROVE IInv'
<1>1. /\ st' = "killed"
      /\ st \notin {"start", "ok", "failed", "killed", "small"}
      /\ UNCHANGED <<file, src, snap, enumd, call, ckpt, dest, excused, runs>>
      /\ call.temp \in DOMAIN temps /\ Claimed
  BY DEF PowerLoss, Running, srcVars, Candidate, Claimed
<1>2. SourceInv'
  BY <1>1, SourceFrame DEF IInv, Places
<1>3. CallInv'
  BY <1>1, CallFrame DEF IInv, CallInv, Listed, Routed, Held, InLoop, InSegments
<1>4. IsTemp(Temp)
  BY <1>1 DEF IInv, DiskInv, Temp
<1>5. PICK n \in DOMAIN Temp.data : \E i \in DOMAIN Temp.data[n] :
        \E s \in {[Temp.data[n] EXCEPT ![i] = 0], Prefix(Temp.data[n], i - 1)} :
            temps' = [temps EXCEPT ![call.temp].data[n] = s, ![call.temp].armed = FALSE]
  BY DEF PowerLoss
<1>6. PICK i \in DOMAIN Temp.data[n] :
        \E s \in {[Temp.data[n] EXCEPT ![i] = 0], Prefix(Temp.data[n], i - 1)} :
            temps' = [temps EXCEPT ![call.temp].data[n] = s, ![call.temp].armed = FALSE]
  BY <1>5
<1>7. PICK s \in {[Temp.data[n] EXCEPT ![i] = 0], Prefix(Temp.data[n], i - 1)} :
            temps' = [temps EXCEPT ![call.temp].data[n] = s, ![call.temp].armed = FALSE]
  BY <1>6
<1>8. s \in Seq(Nat)
  <2>1. Temp.data[n] \in Seq(Nat)
    BY <1>4 DEF IsTemp
  <2>2. i \in 1 .. Len(Temp.data[n]) /\ i - 1 \in Nat /\ i - 1 <= Len(Temp.data[n])
    BY <2>1
  <2>3. [Temp.data[n] EXCEPT ![i] = 0] \in Seq(Nat)
    BY <2>1, <2>2
  <2>4. Prefix(Temp.data[n], i - 1) \in Seq(Nat)
    BY <2>1, <2>2, PrefixFacts
  <2> QED BY <1>7, <2>3, <2>4
<1> DEFINE mid == [temps EXCEPT ![call.temp].data[n] = s]
<1>9. temps' = [mid EXCEPT ![call.temp].armed = FALSE]
  BY <1>7
<1>10. /\ DOMAIN mid = DOMAIN temps
       /\ \A x \in DOMAIN temps \ {call.temp} : mid[x] = temps[x]
       /\ DOMAIN mid[call.temp] = {"armed", "data"} /\ mid[call.temp].armed = temps[call.temp].armed
       /\ mid[call.temp].data = [temps[call.temp].data EXCEPT ![n] = s]
  BY <1>1, <1>4, TempData DEF IsTemp, Temp
<1> HIDE DEF mid
<1>11. /\ DOMAIN temps' = DOMAIN mid
       /\ \A x \in DOMAIN mid \ {call.temp} : temps'[x] = mid[x]
       /\ DOMAIN temps'[call.temp] = {"armed", "data"} /\ temps'[call.temp].armed = FALSE
       /\ temps'[call.temp].data = mid[call.temp].data
  BY <1>1, <1>9, <1>10, TempArmed
<1>12. IsTemp(temps'[call.temp])
  <2>1. PICK r : r = Temp
    OBVIOUS
  <2>2. PICK u : u = temps'[call.temp]
    OBVIOUS
  <2>3. IsTemp(r) /\ n \in DOMAIN r.data
    BY <1>4, <2>1
  <2>4. DOMAIN u = {"armed", "data"} /\ u.armed \in BOOLEAN /\ u.data = [r.data EXCEPT ![n] = s]
    BY <1>10, <1>11, <2>1, <2>2 DEF Temp
  <2>5. IsTemp(u)
    BY <1>8, <2>3, <2>4, TempKept
  <2> QED BY <2>2, <2>5
<1>13. DiskInv'
  <2>1. DOMAIN temps' = DOMAIN temps /\ \A x \in DOMAIN temps' : IsTemp(temps'[x])
    BY <1>10, <1>11, <1>12 DEF IInv, DiskInv
  <2>2. \A x \in DOMAIN temps' : IsTemp(temps[x])'
    BY <1>1, <2>1, TempsFrame
  <2> QED BY <1>1, <2>1, <2>2, CkptFrame DEF IInv, DiskInv, Held, InLoop, InSegments
<1>14. KeepInv'
  <2>1. KeptIsClaimed'
    BY <1>1, <1>10, <1>11 DEF IInv, KeepInv, KeptIsClaimed, Held, InLoop, InSegments, Claimed
  <2> QED BY <1>1, <2>1 DEF KeepInv, NamedClaimed, Held, InLoop, InSegments
<1>15. CursorInv' /\ DataInv' /\ SegmentInv'
  BY <1>1 DEF IInv, CursorInv, DataInv, SegmentInv, Routed, Held, InLoop, InSegments
<1> QED BY <1>2, <1>3, <1>13, <1>14, <1>15 DEF IInv

\* The locals before copy_file.
LEMMA NoCallTyped ==
  ASSUME file \in Files, NEW b \in BOOLEAN
  PROVE  LET c == [NoCall EXCEPT !.jr = b]
         IN  /\ IsCall(c) /\ IsCall(NoCall)
             /\ c.jr = b /\ c.fork = "" /\ c.hp = 0 /\ c.opened = 0 /\ c.temp = None
             /\ NoCall.jr = FALSE /\ NoCall.fork = "" /\ NoCall.hp = 0 /\ NoCall.opened = 0
             /\ NoCall.temp = None
<1>1. DOMAIN NoCall = Locals
  BY DEF NoCall, Locals
<1>2. /\ NoCall.jr = FALSE /\ NoCall.fork = "" /\ NoCall.hp = 0 /\ NoCall.opened = 0
      /\ NoCall.temp = None /\ NoCall.pos = 0 /\ NoCall.seg = 0 /\ NoCall.next = None
      /\ NoCall.hash = << >> /\ NoCall.todo = {}
  BY DEF NoCall
<1>3. ASSUME NEW h, h = << >> PROVE h \in [DOMAIN h -> Seq(Nat) \cup {None}]
  BY <1>3
<1>3a. "" \in DOMAIN file.data
  BY FilesAssumption
<1>3b. ASSUME NEW c, DOMAIN c = Locals, c.jr \in BOOLEAN, c.fork = "", c.hp = 0, c.opened = 0,
              c.temp = None, c.pos = 0, c.seg = 0, c.next = None, c.hash = << >>, c.todo = {}
       PROVE  IsCall(c)
  <2>1. c.hash \in [DOMAIN c.hash -> Seq(Nat) \cup {None}]
    BY <1>3, <1>3b
  <2>2. c.pos \in Nat /\ c.seg \in Nat /\ c.opened \in Nat /\ c.hp \in Nat
    BY <1>3b, 0 \in Nat, Zenon
  <2> QED BY <1>3a, <1>3b, <2>1, <2>2 DEF IsCall
<1>4. IsCall(NoCall)
  BY <1>1, <1>2, <1>3b
<1> DEFINE c == [NoCall EXCEPT !.jr = b]
<1>5. c = [NoCall EXCEPT !.jr = b]
  OBVIOUS
<1> HIDE DEF c
<1>6. DOMAIN c = Locals /\ c.jr = b /\ c.fork = "" /\ c.hp = 0 /\ c.opened = 0 /\ c.temp = None
      /\ c.pos = 0 /\ c.seg = 0 /\ c.next = None /\ c.hash = << >> /\ c.todo = {}
  BY <1>1, <1>2, <1>5 DEF Locals
<1>7. IsCall(c)
  BY <1>6, <1>3b
<1> QED BY <1>2, <1>4, <1>6, <1>7 DEF c

\* Whatever the name leads to is newer than any record.
LEMMA RerunStep == ASSUME IInv, Rerun PROVE IInv'
<1>1. /\ st' = "start" /\ st \in {"killed", "failed"} /\ runs' = runs + 1
      /\ call' = NoCall
      /\ UNCHANGED <<file, temps, ckpt, dest, excused>>
  BY DEF Rerun, diskVars
<1>2. \/ src' = src
      \/ /\ DOMAIN src' = {"id", "mtime", "data"}
         /\ src'.id = src.id + 1 /\ src'.mtime = src.mtime + 1
         /\ src'.data = [n \in DOMAIN src.data |-> [i \in DOMAIN src.data[n] |-> src.mtime + 1]]
  BY DEF Rerun
<1>3. /\ DOMAIN src = {"id", "mtime", "data"} /\ src.id \in Nat /\ src.mtime \in Nat
      /\ src.data \in [DOMAIN file.data -> Seq(Nat)]
      /\ \A n \in DOMAIN file.data : Len(src.data[n]) <= Word
      /\ runs \in Nat /\ file \in Files
  BY DEF IInv, SourceInv, IsData
<1>4. SourceInv'
  <2>1. CASE src' = src
    BY <1>1, <1>3, <2>1 DEF SourceInv, Places, IsData
  <2>2. CASE src' # src
    <3> DEFINE d == [n \in DOMAIN file.data |-> [i \in DOMAIN src.data[n] |-> src.mtime + 1]]
    <3>1. src'.data = d
      BY <1>2, <1>3, <2>2
    <3>2. ASSUME NEW n \in DOMAIN file.data PROVE d[n] \in Seq(Nat) /\ Len(d[n]) = Len(src.data[n])
      <4>1. src.data[n] \in Seq(Nat) /\ DOMAIN src.data[n] = 1 .. Len(src.data[n])
        BY <1>3
      <4>2. d[n] = [i \in 1 .. Len(src.data[n]) |-> src.mtime + 1]
        BY <4>1
      <4> QED BY <1>3, <4>1, <4>2
    <3> HIDE DEF d
    <3>3. DOMAIN d = DOMAIN file.data
      BY DEF d
    <3>4. d = [n \in DOMAIN file.data |-> d[n]]
      BY DEF d
    <3>5. src'.id \in Nat /\ src'.mtime \in Nat /\ DOMAIN src' = {"id", "mtime", "data"}
      BY <1>2, <1>3, <2>2
    <3>6. \A n \in DOMAIN file.data : Len(d[n]) <= Word
      BY <1>3, <3>2
    <3>7. d \in [DOMAIN file.data -> Seq(Nat)]
      BY <3>2, <3>4
    <3> QED BY <1>1, <1>3, <3>1, <3>3, <3>5, <3>6, <3>7 DEF SourceInv, Places, IsData
  <2> QED BY <2>1, <2>2
<1>5. CallInv'
  <2>1. /\ IsCall(NoCall) /\ NoCall.jr = FALSE /\ NoCall.fork = "" /\ NoCall.hp = 0
        /\ NoCall.opened = 0 /\ NoCall.temp = None
    BY <1>3, NoCallTyped
  <2>2. IsCall(call)'
    BY <1>1, <2>1, CallFrame
  <2> QED BY <1>1, <2>1, <2>2 DEF CallInv, Listed, Routed, Held, InLoop, InSegments
<1>6. DiskInv'
  <2>1. ASSUME NEW n, NEW c, IsRecord(c, n) PROVE IsRecord(c, n)'
    <3>1. CASE src' = src
      BY <1>1, <2>1, <3>1, RecordFrame
    <3>2. CASE src' # src
      <4>1. c.mtime \in Nat
        BY <2>1 DEF IsRecord, Checkpoints
      <4>2. c.mtime <= src'.mtime /\ c.mtime # src'.mtime
        BY <1>2, <1>3, <2>1, <3>2, <4>1 DEF IsRecord
      <4> QED BY <1>1, <2>1, <4>2 DEF IsRecord
    <3> QED BY <3>1, <3>2
  <2> QED BY <1>1, <2>1, TempFrame DEF IInv, DiskInv, Names, Held, InLoop, InSegments
<1>7. KeepInv'
  <2>1. KeptIsClaimed'
    BY <1>1 DEF IInv, KeepInv, KeptIsClaimed
  <2> QED BY <1>1, <2>1 DEF KeepInv, NamedClaimed, Held, InLoop, InSegments
<1>8. CursorInv' /\ DataInv' /\ SegmentInv'
  BY <1>1 DEF IInv, CursorInv, DataInv, SegmentInv, Routed, Held, InLoop, InSegments
<1> QED BY <1>4, <1>5, <1>6, <1>7, <1>8 DEF IInv

\* Initially nothing is copied.
LEMMA InitIInv == ASSUME Init PROVE IInv
<1>1. /\ file \in Files /\ st = "start" /\ runs = 1 /\ call = NoCall
      /\ DOMAIN src = {"id", "mtime", "data"} /\ src.id = 1 /\ src.mtime = 1 /\ src.data = file.data
      /\ temps = << >> /\ ckpt = [n \in Names |-> None] /\ dest = None
  BY DEF Init
<1>2. SourceInv
  <2>1. PICK d : d = file.data
    OBVIOUS
  <2>2. d \in [DOMAIN d -> Seq(Nat)] /\ \A n \in DOMAIN d : Len(d[n]) <= Word
    BY <1>1, <2>1, FilesAssumption
  <2>3. /\ src.data \in [DOMAIN file.data -> Seq(Nat)]
        /\ \A n \in DOMAIN src.data : Len(src.data[n]) <= Word
    BY <1>1, <2>1, <2>2
  <2> QED BY <1>1, <2>3 DEF SourceInv, Places, IsData
<1>3. CallInv
  <2>1. /\ IsCall(NoCall) /\ NoCall.jr = FALSE /\ NoCall.fork = "" /\ NoCall.hp = 0
        /\ NoCall.opened = 0 /\ NoCall.temp = None
    BY <1>1, NoCallTyped
  <2> QED BY <1>1, <2>1 DEF CallInv, Listed, Routed, Held, InLoop, InSegments
<1>4. DOMAIN temps = {}
  BY <1>1
<1>5. DiskInv
  BY <1>1, <1>4 DEF DiskInv, Held, InLoop, InSegments
<1>6. KeepInv
  BY <1>1, <1>4 DEF KeepInv, KeptIsClaimed, NamedClaimed, Held, InLoop, InSegments
<1>7. CursorInv /\ DataInv /\ SegmentInv
  BY <1>1 DEF CursorInv, DataInv, SegmentInv, Routed, Held, InLoop, InSegments
<1> QED BY <1>2, <1>3, <1>5, <1>6, <1>7 DEF IInv


-----------------------------------------------------------------------------
(* Enumeration and routing.                                                  *)

\* The disk and the source stay as they are.
LEMMA DiskSame ==
  ASSUME DiskInv, UNCHANGED <<file, src, temps, ckpt>>, st' \in Held => call'.temp \in DOMAIN temps
  PROVE  DiskInv'
BY CkptFrame, TempFrame DEF DiskInv

\* Every file has an unnamed stream.
LEMMA UnnamedIsNamed == ASSUME SourceInv PROVE "" \in Names /\ "" \in DOMAIN file.data
BY FilesAssumption DEF SourceInv, Names

\* What the source shows, and what enumeration saw of it.
LEMMA SourceFacts ==
  ASSUME SourceInv
  PROVE  /\ src.id \in Nat /\ src.mtime \in Nat
         /\ src.data \in [DOMAIN file.data -> Seq(Nat)] /\ DOMAIN src.data = DOMAIN file.data
         /\ \A n \in DOMAIN file.data : /\ src.data[n] \in Seq(Nat) /\ Len(src.data[n]) \in Nat
                                       /\ Len(src.data[n]) <= Word
<1>1. src.id \in Nat /\ src.mtime \in Nat /\ src.data \in [DOMAIN file.data -> Seq(Nat)]
  BY DEF SourceInv, IsData
<1>2. \A n \in DOMAIN src.data : Len(src.data[n]) <= Word
  BY DEF SourceInv
<1>3. PICK d \in [DOMAIN file.data -> Seq(Nat)] : d = src.data
  BY <1>1
<1>4. /\ DOMAIN d = DOMAIN file.data
      /\ \A n \in DOMAIN file.data : d[n] \in Seq(Nat) /\ Len(d[n]) \in Nat
  OBVIOUS
<1> QED BY <1>1, <1>2, <1>3, <1>4

\* The enumerated version.
LEMMA EnumeratedFacts ==
  ASSUME SourceInv, st # "start"
  PROVE  /\ snap.id \in Nat /\ snap.mtime \in Nat /\ snap.size \in Nat /\ snap.size <= Word
         /\ enumd \in [DOMAIN file.data -> Seq(Nat)] /\ DOMAIN enumd = DOMAIN file.data
         /\ \A n \in DOMAIN file.data : enumd[n] \in Seq(Nat) /\ Len(enumd[n]) \in Nat
         /\ "" \in DOMAIN file.data /\ Len(enumd[""]) = snap.size
         /\ Fresh => src.data = enumd
<1>1. /\ snap.id \in Nat /\ snap.mtime \in Nat /\ snap.size \in Nat /\ snap.size <= Word
      /\ enumd \in [DOMAIN file.data -> Seq(Nat)] /\ Len(enumd[""]) = snap.size
      /\ Fresh => src.data = enumd
  BY DEF SourceInv, IsData
<1>2. PICK d \in [DOMAIN file.data -> Seq(Nat)] : d = enumd
  BY <1>1
<1>3. /\ DOMAIN d = DOMAIN file.data
      /\ \A n \in DOMAIN file.data : d[n] \in Seq(Nat) /\ Len(d[n]) \in Nat
  OBVIOUS
<1> QED BY <1>1, <1>2, <1>3, UnnamedIsNamed

\* Enumeration takes the source as it is.
LEMMA EnumerateStep == ASSUME IInv, Enumerate PROVE IInv'
<1>1. /\ st = "start" /\ st' = (IF file.journal THEN "list" ELSE "open")
      /\ snap' = [id |-> src.id, mtime |-> src.mtime, size |-> Len(src.data[""])]
      /\ enumd' = src.data /\ call' = [NoCall EXCEPT !.jr = file.journal]
      /\ UNCHANGED <<file, src, temps, ckpt, dest, excused, runs>>
  BY DEF Enumerate, srcVars, diskVars
<1>2. file.journal \in BOOLEAN /\ "" \in DOMAIN file.data
  BY FilesAssumption DEF IInv, SourceInv
<1>3. SourceInv'
  <2>1. PICK d \in [DOMAIN file.data -> Seq(Nat)] : d = src.data
    BY DEF IInv, SourceInv, IsData
  <2>2. Len(d[""]) \in Nat /\ Len(d[""]) <= Word
    BY <1>2, <2>1, SourceFacts DEF IInv
  <2>3. snap'.id = src.id /\ snap'.mtime = src.mtime /\ snap'.size = Len(d[""])
    BY <1>1, <2>1
  <2>4. st' \in Places
    BY <1>1 DEF Places
  <2>5. src.mtime \in Nat /\ src.mtime <= src.mtime
    BY SourceFacts DEF IInv
  <2>6. /\ snap'.id \in Nat /\ snap'.mtime \in Nat /\ snap'.size \in Nat
        /\ snap'.mtime <= src'.mtime /\ Len(src'.data[""]) <= snap'.size /\ snap'.size <= Word
        /\ Len(enumd'[""]) = snap'.size /\ (Fresh' => src'.data = enumd')
    <3>1. Len(src'.data[""]) = snap'.size /\ Len(enumd'[""]) = snap'.size
          /\ src'.mtime = snap'.mtime
      BY <1>1, <2>1, <2>3
    <3>2. snap'.id \in Nat /\ snap'.mtime \in Nat /\ snap'.size \in Nat /\ snap'.size <= Word
      BY <2>2, <2>3, SourceFacts DEF IInv
    <3>3. snap'.mtime <= src'.mtime /\ Len(src'.data[""]) <= snap'.size
      <4>1. ASSUME NEW x, NEW y, x = y, x \in Nat PROVE x <= y /\ y <= x
        BY <4>1
      <4>2. snap'.mtime <= src'.mtime
        BY <3>1, <3>2, <4>1, Zenon
      <4>3. Len(src'.data[""]) <= snap'.size
        BY <3>1, <3>2, <4>1, Zenon
      <4> QED BY <4>2, <4>3
    <3>4. src'.data = enumd'
      BY <1>1
    <3> QED BY <3>1, <3>2, <3>3, <3>4
  <2>7. /\ file' \in Files /\ runs' \in Nat /\ DOMAIN src' = {"id", "mtime", "data"}
        /\ src'.id \in Nat /\ src'.mtime \in Nat /\ IsData(src.data)' /\ IsData(enumd)'
        /\ \A n \in DOMAIN src'.data : Len(src'.data[n]) <= Word
    BY <1>1 DEF IInv, SourceInv, IsData
  <2> QED BY <2>4, <2>6, <2>7 DEF SourceInv
<1>4. CallInv'
  <2>1. /\ IsCall(call') /\ call'.jr = file.journal /\ call'.fork = "" /\ call'.hp = 0
        /\ call'.opened = 0 /\ call'.temp = None
    BY <1>1, <1>2, NoCallTyped DEF IInv, SourceInv
  <2>2. IsCall(call)'
    BY <1>1, <2>1 DEF IsCall
  <2> QED BY <1>1, <1>2, <2>1, <2>2 DEF CallInv, Listed, Routed, Held, InLoop, InSegments
<1>5. DiskInv'
  BY <1>1, DiskSame DEF IInv, Held, InLoop, InSegments
<1>6. KeepInv'
  <2>1. KeptIsClaimed'
    BY <1>1 DEF IInv, KeepInv, KeptIsClaimed
  <2> QED BY <1>1, <2>1 DEF KeepInv, NamedClaimed, Held, InLoop, InSegments
<1>7. CursorInv' /\ DataInv' /\ SegmentInv'
  BY <1>1 DEF IInv, CursorInv, DataInv, SegmentInv, Routed, Held, InLoop, InSegments
<1> QED BY <1>3, <1>4, <1>5, <1>6, <1>7 DEF IInv

\* The handle shows the snapshot, or the copy fails.
LEMMA OpenSourceStep == ASSUME IInv, OpenSource PROVE IInv'
<1>0. st = "open" /\ UNCHANGED <<file, src, snap, enumd, call, ckpt, dest, excused, runs>>
  BY DEF OpenSource, srcVars
<1>1. CASE Fail("failed")
  BY <1>0, <1>1, FailStep
<1>2. CASE Unchanged /\ st' = (IF file.journal THEN "route" ELSE "list") /\ UNCHANGED temps
  <2>1. SourceInv' /\ (Fresh' <=> Fresh) /\ Fresh
    BY <1>0, <1>2, SourceFrame DEF IInv, Places, Unchanged, Fresh
  <2>2. "" \in DOMAIN file.data /\ Len(enumd[""]) = snap.size /\ src.data = enumd
        /\ file.journal \in BOOLEAN
    BY <1>0, <2>1, FilesAssumption DEF IInv, SourceInv
  <2>3. CallInv'
    <3>1. IsCall(call)'
      BY <1>0, CallFrame DEF IInv, CallInv
    <3>2. CASE file.journal
      <4>1. Listed
        BY <1>0, <3>2 DEF Listed
      <4>2. call.sizes[""] = snap.size
        BY <2>1, <2>2, <4>1 DEF IInv, CallInv
      <4> QED BY <1>0, <1>2, <2>1, <3>1, <3>2, <4>1, <4>2
              DEF IInv, CallInv, Listed, Routed, Held, InLoop, InSegments
    <3>3. CASE ~file.journal
      BY <1>0, <1>2, <3>1, <3>3 DEF IInv, CallInv, Listed, Routed, Held, InLoop, InSegments
    <3> QED BY <3>2, <3>3
  <2>4. DiskInv'
    BY <1>0, <1>2, DiskSame DEF IInv, Held, InLoop, InSegments
  <2>5. KeepInv'
    <3>1. KeptIsClaimed'
      BY <1>0, <1>2 DEF IInv, KeepInv, KeptIsClaimed
    <3> QED BY <1>0, <1>2, <3>1 DEF KeepInv, NamedClaimed, Held, InLoop, InSegments
  <2>6. CursorInv' /\ DataInv' /\ SegmentInv'
    BY <1>0, <1>2 DEF IInv, CursorInv, DataInv, SegmentInv, Routed, Held, InLoop, InSegments
  <2> QED BY <2>1, <2>3, <2>4, <2>5, <2>6 DEF IInv
<1> QED BY <1>1, <1>2 DEF OpenSource

\* The listing is of the version enumerated, if the time still is.
LEMMA ListStreamsStep == ASSUME IInv, ListStreams PROVE IInv'
<1>0. st = "list" /\ UNCHANGED <<file, src, snap, enumd, ckpt, dest, excused, runs>>
  BY DEF ListStreams, srcVars
<1>1. CASE Fail("failed") /\ UNCHANGED call
  BY <1>0, <1>1, FailStep
<1>2. CASE /\ call' = [call EXCEPT !.sizes = StreamSizes]
           /\ st' = IF file.journal THEN "open" ELSE "route"
           /\ UNCHANGED temps
  <2>1. SourceInv' /\ (Fresh' <=> Fresh)
    BY <1>0, <1>2, SourceFrame DEF IInv, Places
  <2>2. /\ IsCall(call') /\ call'.sizes = StreamSizes
        /\ call'.jr = call.jr /\ call'.fork = call.fork /\ call'.hp = call.hp
        /\ call'.opened = call.opened /\ call'.temp = call.temp
    <3>1. PICK z : z = StreamSizes
      OBVIOUS
    <3>2. call' = [call EXCEPT !.sizes = z] /\ IsCall(call)
      BY <1>2, <3>1 DEF IInv, CallInv
    <3> QED BY <3>1, <3>2, CallSizes
  <2>3. file.journal \in BOOLEAN
    BY FilesAssumption DEF IInv, SourceInv
  <2>4. /\ StreamSizes \in [DOMAIN file.data -> Nat]
        /\ \A n \in DOMAIN file.data : StreamSizes[n] <= Word
        /\ Fresh => \A n \in DOMAIN file.data : StreamSizes[n] = Len(enumd[n])
    <3>1. PICK d \in [DOMAIN file.data -> Seq(Nat)] : d = src.data
      BY DEF IInv, SourceInv, IsData
    <3>2. StreamSizes = [n \in DOMAIN file.data |-> Len(d[n])]
      BY <3>1 DEF StreamSizes
    <3>3. \A n \in DOMAIN file.data : Len(d[n]) \in Nat /\ Len(d[n]) <= Word
      BY <3>1, SourceFacts DEF IInv
    <3>4. Fresh => d = enumd
      BY <1>0, <3>1 DEF IInv, SourceInv
    <3> QED BY <3>2, <3>3, <3>4
  <2>5. CallInv'
    <3>1. IsCall(call)'
      BY <1>0, <2>2 DEF IsCall
    <3> HIDE DEF StreamSizes
    <3> QED BY <1>0, <1>2, <2>1, <2>2, <2>3, <2>4, <3>1
            DEF IInv, CallInv, Listed, Routed, Held, InLoop, InSegments
  <2>6. DiskInv'
    BY <1>0, <1>2, DiskSame DEF IInv, Held, InLoop, InSegments
  <2>7. KeepInv'
    <3>1. KeptIsClaimed'
      BY <1>0, <1>2 DEF IInv, KeepInv, KeptIsClaimed
    <3> QED BY <1>0, <1>2, <3>1 DEF KeepInv, NamedClaimed, Held, InLoop, InSegments
  <2>8. CursorInv' /\ DataInv' /\ SegmentInv'
    BY <1>0, <1>2 DEF IInv, CursorInv, DataInv, SegmentInv, Routed, Held, InLoop, InSegments
  <2> QED BY <2>1, <2>5, <2>6, <2>7, <2>8 DEF IInv
<1> QED BY <1>1, <1>2 DEF ListStreams

\* The ranges of a plan follow one another from the start to the end of the file.
LEMMA PlanFacts ==
  ASSUME NEW sizes, SegmentPlan(snap.size, sizes) # << >>, snap.size \in Nat
  PROVE  /\ IsPlan(SegmentPlan(snap.size, sizes))
         /\ file.transport \in {"wsl_src", "wsl_dst"}
         /\ DOMAIN sizes = {""}
         /\ ~(call.jr /\ ckpt[""] # None)
<1> DEFINE size  == snap.size
           low   == Min({SegMax, size \div SegThreshold})
           count == Max({SegMin, low})
           base  == ((size \div count) \div Chunk) * Chunk
           plan  == [k \in 1 .. count |->
                        <<(k - 1) * base, IF k = count THEN size - (k - 1) * base ELSE base>>]
<1>1. /\ file.transport \in {"wsl_src", "wsl_dst"} /\ DOMAIN sizes = {""}
      /\ ~(call.jr /\ ckpt[""] # None)
      /\ SegmentPlan(snap.size, sizes) = plan /\ base # 0
  BY DEF SegmentPlan
<1>2. /\ {SegMin, SegMax, SegThreshold, Chunk} \subseteq Nat \ {0} /\ size \in Nat
  BY GeometryAssumption
<1>3. count \in Nat \ {0}
  <2>1. SegMin \in Nat \ {0} /\ SegMax \in Nat \ {0} /\ size \div SegThreshold \in Nat
    BY <1>2, Quotient
  <2>2. low \in Nat
    BY <2>1, MinPair
  <2> HIDE DEF low
  <2> QED BY <2>1, <2>2, MaxPair
<1> HIDE DEF count
<1>4. base \in Nat /\ base <= size \div count
  <2>1. size \div count \in Nat /\ Chunk \in Nat \ {0}
    BY <1>2, <1>3, Quotient
  <2> DEFINE q == size \div count
  <2> HIDE DEF q
  <2>2. q \in Nat
    BY <2>1 DEF q
  <2>3. (q \div Chunk) * Chunk \in Nat /\ (q \div Chunk) * Chunk <= q
    <3>1. Chunk \in Nat \ {0} /\ q \div Chunk \in Nat /\ (q \div Chunk) * Chunk <= q
      BY <2>1, <2>2, Quotient
    <3> QED BY <3>1
  <2> QED BY <2>3 DEF q
<1>5. count * base <= size
  <2> DEFINE q == size \div count
  <2>1. q \in Nat /\ q * count <= size
    BY <1>2, <1>3, Quotient
  <2>2. base <= q
    BY <1>4
  <2> HIDE DEF q, base
  <2> QED BY <1>3, <1>4, <2>1, <2>2
<1> HIDE DEF base
<1>6. ASSUME NEW k \in 1 .. count
      PROVE  /\ (k - 1) * base \in Nat /\ (k - 1) * base + base = k * base
             /\ k * base <= count * base
  BY <1>3, <1>4
<1>7. ASSUME NEW k \in 1 .. count
      PROVE  /\ plan[k] = <<(k - 1) * base, IF k = count THEN size - (k - 1) * base ELSE base>>
             /\ plan[k][1] = (k - 1) * base
             /\ plan[k][2] = IF k = count THEN size - (k - 1) * base ELSE base
             /\ plan[k] \in Nat \X Nat /\ plan[k][2] > 0
  <2>1. (k - 1) * base \in Nat /\ (k - 1) * base + base <= size /\ base > 0
    <3>1. k * base \in Nat /\ count * base \in Nat
      BY <1>3, <1>4
    <3>2. k * base <= size /\ base > 0 /\ (k - 1) * base \in Nat /\ (k - 1) * base + base = k * base
      <4>1. k * base <= count * base /\ (k - 1) * base \in Nat /\ (k - 1) * base + base = k * base
        BY <1>6
      <4>2. PICK x \in Nat, y \in Nat : x = k * base /\ y = count * base
        BY <3>1
      <4>3. x <= y /\ y <= size /\ size \in Nat
        BY <1>2, <1>5, <4>1, <4>2
      <4>4. x <= size
        BY <4>3
      <4>5. base > 0
        <5>1. base # 0
          BY <1>1
        <5>2. base \in Nat
          BY <1>4
        <5> QED BY <5>1, <5>2
      <4>6. k * base <= size
        BY <4>2, <4>4, Zenon
      <4> QED BY <4>1, <4>5, <4>6
    <3> QED BY <3>2
  <2> QED BY <1>2, <1>4, <2>1
<1>8. plan \in Seq(Nat \X Nat) /\ Len(plan) = count /\ DOMAIN plan = 1 .. count
  BY <1>3, <1>7
<1> HIDE DEF plan
<1>9. plan[1][1] = 0
  BY <1>3, <1>4, <1>7
<1>10. ASSUME NEW k \in 1 .. count
       PROVE  plan[k][1] + plan[k][2] = IF k = count THEN size ELSE plan[k + 1][1]
  <2>1. CASE k = count
    <3>1. (k - 1) * base \in Nat /\ size \in Nat
      BY <1>2, <1>6
    <3> QED BY <1>7, <2>1, <3>1
  <2>2. CASE k # count
    <3>1. k + 1 \in 1 .. count /\ (k + 1) - 1 = k
      BY <1>3, <2>2
    <3>2. plan[k + 1][1] = k * base
      BY <1>7, <3>1
    <3> QED BY <1>6, <1>7, <2>2, <3>2
  <2> QED BY <2>1, <2>2
<1>11. IsPlan(plan)
  BY <1>3, <1>7, <1>8, <1>9, <1>10 DEF IsPlan
<1> QED BY <1>1, <1>11

-----------------------------------------------------------------------------
(* What a step among the streams leaves alone.                               *)

\* The source, and the locals that routing settled.
LEMMA RoutedCall ==
  ASSUME IInv, st \in Routed, st' \in Held \cup {"ok"},
         UNCHANGED <<file, src, snap, enumd, runs>>,
         IsCall(call'), call'.jr => call.jr, call'.sizes = call.sizes,
         call'.strat = call.strat, call'.ranges = call.ranges,
         DOMAIN call'.hash = DOMAIN call.hash,
         call.hash[""] # None => call'.hash[""] # None,
         call'.todo \subseteq call.todo
  PROVE  /\ SourceInv' /\ (Fresh' <=> Fresh) /\ CallInv'
         /\ Representable(call.sizes)' = Representable(call.sizes)
<1>1. SourceInv' /\ (Fresh' <=> Fresh)
  BY SourceFrame DEF IInv, Places, Routed, Held, InLoop, InSegments
<1>2. IsCall(call)'
  BY DEF IsCall
<1>3. PICK s : s = call.sizes
  OBVIOUS
<1>4. /\ Representable(s)' = Representable(s) /\ ShouldHash(s)' = ShouldHash(s)
  BY SizesFrame
<1>5. /\ Representable(call.sizes)' = Representable(call.sizes)
      /\ ShouldHash(call.sizes)' = ShouldHash(call.sizes)
  <2>1. /\ Representable(call.sizes)' = Representable(s)'
        /\ ShouldHash(call.sizes)' = ShouldHash(s)'
    BY <1>3 DEF Representable, ShouldHash, Largest, CheckpointEligible
  <2> QED BY <1>3, <1>4, <2>1
<1>6. st' \notin {"start", "open", "list", "route", "resume", "create"}
  BY DEF Held, InLoop, InSegments
<1>7. Listed /\ Listed' /\ st' \in Routed
  BY DEF Listed, Routed
<1>8. CallInv'
  <2>1. /\ call'.jr => file'.journal
        /\ call'.sizes \in [DOMAIN file'.data -> Nat]
        /\ \A n \in DOMAIN file'.data : call'.sizes[n] <= Word
        /\ Fresh' => \A n \in DOMAIN file'.data : call'.sizes[n] = Len(enumd'[n])
        /\ file'.journal => call'.sizes[""] = snap'.size
    BY <1>1, <1>7 DEF IInv, CallInv
  <2>2. /\ DOMAIN call'.hash = DOMAIN file'.data
        /\ call'.strat \in {"sparse", "segmented", "ordered"}
        /\ call'.todo \subseteq Representable(call.sizes)'
        /\ call'.strat = "sparse" =>
            /\ call'.ranges \subseteq (1 .. snap'.size) \X (1 .. snap'.size)
            /\ Fresh' => call'.ranges = AllocatedRanges(enumd'[""])
        /\ call'.hash[""] = None => ~ShouldHash(call.sizes)'
    BY <1>1, <1>5 DEF IInv, CallInv
  <2> QED BY <1>2, <1>6, <2>1, <2>2 DEF CallInv
<1> QED BY <1>1, <1>5, <1>8

\* What is on disk.
LEMMA DiskStep ==
  ASSUME UNCHANGED <<file, src>>, DiskInv,
         DOMAIN temps' \subseteq Nat, \A x \in DOMAIN temps' : IsTemp(temps'[x]),
         DOMAIN ckpt' = DOMAIN ckpt,
         \A n \in DOMAIN ckpt : ckpt'[n] # None => IsRecord(ckpt'[n], n),
         st' \in Held => call'.temp \in DOMAIN temps'
  PROVE  DiskInv'
<1>1. Names' = Names
  BY DEF Names
<1>2. \A n \in DOMAIN ckpt : ckpt'[n] # None => IsRecord(ckpt[n], n)'
  BY DEF IsRecord
<1> QED BY <1>1, <1>2, TempsFrame DEF DiskInv

\* Only this temporary changes.
LEMMA HeldDisk ==
  ASSUME IInv, st \in Held, UNCHANGED <<file, src, ckpt>>, call'.temp = call.temp,
         DOMAIN temps' = DOMAIN temps,
         \A x \in DOMAIN temps \ {call.temp} : temps'[x] = temps[x],
         IsTemp(temps'[call.temp])
  PROVE  DiskInv'
<1>1. DiskInv /\ call.temp \in DOMAIN temps
  BY DEF IInv, DiskInv
<1>2. \A x \in DOMAIN temps' : IsTemp(temps'[x])
  BY <1>1 DEF DiskInv
<1>3. DOMAIN temps' \subseteq Nat /\ DOMAIN ckpt' = DOMAIN ckpt
      /\ \A n \in DOMAIN ckpt : ckpt'[n] # None => IsRecord(ckpt'[n], n)
  BY <1>1 DEF DiskInv
<1> QED BY <1>1, <1>2, <1>3, DiskStep

\* Every other temporary is armed, or accounted for.
LEMMA HeldKeep ==
  ASSUME st' \in Held, UNCHANGED excused,
         \A t \in DOMAIN temps' \ (excused \cup {call'.temp}) : temps'[t].armed,
         st' \in Held \ {"rearm", "writer"} => temps'[call'.temp].armed \/ Claimed',
         st' \in {"persist", "basepersist"} => Claimed',
         NamedClaimed'
  PROVE  KeepInv'
<1>1. st' # "create"
  BY DEF Held, InLoop, InSegments
<1>2. KeptIsClaimed'
  BY DEF KeptIsClaimed, Claimed, Held
<1> QED BY <1>1, <1>2 DEF KeepInv, Temp

\* The plan stays while no segment runs.
LEMMA HeldPlan ==
  ASSUME IInv, st \in Routed, st' \in Routed \ InSegments, UNCHANGED <<file, snap>>,
         call'.strat = call.strat, call'.plan = call.plan
  PROVE  SegmentInv'
<1>1. call.strat = "segmented" => IsPlan(call.plan)'
  BY DEF IInv, SegmentInv, IsPlan
<1> QED BY <1>1 DEF IInv, SegmentInv, Routed, Held, InSegments, InLoop

\* The streams beside the current one stay as they are.
LEMMA ExactFrame ==
  ASSUME NEW n, Exact(n), UNCHANGED enumd, call'.temp = call.temp,
         n \in DOMAIN temps'[call.temp].data, temps'[call.temp].data[n] = temps[call.temp].data[n],
         call'.hash[n] = call.hash[n]
  PROVE  Exact(n)'
BY DEF Exact, Temp

-----------------------------------------------------------------------------
(* Checkpoint boundaries.                                                    *)

\* An interval is never empty.
LEMMA IntervalFacts ==
  ASSUME NEW size PROVE CheckpointInterval(size) \in Nat \ {0}
BY GeometryAssumption DEF CheckpointInterval

\* The next boundary lies ahead, at most an interval away, within the stream, and
\* no sum exceeds a u64, whatever the interval (next_checkpoint_after).
THEOREM NextFacts ==
  ASSUME NEW size \in Nat, NEW p \in Nat, p <= size, size <= Word
  PROVE  LET x == NextCheckpointAfter(p, size)
         IN  /\ x \in Nat /\ p <= x /\ x <= size /\ x <= p + CheckpointInterval(size)
             /\ p < size => p < x
<1>1. PICK i \in Nat \ {0} : i = CheckpointInterval(size)
  BY IntervalFacts
<1>2. p \div i \in Nat /\ p < (p \div i + 1) * i /\ (p \div i + 1) * i <= p + i
  BY <1>1, Quotient
<1>3. (p \div i + 1) * i \in Nat
  BY <1>1, <1>2
<1>4. PICK m \in Nat : m = (p \div i + 1) * i
  BY <1>3
<1>5. p < m /\ m <= p + i
  BY <1>2, <1>4
<1>6. Word \in Nat
  BY GeometryAssumption
<1>7. Min({Word, m}) = IF Word <= m THEN Word ELSE m
  BY <1>6, MinPair
<1>8. PICK w \in Nat : w = Min({Word, m})
  BY <1>6, <1>7
<1>9. NextCheckpointAfter(p, size) = IF size <= w THEN size ELSE w
  BY <1>1, <1>4, <1>8, MinPair DEF NextCheckpointAfter
<1> QED BY <1>1, <1>5, <1>6, <1>7, <1>8, <1>9

\* A mark is a position.
LEMMA MarkFacts == ASSUME DiskInv, NEW n \in Names PROVE Mark(n) \in Nat
BY DEF DiskInv, Mark, IsRecord, Checkpoints

-----------------------------------------------------------------------------
(* One temporary is written, armed or disarmed.                              *)

\* A write to one stream of one temporary.
LEMMA TempWritten ==
  ASSUME DiskInv, NEW t \in DOMAIN temps, NEW n \in DOMAIN temps[t].data, NEW s \in Seq(Nat),
         temps' = [temps EXCEPT ![t].data[n] = s]
  PROVE  /\ DOMAIN temps' = DOMAIN temps
         /\ \A x \in DOMAIN temps \ {t} : temps'[x] = temps[x]
         /\ IsTemp(temps'[t]) /\ temps'[t].armed = temps[t].armed
         /\ DOMAIN temps'[t].data = DOMAIN temps[t].data
         /\ temps'[t].data[n] = s
         /\ \A m \in DOMAIN temps[t].data \ {n} : temps'[t].data[m] = temps[t].data[m]
<1>1. PICK ts, us, r, u : ts = temps /\ us = temps' /\ r = ts[t] /\ u = us[t]
  OBVIOUS
<1>2. IsTemp(r) /\ n \in DOMAIN r.data /\ t \in DOMAIN ts
  BY <1>1 DEF DiskInv
<1>3. us = [ts EXCEPT ![t].data[n] = s]
  BY <1>1
<1>4. /\ DOMAIN us = DOMAIN ts
      /\ \A x \in DOMAIN ts \ {t} : us[x] = ts[x]
      /\ DOMAIN us[t] = {"armed", "data"} /\ us[t].armed = ts[t].armed
      /\ us[t].data = [ts[t].data EXCEPT ![n] = s]
  <2>1. DOMAIN ts[t] = {"armed", "data"} /\ n \in DOMAIN ts[t].data
    BY <1>1, <1>2 DEF IsTemp
  <2> HIDE <1>1
  <2> QED BY <1>2, <1>3, <2>1, TempData
<1>5. u.armed \in BOOLEAN /\ u.armed = r.armed /\ DOMAIN u = {"armed", "data"}
      /\ u.data = [r.data EXCEPT ![n] = s]
  BY <1>1, <1>2, <1>4 DEF IsTemp
<1>6. IsTemp(u)
  BY <1>2, <1>5, TempKept
<1>7. DOMAIN u.data = DOMAIN r.data /\ u.data[n] = s
      /\ \A m \in DOMAIN r.data \ {n} : u.data[m] = r.data[m]
  BY <1>2, <1>5
<1> QED BY <1>1, <1>4, <1>5, <1>6, <1>7

\* A disposition changed.
LEMMA TempRearmed ==
  ASSUME DiskInv, NEW t \in DOMAIN temps, NEW b \in BOOLEAN,
         temps' = [temps EXCEPT ![t].armed = b]
  PROVE  /\ DOMAIN temps' = DOMAIN temps
         /\ \A x \in DOMAIN temps \ {t} : temps'[x] = temps[x]
         /\ IsTemp(temps'[t]) /\ temps'[t].armed = b
         /\ temps'[t].data = temps[t].data
<1>1. PICK ts, us, r, u : ts = temps /\ us = temps' /\ r = ts[t] /\ u = us[t]
  OBVIOUS
<1>2. IsTemp(r) /\ t \in DOMAIN ts
  BY <1>1 DEF DiskInv
<1>3. us = [ts EXCEPT ![t].armed = b]
  BY <1>1
<1>4. /\ DOMAIN us = DOMAIN ts
      /\ \A x \in DOMAIN ts \ {t} : us[x] = ts[x]
      /\ DOMAIN us[t] = {"armed", "data"} /\ us[t].armed = b /\ us[t].data = ts[t].data
  <2>1. DOMAIN ts[t] = {"armed", "data"}
    BY <1>1, <1>2 DEF IsTemp
  <2> HIDE <1>1
  <2> QED BY <1>2, <1>3, <2>1, TempArmed
<1>5. IsTemp(u)
  BY <1>1, <1>2, <1>4 DEF IsTemp
<1> QED BY <1>1, <1>4, <1>5

\* The sizes the streams were listed with.
LEMMA SizeFacts ==
  ASSUME IInv, st \in Routed, NEW n \in DOMAIN file.data
  PROVE  Size(n) \in Nat /\ Size(n) <= Word /\ (Fresh => Size(n) = Len(enumd[n]))
<1>1. CASE n = ""
  <2>1. st # "start"
    BY DEF Routed, Held, InLoop, InSegments
  <2> QED BY <1>1, <2>1, EnumeratedFacts DEF IInv, Size
<1>2. CASE n # ""
  <2>1. Listed
    BY DEF Listed
  <2> QED BY <1>2, <2>1 DEF IInv, CallInv, Size
<1> QED BY <1>1, <1>2

\* A stream begins, with its cursor.
LEMMA Started ==
  ASSUME NEW c, IsCall(c), NEW n \in DOMAIN file.data, n \in DOMAIN c.hash, NEW p \in Nat,
         NEW h \in Seq(Nat) \cup {None},
         Size(n) \in Nat, p <= Size(n), Size(n) <= Word, NEW d, d = StartStream(c, n, p, h)
  PROVE  /\ IsCall(d)
         /\ d.strat = c.strat /\ d.sizes = c.sizes /\ d.temp = c.temp /\ d.jr = c.jr
         /\ d.fork = n /\ d.pos = p /\ d.seg = p
         /\ DOMAIN d.hash = DOMAIN c.hash /\ d.hash[n] = h
         /\ \A m \in DOMAIN c.hash \ {n} : d.hash[m] = c.hash[m]
         /\ d.ranges = c.ranges /\ d.todo = c.todo
         /\ d.plan = c.plan /\ d.opened = c.opened /\ d.hp = c.hp
         /\ d.next # None =>
                /\ c.jr /\ Size(n) >= CkptThreshold
                /\ d.next \in Nat /\ p <= d.next
                /\ d.next <= p + CheckpointInterval(Size(n))
                /\ p < Size(n) => p < d.next
<1> DEFINE x == IF c.jr /\ Size(n) >= CkptThreshold
                THEN NextCheckpointAfter(p, Size(n)) ELSE None
<1>1. x # None => /\ c.jr /\ Size(n) >= CkptThreshold
                  /\ x \in Nat /\ p <= x
                  /\ x <= p + CheckpointInterval(Size(n))
                  /\ p < Size(n) => p < x
  <2>1. PICK s \in Nat : s = Size(n)
    OBVIOUS
  <2> DEFINE y == NextCheckpointAfter(p, s)
  <2>2. y \in Nat /\ p <= y /\ y <= p + CheckpointInterval(s) /\ (p < s => p < y)
    BY <2>1, NextFacts
  <2> QED BY <2>1, <2>2
<1>2. x \in Nat \cup {None}
  BY <1>1
<1>3. StartStream(c, n, p, h)
        = [c EXCEPT !.fork = n, !.pos = p, !.seg = p, !.hash[n] = h, !.next = x]
  BY DEF StartStream
<1>4. PICK y : y = x
  OBVIOUS
<1>5. d = [c EXCEPT !.fork = n, !.pos = p, !.seg = p, !.hash[n] = h, !.next = y]
  BY <1>3, <1>4
<1> HIDE DEF x
<1>6. y \in Nat \cup {None}
  BY <1>2, <1>4
<1>7. /\ IsCall(d)
      /\ d.strat = c.strat /\ d.sizes = c.sizes /\ d.temp = c.temp /\ d.jr = c.jr
      /\ d.fork = n /\ d.pos = p /\ d.seg = p /\ d.next = y
      /\ d.hash = [c.hash EXCEPT ![n] = h] /\ d.ranges = c.ranges /\ d.todo = c.todo
      /\ d.plan = c.plan /\ d.opened = c.opened /\ d.hp = c.hp
  <2>1. DOMAIN d = Locals
    BY <1>5 DEF IsCall
  <2>2. /\ d.strat = c.strat /\ d.sizes = c.sizes /\ d.temp = c.temp /\ d.jr = c.jr
        /\ d.fork = n /\ d.pos = p /\ d.seg = p /\ d.next = y
        /\ d.hash = [c.hash EXCEPT ![n] = h] /\ d.ranges = c.ranges /\ d.todo = c.todo
        /\ d.plan = c.plan /\ d.opened = c.opened /\ d.hp = c.hp
    BY <1>5 DEF IsCall, Locals
  <2>3. d.hash \in [DOMAIN d.hash -> Seq(Nat) \cup {None}]
    <3>1. PICK f, g : f = c.hash /\ g = d.hash
      OBVIOUS
    <3>2. f \in [DOMAIN f -> Seq(Nat) \cup {None}] /\ g = [f EXCEPT ![n] = h]
      BY <2>2, <3>1 DEF IsCall
    <3>3. g \in [DOMAIN g -> Seq(Nat) \cup {None}]
      BY <3>2
    <3> QED BY <3>1, <3>3
  <2>4. d.pos \in Nat /\ d.seg \in Nat /\ d.opened \in Nat /\ d.hp \in Nat
    BY <2>2 DEF IsCall
  <2>5. IsCall(d)
    BY <1>6, <2>1, <2>2, <2>3, <2>4 DEF IsCall
  <2> QED BY <2>2, <2>5
<1>8. DOMAIN d.hash = DOMAIN c.hash /\ d.hash[n] = h
      /\ \A m \in DOMAIN c.hash \ {n} : d.hash[m] = c.hash[m]
  BY <1>7
<1> QED BY <1>1, <1>4, <1>7, <1>8

-----------------------------------------------------------------------------
(* The route.                                                                *)

\* Routing: the strategy, the ranges and the plan fit the sizes.
LEMMA RouteStep == ASSUME IInv, Route PROVE IInv'
<1>0. st = "route" /\ UNCHANGED <<file, src, snap, enumd, ckpt, dest, excused, runs>>
  BY DEF Route, srcVars
<1>1. CASE Fail("failed") /\ UNCHANGED call
  BY <1>0, <1>1, FailStep
<1> DEFINE sizes == call.sizes
           plan  == SegmentPlan(snap.size, sizes)
           strat == Strategy(sizes, plan)
           todo  == IF file.dstStreams THEN DOMAIN sizes \ {""} ELSE {}
           hash  == [n \in DOMAIN sizes |-> IF n = "" /\ ShouldHash(sizes) THEN << >> ELSE None]
           rngs  == IF strat = "sparse" THEN AllocatedRanges(src.data[""]) ELSE {}
<1>2. CASE /\ call' = [call EXCEPT !.plan = plan, !.strat = strat, !.todo = todo,
                                   !.hash = hash, !.ranges = rngs]
           /\ st' = CASE strat = "small" -> "small"
                      [] strat = "segmented" -> "create"
                      [] OTHER -> "resume"
           /\ UNCHANGED temps
  <2>1. SourceInv' /\ (Fresh' <=> Fresh)
    <3>1. st' \in Places
      BY <1>2 DEF Places, Routed
    <3> QED BY <1>0, <3>1, SourceFrame DEF IInv
  <2>2. /\ sizes \in [DOMAIN file.data -> Nat] /\ DOMAIN sizes = DOMAIN file.data
        /\ "" \in DOMAIN file.data
        /\ call.jr = file.journal /\ call.fork = "" /\ call.hp = 0 /\ call.opened = 0
        /\ call.temp = None /\ IsCall(call)
    <3>1. Listed
      BY <1>0 DEF Listed
    <3>2. sizes \in [DOMAIN file.data -> Nat]
      BY <3>1 DEF IInv, CallInv
    <3>3. DOMAIN sizes = DOMAIN file.data
      BY <3>2
    <3> QED BY <1>0, <3>2, <3>3, UnnamedIsNamed DEF IInv, CallInv
  <2>3. strat \in {"sparse", "small", "segmented", "ordered"}
        /\ (strat = "segmented" => plan # << >>)
    BY DEF Strategy
  <2>4. /\ todo \in SUBSET (DOMAIN file.data \ {""})
        /\ todo = Representable(sizes) \ {""} /\ "" \in Representable(sizes)
    BY <2>2 DEF Representable
  <2>5. /\ DOMAIN hash = DOMAIN file.data
        /\ hash \in [DOMAIN hash -> Seq(Nat) \cup {None}]
        /\ hash[""] \in {<< >>, None}
        /\ hash[""] = None => ~ShouldHash(sizes)
    <3>1. PICK e : e = << >>
      OBVIOUS
    <3>2. e \in Seq(Nat)
      BY <3>1
    <3>3. e # None
      BY <3>2, FilesAssumption
    <3>4. hash = [n \in DOMAIN file.data |-> IF n = "" /\ ShouldHash(sizes) THEN e ELSE None]
      BY <2>2, <3>1
    <3> QED BY <2>2, <3>1, <3>2, <3>3, <3>4
  <2>6. strat = "sparse" =>
            /\ rngs \subseteq (1 .. snap.size) \X (1 .. snap.size)
            /\ Fresh => rngs = AllocatedRanges(enumd[""])
    <3>1. src.data[""] \in Seq(Nat) /\ Len(src.data[""]) \in Nat
          /\ snap.size \in Nat /\ Len(src.data[""]) <= snap.size
          /\ (Fresh => src.data = enumd)
      BY <1>0, <2>2, SourceFacts, EnumeratedFacts DEF IInv, SourceInv
    <3>2. AllocatedRanges(src.data[""])
             \subseteq (1 .. Len(src.data[""])) \X (1 .. Len(src.data[""]))
      BY DEF AllocatedRanges
    <3>3. 1 .. Len(src.data[""]) \subseteq 1 .. snap.size
      <4>1. PICK x \in Nat, y \in Nat : x = Len(src.data[""]) /\ y = snap.size
        BY <3>1
      <4>2. x <= y
        BY <3>1, <4>1
      <4>3. 1 .. x \subseteq 1 .. y
        BY <4>2
      <4> QED BY <4>1, <4>3
    <3> QED BY <3>1, <3>2, <3>3
  <2>7. plan # << >> =>
            /\ IsPlan(plan) /\ file.transport \in {"wsl_src", "wsl_dst"}
            /\ DOMAIN sizes = {""} /\ ~(call.jr /\ ckpt[""] # None)
    BY <1>0, PlanFacts, EnumeratedFacts DEF IInv
  <2> HIDE DEF plan, strat, todo, hash, rngs
  <2>8. /\ IsCall(call') /\ call'.strat = strat /\ call'.sizes = sizes /\ call'.temp = call.temp
        /\ call'.jr = call.jr /\ call'.fork = call.fork /\ call'.hash = hash
        /\ call'.ranges = rngs /\ call'.todo = todo /\ call'.plan = plan
        /\ call'.opened = call.opened /\ call'.hp = call.hp
    <3>1. PICK p, s, t, h, r : p = plan /\ s = strat /\ t = todo /\ h = hash /\ r = rngs
      OBVIOUS
    <3>2. call' = [call EXCEPT !.plan = p, !.strat = s, !.todo = t, !.hash = h, !.ranges = r]
      BY <1>2, <3>1
    <3>3. t \in SUBSET (DOMAIN file.data \ {""}) /\ h \in [DOMAIN h -> Seq(Nat) \cup {None}]
      BY <2>4, <2>5, <3>1
    <3>4. /\ IsCall(call') /\ call'.strat = s /\ call'.sizes = call.sizes /\ call'.temp = call.temp
          /\ call'.jr = call.jr /\ call'.fork = call.fork /\ call'.hash = h
          /\ call'.ranges = r /\ call'.todo = t /\ call'.plan = p
          /\ call'.opened = call.opened /\ call'.hp = call.hp
      <4>1. DOMAIN call' = Locals
        BY <2>2, <3>2 DEF IsCall
      <4>2. /\ call'.strat = s /\ call'.sizes = call.sizes /\ call'.temp = call.temp
            /\ call'.jr = call.jr /\ call'.fork = call.fork /\ call'.hash = h
            /\ call'.ranges = r /\ call'.todo = t /\ call'.plan = p
            /\ call'.opened = call.opened /\ call'.hp = call.hp
            /\ call'.pos = call.pos /\ call'.seg = call.seg /\ call'.next = call.next
        BY <2>2, <3>2 DEF IsCall, Locals
      <4>3. IsCall(call')
        BY <2>2, <3>3, <4>1, <4>2 DEF IsCall
      <4> QED BY <4>2, <4>3
    <3> QED BY <3>1, <3>4
  <2>9. /\ st' \in {"small", "create", "resume"}
        /\ st' = "create" => strat = "segmented"
        /\ st' \in Routed => strat # "small"
    BY <1>2 DEF Routed, Held, InLoop, InSegments
  <2>10. CallInv'
    <3>1. IsCall(call)'
      BY <1>0, <2>8 DEF IsCall
    <3>2. PICK s : s = sizes
      OBVIOUS
    <3>3. /\ Representable(s)' = Representable(s) /\ ShouldHash(s)' = ShouldHash(s)
      BY <1>0, SizesFrame
    <3>4. /\ Representable(call.sizes)' = Representable(sizes)
          /\ ShouldHash(call.sizes)' = ShouldHash(sizes)
      <4>1. /\ Representable(call.sizes)' = Representable(s)'
            /\ ShouldHash(call.sizes)' = ShouldHash(s)'
        BY <2>8, <3>2 DEF Representable, ShouldHash, Largest, CheckpointEligible
      <4> QED BY <3>2, <3>3, <4>1
    <3>5. /\ call'.sizes \in [DOMAIN file'.data -> Nat]
          /\ \A n \in DOMAIN file'.data : call'.sizes[n] <= Word
          /\ Fresh' => \A n \in DOMAIN file'.data : call'.sizes[n] = Len(enumd'[n])
          /\ file'.journal => call'.sizes[""] = snap'.size
      BY <1>0, <2>1, <2>2, <2>8 DEF IInv, CallInv, Listed
    <3>6. st' \in Routed =>
        /\ DOMAIN call'.hash = DOMAIN file'.data
        /\ call'.strat \in {"sparse", "segmented", "ordered"}
        /\ call'.todo \subseteq Representable(call.sizes)'
        /\ call'.strat = "sparse" =>
            /\ call'.ranges \subseteq (1 .. snap'.size) \X (1 .. snap'.size)
            /\ Fresh' => call'.ranges = AllocatedRanges(enumd'[""])
      BY <1>0, <2>1, <2>3, <2>4, <2>5, <2>6, <2>8, <2>9, <3>4
    <3>7. /\ call'.hash[""] \in {<< >>, None}
          /\ call'.todo = Representable(call.sizes)' \ {""}
          /\ call'.hash[""] = None => ~ShouldHash(call.sizes)'
      BY <2>4, <2>5, <2>8, <3>4
    <3>8. /\ call'.jr = file'.journal /\ call'.fork = "" /\ call'.hp = 0 /\ call'.opened = 0
          /\ call'.temp = None
      BY <1>0, <2>2, <2>8
    <3> QED BY <3>1, <3>5, <3>6, <3>7, <3>8 DEF CallInv
  <2>11. DiskInv'
    BY <1>0, <1>2, <2>9, DiskSame DEF IInv, Held, InLoop, InSegments
  <2>12. KeepInv'
    <3>1. KeptIsClaimed'
      BY <1>0, <1>2 DEF IInv, KeepInv, KeptIsClaimed
    <3>2. st' = "create" => \A t \in DOMAIN temps \ excused : temps[t].armed
      <4>1. ckpt[""] # None => file.journal
        BY UnnamedIsNamed DEF IInv, DiskInv, IsRecord
      <4> QED BY <1>0, <2>2, <2>3, <2>7, <2>9, <4>1 DEF IInv, KeepInv, KeptIsClaimed
    <3> QED BY <1>0, <1>2, <2>9, <3>1, <3>2 DEF KeepInv, NamedClaimed, Held, InLoop, InSegments
  <2>13. CursorInv' /\ DataInv'
    BY <1>0, <2>9 DEF IInv, CursorInv, DataInv, Held, InLoop, InSegments
  <2>14. SegmentInv'
    <3>1. IsPlan(plan) => IsPlan(call.plan)'
      BY <1>0, <2>8 DEF IsPlan
    <3> QED BY <1>0, <2>2, <2>3, <2>7, <2>8, <2>9, <3>1 DEF SegmentInv, InLoop, InSegments
  <2> QED BY <2>1, <2>10, <2>11, <2>12, <2>13, <2>14 DEF IInv
<1> QED BY <1>1, <1>2 DEF Route

-----------------------------------------------------------------------------
(* The temporary is resumed or created.                                      *)

\* A cursor starts at a mark, or at the beginning.
LEMMA CursorStarts ==
  ASSUME UNCHANGED <<file, snap, ckpt>>, call'.sizes = call.sizes,
         st' \in {"loop", "rearm"}, NEW n, NEW p \in Nat,
         call'.fork = n, call'.pos = p, Size(n) \in Nat, p <= Size(n),
         call'.hash[n] # None => Len(call'.hash[n]) = p,
         call'.next # None => /\ call'.jr /\ Size(n) >= CkptThreshold
                              /\ call'.hash[n] # None
                              /\ call'.next \in Nat /\ p <= call'.next
                              /\ call'.next <= p + CheckpointInterval(Size(n)),
         Mark(n)' \in Nat, p <= Mark(n)'
  PROVE  CursorInv'
<1>1. Size(n)' = Size(n) /\ CheckpointInterval(Size(n))' = CheckpointInterval(Size(n))
  BY DEF Size, CheckpointInterval
<1>2. PICK i \in Nat : i = CheckpointInterval(Size(n))
  BY IntervalFacts
<1>3. PICK m \in Nat : m = Mark(n)'
  OBVIOUS
<1>4. call'.next # None => call'.next <= m + i
  BY <1>2, <1>3
<1>5. call'.next # None => Eligible(n)'
  BY <1>1 DEF Eligible, Size
<1> QED BY <1>1, <1>2, <1>3, <1>4, <1>5 DEF CursorInv, InLoop

\* A resumed prefix is what its digest says, and the record of this source's time.
LEMMA ResumeUnnamedStep == ASSUME IInv, ResumeUnnamed PROVE IInv'
<1> DEFINE c == ckpt[""]
           old == temps[c.temp].data[""]
           kept == Prefix(old, c.mark)
<1>0. st = "resume" /\ UNCHANGED <<file, src, snap, enumd, segVars, ckpt, dest, runs>>
  BY DEF ResumeUnnamed, srcVars
<1>1. /\ call.jr = file.journal /\ call.fork = "" /\ call.hp = 0 /\ call.opened = 0
      /\ call.temp = None /\ IsCall(call)
      /\ call.hash[""] \in {<< >>, None} /\ call.todo = Representable(call.sizes) \ {""}
  BY <1>0 DEF IInv, CallInv
<1>2. st \in Routed /\ "" \in Names /\ "" \in DOMAIN file.data
  BY <1>0, UnnamedIsNamed DEF IInv, Routed
\* It gives up the recorded temporary, or finds none.
<1>3. ASSUME st' = "create", UNCHANGED call, DOMAIN temps' \subseteq DOMAIN temps,
             \A x \in DOMAIN temps' : temps'[x] = temps[x], excused \subseteq excused',
             \A t \in DOMAIN temps' \ excused' : temps'[t].armed
      PROVE  IInv'
  <2>1. SourceInv' /\ (Fresh' <=> Fresh)
    BY <1>0, <1>3, SourceFrame DEF IInv, Places, Routed
  <2>2. CallInv'
    <3>1. IsCall(call)'
      BY <1>0, <1>1, <1>3, CallFrame
    <3>2. Representable(call.sizes)' = Representable(call.sizes)
          /\ ShouldHash(call.sizes)' = ShouldHash(call.sizes)
      BY <1>0, <1>3, SizesFrame
    <3>3. Listed /\ Listed' /\ st' \in Routed
      BY <1>2, <1>3 DEF Listed, Routed
    <3> QED BY <1>0, <1>1, <1>2, <1>3, <2>1, <3>1, <3>2, <3>3 DEF IInv, CallInv
  <2>3. DiskInv'
    <3>1. DOMAIN temps' \subseteq Nat /\ \A x \in DOMAIN temps' : IsTemp(temps'[x])
      BY <1>3 DEF IInv, DiskInv
    <3>2. \A n \in DOMAIN ckpt : ckpt'[n] # None => IsRecord(ckpt'[n], n)
      BY <1>0 DEF IInv, DiskInv
    <3> QED BY <1>0, <1>3, <3>1, <3>2, DiskStep DEF IInv, Held, InLoop, InSegments
  <2>4. KeepInv'
    BY <1>3 DEF KeepInv, KeptIsClaimed, NamedClaimed, Held, InLoop, InSegments
  <2>5. CursorInv' /\ DataInv'
    BY <1>0, <1>3 DEF IInv, CursorInv, DataInv, Held, InLoop, InSegments
  <2>6. SegmentInv'
    BY <1>0, <1>2, <1>3, HeldPlan DEF Routed, InSegments
  <2> QED BY <2>1, <2>2, <2>3, <2>4, <2>5, <2>6 DEF IInv
<1>4. \A t \in DOMAIN temps \ excused : ~temps[t].armed => Candidate /\ c.temp = t
  <2>1. c # None => file.journal
    BY <1>2 DEF IInv, DiskInv, IsRecord
  <2> QED BY <1>0, <1>1, <2>1 DEF IInv, KeepInv, KeptIsClaimed, Candidate
<1>5. CASE ~Candidate /\ st' = "create" /\ UNCHANGED <<call, temps, excused>>
  BY <1>3, <1>4, <1>5
<1>6. CASE st' = "create" /\ excused' = excused \union {c.temp} /\ UNCHANGED <<call, temps>>
  BY <1>3, <1>4, <1>6
<1>7. CASE /\ st' = "create" /\ temps' = Restrict(temps, DOMAIN temps \ {c.temp})
           /\ UNCHANGED <<call, excused>>
  <2>1. DOMAIN temps' = DOMAIN temps \ {c.temp} /\ \A x \in DOMAIN temps' : temps'[x] = temps[x]
    BY <1>7, TempDropped
  <2> QED BY <1>3, <1>4, <1>7, <2>1
<1>8. CASE st' = "failed" /\ UNCHANGED <<call, temps, excused>>
  <2>1. Fail("failed")
    BY <1>1, <1>8 DEF Fail, Closed
  <2> QED BY <1>0, <1>8, <2>1, FailStep
<1>9. CASE /\ Candidate
           /\ SourceMatches(c, "") /\ Len(old) >= c.mark /\ kept = c.digest
           /\ temps' = [temps EXCEPT ![c.temp].data[""] =
                    IF call.strat = "sparse"
                    THEN kept \o Zeros(snap.size - c.mark) ELSE kept]
           /\ call' = StartStream([call EXCEPT !.temp = c.temp], "", c.mark, c.digest)
           /\ st' = "loop"
           /\ UNCHANGED excused
  <2>1. /\ IsRecord(c, "") /\ c # None /\ c.temp \in DOMAIN temps /\ call.jr
        /\ c.mtime = snap.mtime /\ c.mark <= Size("") /\ c.mark <= Len(old)
    BY <1>2, <1>9 DEF IInv, DiskInv, Candidate, SourceMatches
  <2>2. /\ c.mark \in Nat /\ c.digest \in Seq(Nat) /\ Len(c.digest) = c.mark /\ c.temp \in Nat
    BY <2>1 DEF IsRecord, Checkpoints
  <2>3. Size("") = snap.size /\ snap.size \in Nat /\ snap.size <= Word /\ c.mark <= snap.size
    BY <1>0, <2>1, EnumeratedFacts DEF IInv, Size
  <2> DEFINE s == IF call.strat = "sparse" THEN kept \o Zeros(snap.size - c.mark) ELSE kept
  <2>4. s \in Seq(Nat)
    <3>1. snap.size - c.mark \in Nat
      <4>1. PICK x \in Nat, y \in Nat : x = snap.size /\ y = c.mark
        BY <2>2, <2>3
      <4>2. y <= x
        BY <2>3, <4>1
      <4>3. x - y \in Nat
        BY <4>2
      <4> QED BY <4>1, <4>3
    <3>2. kept \in Seq(Nat) /\ Zeros(snap.size - c.mark) \in Seq(Nat)
      BY <1>9, <2>2, <3>1, ZerosFacts
    <3> QED BY <3>2, ConcatProperties
  <2>5. "" \in DOMAIN temps[c.temp].data
    BY <2>1 DEF IInv, DiskInv, IsTemp
  <2>6. /\ DOMAIN temps' = DOMAIN temps
        /\ \A x \in DOMAIN temps \ {c.temp} : temps'[x] = temps[x]
        /\ IsTemp(temps'[c.temp]) /\ temps'[c.temp].armed = temps[c.temp].armed
        /\ DOMAIN temps'[c.temp].data = DOMAIN temps[c.temp].data
        /\ temps'[c.temp].data[""] = s
    <3>1. PICK t \in DOMAIN temps, z \in Seq(Nat) : t = c.temp /\ z = s
      BY <2>1, <2>4
    <3>2. temps' = [temps EXCEPT ![t].data[""] = z] /\ "" \in DOMAIN temps[t].data /\ DiskInv
      BY <1>9, <2>5, <3>1 DEF IInv
    <3>3. /\ DOMAIN temps' = DOMAIN temps
          /\ \A x \in DOMAIN temps \ {t} : temps'[x] = temps[x]
          /\ IsTemp(temps'[t]) /\ temps'[t].armed = temps[t].armed
          /\ DOMAIN temps'[t].data = DOMAIN temps[t].data
          /\ temps'[t].data[""] = z
      BY <3>2, TempWritten, ZenonT(30)
    <3> QED BY <3>1, <3>3
  <2> DEFINE d == [call EXCEPT !.temp = c.temp]
  <2>7. /\ IsCall(d)
        /\ d.strat = call.strat /\ d.sizes = call.sizes /\ d.temp = c.temp /\ d.jr = call.jr
        /\ d.hash = call.hash /\ d.ranges = call.ranges /\ d.todo = call.todo
        /\ d.plan = call.plan /\ d.opened = call.opened /\ d.hp = call.hp
    <3>1. PICK t \in Nat, k \in {call} : t = c.temp
      BY <2>2
    <3>2. IsCall(k) /\ k = call
      BY <1>1
    <3> DEFINE e == [k EXCEPT !.temp = t]
    <3>3. /\ IsCall(e)
          /\ e.strat = k.strat /\ e.sizes = k.sizes /\ e.temp = t /\ e.jr = k.jr
          /\ e.hash = k.hash /\ e.ranges = k.ranges /\ e.todo = k.todo
          /\ e.plan = k.plan /\ e.opened = k.opened /\ e.hp = k.hp
      BY <3>2, CallTemp
    <3>4. d = e
      BY <3>1, <3>2
    <3> HIDE DEF d, e
    <3> QED BY <3>1, <3>2, <3>3, <3>4
  <2>8. "" \in DOMAIN call.hash
    BY <1>2 DEF IInv, CallInv
  <2> HIDE DEF d
  <2>9. /\ IsCall(call')
        /\ call'.strat = call.strat /\ call'.sizes = call.sizes /\ call'.temp = c.temp
        /\ call'.jr = call.jr /\ call'.fork = "" /\ call'.pos = c.mark
        /\ DOMAIN call'.hash = DOMAIN call.hash /\ call'.hash[""] = c.digest
        /\ call'.ranges = call.ranges /\ call'.todo = call.todo
        /\ call'.plan = call.plan /\ call'.opened = call.opened /\ call'.hp = call.hp
        /\ call'.next # None =>
               /\ call.jr /\ Size("") >= CkptThreshold
               /\ call'.next \in Nat /\ c.mark <= call'.next
               /\ call'.next <= c.mark + CheckpointInterval(Size(""))
    <3>1. PICK p \in Nat, h \in Seq(Nat) \cup {None} : p = c.mark /\ h = c.digest
      BY <2>2
    <3>2. PICK n \in DOMAIN file.data : n = ""
      BY <1>2
    <3>3. PICK e : e = d
      OBVIOUS
    <3>4. PICK f : f = call'
      OBVIOUS
    <3>5. f = StartStream(e, n, p, h) /\ IsCall(e) /\ n \in DOMAIN e.hash
      BY <1>9, <2>7, <2>8, <3>1, <3>2, <3>3, <3>4 DEF d
    <3>6. Size(n) \in Nat /\ p <= Size(n) /\ Size(n) <= Word
      BY <2>3, <3>1, <3>2
    <3>7. /\ IsCall(f)
          /\ f.strat = e.strat /\ f.sizes = e.sizes /\ f.temp = e.temp /\ f.jr = e.jr
          /\ f.fork = n /\ f.pos = p /\ f.seg = p
          /\ DOMAIN f.hash = DOMAIN e.hash /\ f.hash[n] = h
          /\ \A m \in DOMAIN e.hash \ {n} : f.hash[m] = e.hash[m]
          /\ f.ranges = e.ranges /\ f.todo = e.todo
          /\ f.plan = e.plan /\ f.opened = e.opened /\ f.hp = e.hp
          /\ f.next # None =>
                 /\ e.jr /\ Size(n) >= CkptThreshold
                 /\ f.next \in Nat /\ p <= f.next
                 /\ f.next <= p + CheckpointInterval(Size(n))
                 /\ p < Size(n) => p < f.next
      BY <3>5, <3>6, Started
    <3> QED BY <2>7, <3>1, <3>2, <3>3, <3>4, <3>7
  <2>10. c.digest # None
    BY <2>2, FilesAssumption
  <2>11. call'.hash[""] = c.digest /\ DOMAIN call'.hash = DOMAIN call.hash
    BY <2>8, <2>9
  <2>12. st' \in Held /\ st' \in InLoop
    BY <1>9 DEF Held, InLoop
  <2>13. /\ SourceInv' /\ (Fresh' <=> Fresh) /\ CallInv'
         /\ Representable(call.sizes)' = Representable(call.sizes)
    BY <1>0, <1>2, <2>9, <2>10, <2>11, <2>12, RoutedCall
  <2>14. DiskInv'
    <3>1. DOMAIN temps' \subseteq Nat /\ \A x \in DOMAIN temps' : IsTemp(temps'[x])
      BY <2>6 DEF IInv, DiskInv
    <3>2. \A n \in DOMAIN ckpt : ckpt'[n] # None => IsRecord(ckpt'[n], n)
      BY <1>0 DEF IInv, DiskInv
    <3> QED BY <1>0, <2>1, <2>6, <2>9, <3>1, <3>2, DiskStep DEF IInv
  <2>15. KeepInv'
    <3>1. \A t \in DOMAIN temps' \ (excused \cup {call'.temp}) : temps'[t].armed
      BY <1>4, <2>6, <2>9
    <3>2. Claimed'
      BY <1>0, <2>1, <2>9 DEF Claimed
    <3>3. NamedClaimed'
      BY <1>9, <2>9 DEF NamedClaimed
    <3> QED BY <1>9, <2>12, <3>1, <3>2, <3>3, HeldKeep
  <2>16. CursorInv'
    <3>1. Mark("")' = c.mark
      BY <1>0, <2>1, <2>9 DEF Mark
    <3>2. PICK p \in Nat : p = c.mark
      BY <2>2
    <3>3. PICK n : n = ""
      OBVIOUS
    <3>4. /\ UNCHANGED <<file, snap, ckpt>> /\ call'.sizes = call.sizes
          /\ st' \in {"loop", "rearm"} /\ call'.fork = n /\ call'.pos = p
          /\ Size(n) \in Nat /\ p <= Size(n)
      BY <1>0, <1>9, <2>3, <2>9, <3>2, <3>3
    <3>5. /\ call'.hash[n] # None => Len(call'.hash[n]) = p
          /\ call'.next # None => /\ call'.jr /\ Size(n) >= CkptThreshold
                                 /\ call'.hash[n] # None
                                 /\ call'.next \in Nat /\ p <= call'.next
                                 /\ call'.next <= p + CheckpointInterval(Size(n))
      BY <2>2, <2>9, <2>10, <3>2, <3>3
    <3>6. Mark(n)' \in Nat /\ p <= Mark(n)'
      <4>1. Mark(n)' = Mark("")'
        BY <3>3 DEF Mark
      <4>2. Mark(n)' = p
        BY <3>1, <3>2, <4>1, Zenon
      <4>3. p \in Nat /\ p <= p
        OBVIOUS
      <4> QED BY <4>2, <4>3, Zenon
    <3> HIDE <3>1, <3>2, <3>3
    <3> QED BY <3>4, <3>5, <3>6, CursorStarts
  <2>17. DataInv'
    <3>1. Fresh => c.digest = Prefix(enumd[""], c.mark)
      <4>1. Fresh => src.mtime = c.mtime /\ src.data = enumd
        BY <1>0, <2>1, EnumeratedFacts DEF IInv, Fresh
      <4> QED BY <2>1, <4>1 DEF IsRecord
    <3>2. Fresh => s = Written("", c.mark)'
      BY <1>0, <1>9, <2>9, <3>1 DEF Written
    <3>3. Pending' = Representable(call.sizes)'
      <4>1. "" \in Representable(call.sizes)
        BY <1>2 DEF IInv, CallInv, Listed, Representable
      <4>2. Pending' = call'.todo \cup {""}
        BY <1>9, <2>9 DEF Pending, InLoop, InSegments
      <4> QED BY <1>1, <2>9, <2>13, <4>1, <4>2
    <3>4. Temp' = temps'[c.temp]
      BY <2>9 DEF Temp
    <3>5. "" \in Representable(call.sizes)'
      BY <3>3, <2>12, <2>9 DEF Pending
    <3>6. dest' = None
      BY <1>0 DEF IInv, DataInv
    <3>7. /\ call'.fork \in DOMAIN Temp'.data
          /\ Fresh' => /\ Temp'.data[call'.fork] = Written("", c.mark)'
                       /\ call'.hash[call'.fork] \in {None, Prefix(enumd'[""], c.mark)}
      BY <1>0, <2>5, <2>6, <2>9, <2>13, <3>1, <3>2, <3>4
    <3>8. Written("", c.mark)' = Written(call.fork, call.pos)'
      BY <2>9, <1>0 DEF Written
    <3> HIDE DEF s, kept, old, c
    <3> QED BY <1>9, <2>9, <3>3, <3>5, <3>6, <3>7, <3>8 DEF DataInv
  <2>18. SegmentInv'
    BY <1>0, <1>2, <1>9, <2>9, HeldPlan DEF Routed, Held, InLoop, InSegments
  <2> QED BY <2>13, <2>14, <2>15, <2>16, <2>17, <2>18 DEF IInv
<1> QED BY <1>5, <1>6, <1>7, <1>8, <1>9 DEF ResumeUnnamed

\* A new temporary is armed, empty or all hole.
LEMMA CreateTempStep == ASSUME IInv, CreateTemp PROVE IInv'
<1>0. st = "create" /\ UNCHANGED <<file, src, snap, enumd, segVars, ckpt, dest, excused, runs>>
  BY DEF CreateTemp, srcVars
<1>1. /\ call.jr = file.journal /\ call.fork = "" /\ call.hp = 0 /\ call.opened = 0
      /\ call.temp = None /\ IsCall(call)
      /\ call.hash[""] \in {<< >>, None} /\ call.todo = Representable(call.sizes) \ {""}
      /\ call.hash[""] = None => ~ShouldHash(call.sizes)
      /\ DOMAIN call.hash = DOMAIN file.data /\ DOMAIN call.sizes = DOMAIN file.data
      /\ file.journal => call.sizes[""] = snap.size
      /\ call.strat \in {"sparse", "segmented", "ordered"}
  <2>1. st \in Routed /\ Listed
    BY <1>0 DEF Routed, Listed
  <2>2. call.sizes \in [DOMAIN file.data -> Nat]
    BY <2>1 DEF IInv, CallInv
  <2> QED BY <1>0, <2>1, <2>2 DEF IInv, CallInv
<1>2. st \in Routed /\ "" \in Names /\ "" \in DOMAIN file.data /\ "" \in Representable(call.sizes)
  BY <1>0, <1>1, UnnamedIsNamed DEF IInv, Routed, Representable
<1>3. CASE st' = "failed" /\ UNCHANGED <<call, temps>>
  <2>1. Fail("failed")
    BY <1>1, <1>3 DEF Fail, Closed
  <2> QED BY <1>0, <1>3, <2>1, FailStep
<1> DEFINE z == IF Pinned THEN Zeros(snap.size) ELSE << >>
           r == [armed |-> TRUE, data |-> [n \in {""} |-> z]]
<1>4. CASE /\ temps' = With(temps, runs, r)
           /\ call' = StartStream([call EXCEPT !.temp = runs], "", 0, call.hash[""])
           /\ st' = IF call.strat = "segmented" THEN "writers" ELSE "loop"
  <2>1. runs \in Nat /\ snap.size \in Nat /\ snap.size <= Word /\ Size("") = snap.size
        /\ enumd[""] \in Seq(Nat) /\ Len(enumd[""]) = snap.size
    BY <1>0, EnumeratedFacts DEF IInv, SourceInv, Size
  <2>1a. PICK size \in Nat : size = snap.size
    BY <2>1
  <2>1b. size <= Word /\ Size("") = size /\ 0 <= size /\ size - 0 = size /\ size <= size
    <3>1. Word \in Nat
      BY GeometryAssumption
    <3>2. 0 <= size /\ size - 0 = size /\ size <= size
      OBVIOUS
    <3>3. size <= Word
      BY <2>1, <2>1a, <3>1
    <3>4. Size("") = size
      BY <2>1, <2>1a
    <3> QED BY <3>2, <3>3, <3>4
  <2>2. z \in Seq(Nat) /\ Len(z) <= size
    <3>1. Zeros(size) \in Seq(Nat) /\ Len(Zeros(size)) = size
      BY ZerosFacts
    <3>2. PICK e : e = << >>
      OBVIOUS
    <3>3. e \in Seq(Nat) /\ Len(e) <= size
      BY <3>2
    <3>4. z = Zeros(size) \/ z = e
      BY <2>1a, <3>2
    <3> QED BY <2>1b, <3>1, <3>3, <3>4, Zenon
  <2> HIDE DEF z
  <2>3. /\ DOMAIN temps' = DOMAIN temps \cup {runs}
        /\ \A x \in DOMAIN temps \ {runs} : temps'[x] = temps[x]
        /\ IsTemp(temps'[runs]) /\ temps'[runs].armed = TRUE
        /\ "" \in DOMAIN temps'[runs].data /\ temps'[runs].data[""] = z
    <3>1. DOMAIN temps' = DOMAIN temps \cup {runs}
          /\ (\A x \in DOMAIN temps \ {runs} : temps'[x] = temps[x]) /\ temps'[runs] = r
      <4> HIDE DEF r
      <4> QED BY <1>4 DEF With
    <3>2. DOMAIN r = {"armed", "data"} /\ r.armed = TRUE /\ r.data = [n \in {""} |-> z]
      OBVIOUS
    <3>3. DOMAIN r.data = {""} /\ r.data[""] = z /\ r.data \in [DOMAIN r.data -> Seq(Nat)]
      <4>1. PICK d : d = r.data
        OBVIOUS
      <4>2. d = [n \in {""} |-> z]
        BY <3>2, <4>1
      <4>3. DOMAIN d = {""} /\ d[""] = z /\ d \in [DOMAIN d -> Seq(Nat)]
        BY <2>2, <4>2
      <4> QED BY <4>1, <4>3
    <3> HIDE DEF r
    <3>4. IsTemp(r)
      BY <1>2, <3>2, <3>3 DEF IsTemp
    <3> QED BY <3>1, <3>2, <3>3, <3>4
  <2> HIDE DEF r
  <2> DEFINE d == [call EXCEPT !.temp = runs]
  <2>4. /\ IsCall(d)
        /\ d.strat = call.strat /\ d.sizes = call.sizes /\ d.temp = runs /\ d.jr = call.jr
        /\ d.hash = call.hash /\ d.ranges = call.ranges /\ d.todo = call.todo
        /\ d.plan = call.plan /\ d.opened = call.opened /\ d.hp = call.hp
    <3>1. PICK t \in Nat : t = runs
      BY <2>1
    <3>2. d = [call EXCEPT !.temp = t] /\ IsCall(call)
      BY <1>1, <3>1
    <3> HIDE DEF d
    <3> QED BY <3>1, <3>2, CallTemp
  <2> HIDE DEF d
  <2>5. call.hash[""] \in Seq(Nat) \cup {None}
    BY <1>1, <1>2 DEF IsCall
  <2>6. /\ IsCall(call')
        /\ call'.strat = call.strat /\ call'.sizes = call.sizes /\ call'.temp = runs
        /\ call'.jr = call.jr /\ call'.fork = "" /\ call'.pos = 0
        /\ DOMAIN call'.hash = DOMAIN call.hash /\ call'.hash[""] = call.hash[""]
        /\ call'.ranges = call.ranges /\ call'.todo = call.todo
        /\ call'.plan = call.plan /\ call'.opened = call.opened /\ call'.hp = call.hp
        /\ call'.next # None =>
               /\ call.jr /\ Size("") >= CkptThreshold
               /\ call'.next \in Nat /\ 0 <= call'.next
               /\ call'.next <= 0 + CheckpointInterval(Size(""))
    <3>1. PICK p \in Nat, h \in Seq(Nat) \cup {None} : p = 0 /\ h = call.hash[""]
      BY <2>5
    <3>2. PICK n \in DOMAIN file.data : n = ""
      BY <1>2
    <3>3. PICK e : e = d
      OBVIOUS
    <3>4. PICK f : f = call'
      OBVIOUS
    <3>5. f = StartStream(e, n, p, h) /\ IsCall(e) /\ n \in DOMAIN e.hash
      BY <1>1, <1>2, <1>4, <2>4, <3>1, <3>2, <3>3, <3>4 DEF d
    <3>6. Size(n) \in Nat /\ p <= Size(n) /\ Size(n) <= Word
      BY <2>1b, <3>1, <3>2
    <3>7. /\ IsCall(f)
          /\ f.strat = e.strat /\ f.sizes = e.sizes /\ f.temp = e.temp /\ f.jr = e.jr
          /\ f.fork = n /\ f.pos = p /\ f.seg = p
          /\ DOMAIN f.hash = DOMAIN e.hash /\ f.hash[n] = h
          /\ \A m \in DOMAIN e.hash \ {n} : f.hash[m] = e.hash[m]
          /\ f.ranges = e.ranges /\ f.todo = e.todo
          /\ f.plan = e.plan /\ f.opened = e.opened /\ f.hp = e.hp
          /\ f.next # None =>
                 /\ e.jr /\ Size(n) >= CkptThreshold
                 /\ f.next \in Nat /\ p <= f.next
                 /\ f.next <= p + CheckpointInterval(Size(n))
                 /\ p < Size(n) => p < f.next
      BY <3>5, <3>6, Started
    <3> QED BY <2>4, <3>1, <3>2, <3>3, <3>4, <3>7
  <2>7. st' \in Held /\ st' \in {"loop", "writers"}
        /\ (st' = "writers" <=> call.strat = "segmented")
    BY <1>4 DEF Held, InLoop, InSegments
  <2>8. /\ SourceInv' /\ (Fresh' <=> Fresh) /\ CallInv'
        /\ Representable(call.sizes)' = Representable(call.sizes)
    BY <1>0, <1>2, <2>6, <2>7, RoutedCall
  <2>9. DiskInv'
    <3>1. DOMAIN temps' \subseteq Nat /\ \A x \in DOMAIN temps' : IsTemp(temps'[x])
      BY <2>1, <2>3 DEF IInv, DiskInv
    <3>2. \A n \in DOMAIN ckpt : ckpt'[n] # None => IsRecord(ckpt'[n], n)
      BY <1>0 DEF IInv, DiskInv
    <3> QED BY <1>0, <2>3, <2>6, <3>1, <3>2, DiskStep DEF IInv
  <2>10. KeepInv'
    <3>1. \A t \in DOMAIN temps' \ (excused \cup {call'.temp}) : temps'[t].armed
      BY <1>0, <2>3, <2>6 DEF IInv, KeepInv
    <3>2. NamedClaimed'
      BY <2>6, <2>7 DEF NamedClaimed
    <3> QED BY <1>0, <2>3, <2>6, <2>7, <3>1, <3>2, HeldKeep
  <2>11. CursorInv'
    <3>1. CASE st' = "writers"
      BY <3>1 DEF CursorInv, InLoop
    <3>2. CASE st' = "loop"
      <4>1. Mark("")' \in Nat
        <5>1. ckpt[""] # None => ckpt[""].mark \in Nat
          BY <1>2 DEF IInv, DiskInv, IsRecord, Checkpoints
        <5> QED BY <1>0, <5>1 DEF Mark
      <4>1a. PICK p \in Nat : p = 0 /\ \A m \in Nat : p <= m
        OBVIOUS
      <4>2. PICK n : n = ""
        OBVIOUS
      <4>3. Mark(n)' = Mark("")'
        BY <4>2 DEF Mark
      <4>4. Mark(n)' \in Nat /\ p <= Mark(n)'
        BY <4>1, <4>1a, <4>3, Zenon
      <4>5. call'.next # None => call.hash[""] # None
        <5>1. call.jr /\ Size("") >= CkptThreshold => ShouldHash(call.sizes)
          BY <1>1, <1>2, <2>1 DEF ShouldHash, CheckpointEligible, Representable
        <5> QED BY <1>1, <2>6, <5>1
      <4>6. /\ UNCHANGED <<file, snap, ckpt>> /\ call'.sizes = call.sizes
            /\ st' \in {"loop", "rearm"} /\ call'.fork = n /\ call'.pos = p
            /\ Size(n) \in Nat /\ p <= Size(n)
        BY <1>0, <2>1a, <2>1b, <2>6, <3>2, <4>1a, <4>2
      <4>7. /\ call'.hash[n] # None => Len(call'.hash[n]) = p
            /\ call'.next # None => /\ call'.jr /\ Size(n) >= CkptThreshold
                                   /\ call'.hash[n] # None
                                   /\ call'.next \in Nat /\ p <= call'.next
                                   /\ call'.next <= p + CheckpointInterval(Size(n))
        <5>1. call.hash[""] # None => Len(call.hash[""]) = p
          <6>1. PICK e : e = << >>
            OBVIOUS
          <6>2. Len(e) = p
            BY <4>1a, <6>1
          <6> QED BY <1>1, <6>1, <6>2
        <5> QED BY <2>6, <4>1a, <4>2, <4>5, <5>1
      <4> HIDE <4>1a, <4>2, <4>3
      <4> QED BY <4>4, <4>6, <4>7, CursorStarts
    <3> QED BY <2>7, <3>1, <3>2
  <2>12. DataInv'
    <3>1. Pending' = Representable(call.sizes)'
      <4>1. Pending' = call'.todo \cup {""}
        BY <2>6, <2>7 DEF Pending, InLoop, InSegments
      <4> QED BY <1>1, <1>2, <2>6, <2>8, <4>1
    <3>2. Temp' = temps'[runs] /\ dest' = None
      BY <1>0, <2>6 DEF Temp, IInv, DataInv
    <3>3. st' = "loop" => /\ Temp'.data[""] = Written("", 0)'
                          /\ call'.hash[""] \in {None, Prefix(enumd'[""], 0)}
      <4>1. Prefix(enumd[""], 0) = << >> /\ << >> \o Zeros(snap.size) = Zeros(snap.size)
        <5>1. Zeros(snap.size) \in Seq(Nat)
          BY <2>1, ZerosFacts
        <5> QED BY <2>1, <5>1, FilledNothing, ConcatEmptySeq
      <4>2. snap.size - 0 = snap.size
        BY <2>1a, <2>1b, Zenon
      <4>4. Written("", 0)' = IF call.strat = "sparse"
                              THEN Prefix(enumd[""], 0) \o Zeros(snap.size - 0)
                              ELSE Prefix(enumd[""], 0)
        BY <1>0, <2>6 DEF Written
      <4>5. st' = "loop" => z = IF call.strat = "sparse" THEN Zeros(snap.size) ELSE << >>
        BY <1>1, <2>7 DEF z, Pinned
      <4> QED BY <1>0, <1>1, <2>3, <2>6, <3>2, <4>1, <4>2, <4>4, <4>5, ZenonT(30)
    <3>4. Written("", 0)' = Written(call.fork, call.pos)'
      BY <1>0, <2>6 DEF Written
    <3> QED BY <1>2, <2>3, <2>6, <2>7, <2>8, <3>1, <3>2, <3>3, <3>4 DEF DataInv, InLoop
  <2>13. SegmentInv'
    <3>1. CASE st' = "loop"
      BY <1>0, <1>2, <2>6, <3>1, HeldPlan DEF Routed, Held, InLoop, InSegments
    <3>2. CASE st' = "writers"
      <4>1. /\ call.strat = "segmented" /\ IsPlan(call.plan) /\ DOMAIN file.data = {""}
            /\ file.transport \in {"wsl_src", "wsl_dst"}
        BY <1>2, <2>7, <3>2 DEF IInv, SegmentInv
      <4>2. IsPlan(call.plan)'
        BY <1>0, <2>6, <4>1 DEF IsPlan
      <4>3. Len(Temp'.data[""]) <= snap'.size
        BY <1>0, <2>1a, <2>2, <2>3, <2>6 DEF Temp
      <4>4. call'.opened <= Len(call'.plan)
        <5>1. PICK plan \in Seq(Nat \X Nat) : plan = call.plan
          BY <4>1 DEF IsPlan
        <5>2. 0 <= Len(plan)
          OBVIOUS
        <5> QED BY <1>1, <2>6, <5>1, <5>2, Zenon
      <4> QED BY <1>0, <1>1, <2>6, <3>2, <4>1, <4>2, <4>3, <4>4 DEF SegmentInv, InSegments
    <3> QED BY <2>7, <3>1, <3>2
  <2> QED BY <2>8, <2>9, <2>10, <2>11, <2>12, <2>13 DEF IInv
<1> QED BY <1>3, <1>4 DEF CreateTemp

-----------------------------------------------------------------------------
(* The loop of a stream.                                                     *)

\* What holds in the loop of a stream.
LEMMA LoopFacts ==
  ASSUME IInv, st \in InLoop
  PROVE  /\ st \in Held /\ st \in Routed
         /\ call.temp \in DOMAIN temps /\ IsTemp(Temp) /\ call.temp # None
         /\ IsCall(call) /\ call.fork \in DOMAIN file.data /\ call.fork \in Names
         /\ call.fork \in Representable(call.sizes)
         /\ call.fork \in DOMAIN call.hash /\ call.fork \in DOMAIN Temp.data
         /\ call.pos \in Nat /\ Size(call.fork) \in Nat
         /\ call.pos <= Size(call.fork) /\ Size(call.fork) <= Word
         /\ call.hash[call.fork] \in Seq(Nat) \cup {None}
         /\ Temp.data[call.fork] \in Seq(Nat)
         /\ st # "start"
<1>1. st \in Held /\ st \in Routed /\ st # "start"
  BY DEF Routed, Held, InLoop
<1>2. IsCall(call) /\ call.fork \in DOMAIN file.data /\ DOMAIN call.hash = DOMAIN file.data
  BY <1>1 DEF IInv, CallInv, IsCall
<1>3. call.pos \in Nat /\ call.hash[call.fork] \in Seq(Nat) \cup {None}
  BY <1>2 DEF IsCall
<1>4. call.temp \in DOMAIN temps /\ IsTemp(Temp) /\ call.temp \in Nat
  BY <1>1 DEF IInv, DiskInv, Temp
<1>5. call.temp # None
  BY <1>4, FilesAssumption
<1>6. call.fork \in Representable(call.sizes) /\ call.fork \in DOMAIN Temp.data
  BY <1>1 DEF IInv, DataInv
<1>7. Size(call.fork) \in Nat /\ Size(call.fork) <= Word
  BY <1>1, <1>2, SizeFacts
<1>8. call.pos <= Size(call.fork)
  BY DEF IInv, CursorInv
<1>9. call.fork \in Names
  BY <1>2 DEF IInv, SourceInv, Names
<1>10. Temp.data[call.fork] \in Seq(Nat)
  BY <1>4, <1>6 DEF IsTemp
<1> QED BY <1>1, <1>2, <1>3, <1>4, <1>5, <1>6, <1>7, <1>8, <1>9, <1>10

\* Where the range or the hole ends that the next unit is in.
LEMMA RegionFacts ==
  ASSUME IInv, st = "loop", call.pos < Size(call.fork)
  PROVE  /\ RegionEnd \in Nat /\ call.pos <= RegionEnd /\ RegionEnd <= Size(call.fork)
         /\ call.strat = "sparse" /\ call.fork = "" =>
              \/ \E r \in call.ranges : call.pos + 1 .. RegionEnd \subseteq r[1] .. r[2]
              \/ \A i \in call.pos + 1 .. RegionEnd : \A r \in call.ranges : i \notin r[1] .. r[2]
<1>0. PICK p \in Nat, size \in Nat : p = call.pos /\ size = Size(call.fork)
  BY LoopFacts DEF InLoop
<1>0a. p < size
  BY <1>0
<1>1. CASE call.strat # "sparse" \/ call.fork # ""
  <2>1. RegionEnd = size
    BY <1>0, <1>1 DEF RegionEnd
  <2>2. p <= size /\ size <= size
    BY <1>0a
  <2> QED BY <1>0, <1>1, <2>1, <2>2, Zenon
<1>2. CASE call.strat = "sparse" /\ call.fork = ""
  <2>1. size = snap.size
    BY <1>0, <1>2 DEF Size
  <2>2. PICK R : R = call.ranges
    OBVIOUS
  <2>3. R \subseteq (1 .. size) \X (1 .. size)
    BY <1>2, <2>1, <2>2, LoopFacts DEF IInv, CallInv, InLoop
  <2>4. CASE \E r \in R : p + 1 \in r[1] .. r[2]
    <3> DEFINE r == CHOOSE r \in R : p + 1 \in r[1] .. r[2]
    <3>1. r \in R /\ p + 1 \in r[1] .. r[2]
      BY <2>4
    <3>2. RegionEnd = r[2]
      BY <1>0, <1>2, <2>2, <2>4 DEF RegionEnd, InRange
    <3> HIDE DEF r
    <3>3. r[1] \in 1 .. size /\ r[2] \in 1 .. size
      BY <2>3, <3>1
    <3>4. r[2] \in Nat /\ p <= r[2] /\ r[2] <= size /\ p + 1 .. r[2] \subseteq r[1] .. r[2]
      BY <3>1, <3>3
    <3> QED BY <1>0, <2>2, <3>1, <3>2, <3>4
  <2>5. CASE ~\E r \in R : p + 1 \in r[1] .. r[2]
    <3> DEFINE S == {size} \union {r[1] - 1 : r \in {q \in R : q[1] > p}}
    <3>1. RegionEnd = Min(S)
      BY <1>0, <1>2, <2>1, <2>2, <2>5 DEF RegionEnd, InRange, Size
    <3>2. \A r \in R : r[1] \in 1 .. size /\ r[2] \in 1 .. size
      BY <2>3
    <3>3. S \in SUBSET Nat /\ S # {}
      BY <3>2
    <3>4. \A x \in S : p <= x
      BY <1>0a, <3>2
    <3>5. size \in S /\ \A r \in R : r[1] > p => r[1] - 1 \in S
      OBVIOUS
    <3>6. Min(S) \in S /\ \A x \in S : Min(S) <= x
      <4> HIDE DEF S
      <4> QED BY <3>3, MinOfSet
    <3> DEFINE e == Min(S)
    <3>7. e \in Nat /\ p <= e /\ e <= size
      <4> HIDE DEF S
      <4> QED BY <3>3, <3>4, <3>5, <3>6
    <3>8. \A r \in R : r[1] > p => e <= r[1] - 1
      <4> HIDE DEF S
      <4> QED BY <3>5, <3>6
    <3> HIDE DEF S, e
    <3>9. ASSUME NEW i \in p + 1 .. e, NEW r \in R, i \in r[1] .. r[2] PROVE FALSE
      <4>1. r[1] \in Nat /\ r[2] \in Nat
        BY <3>2
      <4>2. CASE r[1] > p
        BY <3>7, <3>8, <3>9, <4>1, <4>2
      <4>3. CASE ~(r[1] > p)
        <5>1. p + 1 \in r[1] .. r[2]
          BY <3>7, <3>9, <4>1, <4>3
        <5> QED BY <2>5, <5>1
      <4> QED BY <4>2, <4>3
    <3> QED BY <1>0, <2>2, <3>1, <3>7, <3>9 DEF e
  <2> QED BY <2>4, <2>5
<1> QED BY <1>1, <1>2

\* CheckpointCursor::bound reaches neither past the region nor past the boundary.
LEMMA BoundFacts ==
  ASSUME IInv, st = "loop", call.pos < Size(call.fork)
  PROVE  /\ Bound \in Nat /\ call.pos <= Bound /\ Bound <= RegionEnd
         /\ call.next # None => Bound <= call.next
<1>1. PICK p \in Nat, e \in Nat : p = call.pos /\ e = RegionEnd /\ p <= e
  BY LoopFacts, RegionFacts DEF InLoop
<1>2. call.next # None => call.next \in Nat /\ p <= call.next
  <2>1. call.next \in Nat \cup {None}
    BY LoopFacts DEF InLoop, IsCall
  <2> QED BY <1>1, <2>1 DEF IInv, CursorInv, InLoop
<1> DEFINE S == {e} \union IF call.next = None THEN {} ELSE {call.next}
           m == Min(S)
<1>3. S \in SUBSET Nat /\ S # {} /\ e \in S /\ (call.next # None => call.next \in S)
      /\ \A x \in S : p <= x
  BY <1>1, <1>2
<1>4. m \in S /\ \A x \in S : m <= x
  <2> HIDE DEF S
  <2> QED BY <1>3, MinOfSet
<1>5. Bound = IF InRange THEN Staged(m) ELSE Min({m, p + Chunk})
  BY <1>1 DEF Bound
<1> HIDE DEF S, m
<1>6. m \in Nat /\ p <= m /\ m <= e /\ (call.next # None => m <= call.next)
  BY <1>3, <1>4
<1>7. ASSUME NEW k \in Nat
      PROVE  Min({m, p + k}) \in Nat /\ p <= Min({m, p + k}) /\ Min({m, p + k}) <= m
  <2>1. Min({m, p + k}) = IF m <= p + k THEN m ELSE p + k
    BY <1>6, MinPair
  <2> QED BY <1>6, <2>1
<1>8. Chunk \in Nat /\ Burst \in Nat
  BY GeometryAssumption
<1>9. Bound \in Nat /\ p <= Bound /\ Bound <= m
  <2>1. Staged(m) = m \/ Staged(m) = Min({m, p + Burst})
    BY <1>1 DEF Staged
  <2>2. Bound = m \/ Bound = Min({m, p + Burst}) \/ Bound = Min({m, p + Chunk})
    BY <1>5, <2>1
  <2>3. m <= m
    BY <1>6
  <2> QED BY <1>6, <1>7, <1>8, <2>2, <2>3, Zenon
<1>10. Bound <= e /\ (call.next # None => Bound <= call.next)
  <2>1. PICK b \in Nat : b = Bound
    BY <1>9
  <2>2. b <= m /\ b <= e
    BY <1>6, <1>9, <2>1
  <2>3. ASSUME call.next # None PROVE b <= call.next
    <3>1. PICK x \in Nat : x = call.next
      BY <1>2, <2>3
    <3>2. m <= x
      BY <1>6, <2>3, <3>1
    <3> QED BY <1>6, <2>2, <3>1, <3>2
  <2> QED BY <2>1, <2>2, <2>3
<1> QED BY <1>1, <1>9, <1>10

\* No temporary is armed or disarmed, and the journal stays.
LEMMA KeepSame ==
  ASSUME IInv, st \in Held \ {"rearm", "writer"}, st' \in Held \ {"persist", "basepersist"},
         UNCHANGED <<snap, ckpt, excused>>,
         DOMAIN temps' = DOMAIN temps, \A x \in DOMAIN temps : temps'[x].armed = temps[x].armed,
         call'.temp = call.temp, call'.sizes = call.sizes, call'.todo = call.todo,
         call'.jr => call.jr,
         st' \in InLoop => st \in InLoop /\ call'.fork = call.fork,
         st' \in {"named", "flushed"} =>
            st \in {"named", "flushed"} \/ (st \in InLoop /\ call.fork # "")
  PROVE  KeepInv'
<1>1. Claimed' <=> Claimed
  BY DEF Claimed
<1>2. NamedClaimed'
  <2>1. \A n : Size(n)' = Size(n)
    BY DEF Size
  <2>2. InLoop \cap {"named", "flushed"} = {}
    BY DEF InLoop
  <2>3. (\E n \in call'.todo : Size(n)' >= CkptThreshold)
            => \E n \in call.todo : Size(n) >= CkptThreshold
    BY <2>1
  <2>4. st' \in InLoop => Size(call.fork)' = Size(call.fork)
    BY DEF Size
  <2> QED BY <1>1, <2>2, <2>3, <2>4 DEF IInv, KeepInv, NamedClaimed
<1>3. call.temp \in DOMAIN temps
  BY DEF IInv, DiskInv
<1>4. temps'[call'.temp].armed \/ Claimed'
  BY <1>1, <1>3 DEF IInv, KeepInv, Temp
<1>5. \A t \in DOMAIN temps' \ (excused \cup {call'.temp}) : temps'[t].armed
  BY DEF IInv, KeepInv
<1> QED BY <1>2, <1>4, <1>5, HeldKeep

\* No stream is written.
LEMMA DataSame ==
  ASSUME IInv, st \in Held, st' \in Held \ {"commit"},
         UNCHANGED <<enumd, snap, dest>>, temps'[call.temp].data = temps[call.temp].data,
         call'.temp = call.temp, call'.fork = call.fork, call'.strat = call.strat,
         call'.hash = call.hash, Fresh' => Fresh,
         st' \in InLoop => st \in InLoop /\ call'.pos = call.pos,
         Representable(call.sizes)' = Representable(call.sizes), Pending' = Pending
  PROVE  DataInv'
<1>1. Temp'.data = Temp.data
  BY DEF Temp
<1>2. \A n : Exact(n) => Exact(n)'
  BY <1>1 DEF Exact
<1>3. dest' = None
  BY DEF IInv, DataInv, Held, InLoop, InSegments
<1>4. \A n, p : Written(n, p)' = Written(n, p)
  BY DEF Written
<1>5. st' \in InLoop => Written(call.fork, call.pos)' = Written(call.fork, call.pos)
  BY DEF Written
<1> QED BY <1>1, <1>2, <1>3, <1>5 DEF IInv, DataInv

\* A turn chooses a request within the boundary and the range, or leaves the loop.
LEMMA LoopTurnStep == ASSUME IInv, LoopTurn PROVE IInv'
<1>0. st = "loop" /\ UNCHANGED <<file, src, snap, enumd, segVars, ckpt, dest, excused, runs>>
  BY DEF LoopTurn, srcVars
<1>1. st \in InLoop
  BY <1>0 DEF InLoop
<1>2. CASE Canceled /\ UNCHANGED call
  BY <1>0, <1>2, FailStep DEF Canceled
<1>3. CASE /\ call.pos < Size(call.fork)
           /\ IF call.next # None /\ call.next < call.pos
              THEN Fail("internal") /\ UNCHANGED call
              ELSE /\ call' = [call EXCEPT !.seg = Bound]
                   /\ st' = "move"
                   /\ UNCHANGED temps
  <2>1. ~(call.next # None /\ call.next < call.pos)
    <3>1. call.next # None => call.next \in Nat /\ call.pos \in Nat /\ call.pos <= call.next
      BY <1>1, LoopFacts DEF IInv, CursorInv, IsCall
    <3> QED BY <3>1
  <2>2. call' = [call EXCEPT !.seg = Bound] /\ st' = "move" /\ UNCHANGED temps
    BY <1>3, <2>1
  <2>3. PICK b \in Nat : b = Bound
    BY <1>0, <1>3, BoundFacts
  <2>4. /\ IsCall(call')
        /\ call'.strat = call.strat /\ call'.sizes = call.sizes /\ call'.temp = call.temp
        /\ call'.jr = call.jr /\ call'.fork = call.fork /\ call'.pos = call.pos
        /\ call'.seg = b /\ call'.next = call.next
        /\ call'.hash = call.hash /\ call'.ranges = call.ranges /\ call'.todo = call.todo
        /\ call'.plan = call.plan /\ call'.opened = call.opened /\ call'.hp = call.hp
    BY <1>1, <2>2, <2>3, LoopFacts, CallSeg
  <2>5. st \in Held /\ st \in Routed /\ st' \in Held /\ st' \in InLoop /\ st' \in Routed
    BY <1>0, <2>2 DEF Held, InLoop, Routed
  <2>6. /\ SourceInv' /\ (Fresh' <=> Fresh) /\ CallInv'
        /\ Representable(call.sizes)' = Representable(call.sizes)
    BY <1>0, <2>4, <2>5, RoutedCall
  <2>7. DiskInv'
    BY <1>0, <1>1, <2>2, <2>4, DiskSame, LoopFacts DEF IInv
  <2>8. KeepInv'
    BY <1>0, <1>1, <2>2, <2>4, <2>5, KeepSame
  <2>9. CursorInv'
    <3>1. PICK p \in Nat, e \in Nat : p = call.pos /\ e = RegionEnd
      BY <1>0, <1>1, <1>3, LoopFacts, RegionFacts
    <3>2. PICK size \in Nat : size = Size(call.fork)
      BY <1>1, LoopFacts
    <3>3. p <= b /\ b <= e /\ e <= size /\ p <= size /\ b <= size
      <4>1. p <= b /\ b <= e
        BY <1>0, <1>3, <2>3, <3>1, BoundFacts
      <4>2. e <= size
        BY <1>0, <1>3, <3>1, <3>2, RegionFacts
      <4> QED BY <4>1, <4>2
    <3>4. call.next # None => b <= call.next
      BY <1>0, <1>3, <2>3, BoundFacts
    <3>5. call.strat = "sparse" /\ call.fork = "" =>
              \/ \E r \in call.ranges : call.pos + 1 .. b \subseteq r[1] .. r[2]
              \/ \A i \in call.pos + 1 .. b : \A r \in call.ranges : i \notin r[1] .. r[2]
      <4>1. p + 1 .. b \subseteq p + 1 .. e
        BY <3>3
      <4>2. call.strat = "sparse" /\ call.fork = "" =>
              \/ \E r \in call.ranges : p + 1 .. e \subseteq r[1] .. r[2]
              \/ \A i \in p + 1 .. e : \A r \in call.ranges : i \notin r[1] .. r[2]
        BY <1>0, <1>3, <3>1, RegionFacts
      <4> QED BY <3>1, <4>1, <4>2
    <3>6. /\ Size(call.fork)' = Size(call.fork)
          /\ CheckpointInterval(Size(call.fork))' = CheckpointInterval(Size(call.fork))
          /\ Mark(call.fork)' = Mark(call.fork)
          /\ Eligible(call.fork)' = Eligible(call.fork)
      BY <1>0, <2>4 DEF Size, Mark, Eligible, CheckpointInterval
    <3>7. /\ call'.pos <= Size(call.fork)'
          /\ call'.hash[call'.fork] # None => Len(call'.hash[call'.fork]) = call'.pos
          /\ call'.next # None =>
               /\ Eligible(call.fork)'
               /\ call'.hash[call'.fork] # None
               /\ call'.pos <= call'.next
               /\ call'.next <= Mark(call.fork)' + CheckpointInterval(Size(call.fork))'
      BY <1>1, <2>4, <3>6 DEF IInv, CursorInv
    <3>8. /\ call'.pos <= call'.seg /\ call'.seg <= Size(call.fork)'
          /\ call'.next # None => call'.seg <= call'.next
          /\ call'.strat = "sparse" /\ call'.fork = "" =>
               \/ \E r \in call'.ranges : call'.pos + 1 .. call'.seg \subseteq r[1] .. r[2]
               \/ \A i \in call'.pos + 1 .. call'.seg :
                     \A r \in call'.ranges : i \notin r[1] .. r[2]
      BY <2>4, <3>1, <3>2, <3>3, <3>4, <3>5, <3>6
    <3> QED BY <2>2, <3>7, <3>8 DEF CursorInv
  <2>10. DataInv'
    <3>1. Pending' = Pending
      BY <1>0, <2>2, <2>4 DEF Pending, InLoop, InSegments
    <3> QED BY <1>0, <1>1, <2>2, <2>4, <2>5, <2>6, <3>1, DataSame
  <2>11. SegmentInv'
    BY <1>0, <2>2, <2>4, <2>5, HeldPlan DEF InSegments
  <2> QED BY <2>6, <2>7, <2>8, <2>9, <2>10, <2>11 DEF IInv
<1>4. CASE /\ call.pos = Size(call.fork)
           /\ st' = (IF call.fork = "" THEN "read" ELSE "flushed")
           /\ UNCHANGED <<call, temps>>
  <2>1. st \in Held /\ st \in Routed /\ st' \in Held /\ st' \in Routed
        /\ st' \notin InLoop /\ st' \notin InSegments
        /\ st' \notin {"persist", "basepersist", "append", "base", "commit", "move"}
    BY <1>0, <1>4 DEF Held, InLoop, InSegments, Routed
  <2>2. IsCall(call') /\ call' = call
    BY <1>1, <1>4, LoopFacts
  <2>3. /\ SourceInv' /\ (Fresh' <=> Fresh) /\ CallInv'
        /\ Representable(call.sizes)' = Representable(call.sizes)
    BY <1>0, <2>1, <2>2, RoutedCall
  <2>4. DiskInv'
    BY <1>0, <1>1, <1>4, DiskSame, LoopFacts DEF IInv
  <2>5. KeepInv'
    BY <1>0, <1>1, <1>4, <2>1, KeepSame
  <2>6. CursorInv'
    BY <1>4, <2>1 DEF CursorInv
  <2>7. DataInv'
    <3>1. Fresh => Exact(call.fork)
      <4>1. SUFFICES ASSUME Fresh PROVE Exact(call.fork)
        OBVIOUS
      <4>2. PICK e \in Seq(Nat) : e = enumd[call.fork]
        BY <1>1, LoopFacts, EnumeratedFacts DEF IInv
      <4>3. call.pos = Len(e) /\ (call.fork = "" => snap.size = Len(e))
        <5>1. Size(call.fork) = Len(enumd[call.fork])
          BY <1>1, <4>1, LoopFacts, SizeFacts
        <5> QED BY <1>4, <4>2, <5>1 DEF Size
      <4>4. Written(call.fork, call.pos) = e /\ Prefix(e, call.pos) = e
        <5>1. Filled(e, Len(e), TRUE) = e /\ Prefix(e, Len(e)) = e
          BY FilledWhole
        <5>2. Prefix(e, Len(e)) \o Zeros(Len(e) - Len(e)) = e
          BY <5>1 DEF Filled
        <5>3. call.fork = "" => Written(call.fork, call.pos)
                    = IF call.strat = "sparse" THEN Prefix(e, Len(e)) \o Zeros(Len(e) - Len(e))
                                               ELSE Prefix(e, Len(e))
          BY <4>2, <4>3 DEF Written
        <5>4. call.fork # "" => Written(call.fork, call.pos) = Prefix(e, Len(e))
          BY <4>2, <4>3 DEF Written
        <5> QED BY <4>3, <5>1, <5>2, <5>3, <5>4
      <4> QED BY <1>1, <4>1, <4>2, <4>4 DEF IInv, DataInv, Exact
    <3>2. Pending = Pending' \cup {call.fork}
      BY <1>0, <1>1, <1>4, <2>1 DEF Pending, InSegments, InLoop
    <3>3. \A n : Exact(n) => Exact(n)'
      BY <1>0, <1>4 DEF Exact, Temp
    <3>4. Fresh' => \A n \in Representable(call.sizes)' \ Pending' : Exact(n)'
      BY <2>1, <2>3, <3>1, <3>2, <3>3 DEF IInv, DataInv
    <3>5. call'.fork \in Representable(call.sizes)' /\ dest' = None
      BY <1>0, <1>4, <2>1, <2>3 DEF IInv, DataInv
    <3> QED BY <2>1, <3>4, <3>5 DEF DataInv
  <2>8. SegmentInv'
    BY <1>0, <1>4, <2>1, HeldPlan
  <2> QED BY <2>3, <2>4, <2>5, <2>6, <2>7, <2>8 DEF IInv
<1> QED BY <1>2, <1>3, <1>4 DEF LoopTurn

\* What is written, after a step.
LEMMA WrittenAt ==
  ASSUME UNCHANGED <<snap, enumd>>, call'.strat = call.strat, NEW n, NEW p,
         call'.fork = n, call'.pos = p
  PROVE  Written(call.fork, call.pos)' = Written(n, p)
<1>1. enumd' = enumd /\ snap' = snap
  OBVIOUS
<1>2. CASE n = "" /\ call.strat = "sparse"
  <2>1. Written(n, p) = Prefix(enumd[n], p) \o Zeros(snap.size - p)
    BY <1>2 DEF Written
  <2>2. Written(call.fork, call.pos)' =
          Prefix(enumd'[call'.fork], call'.pos) \o Zeros(snap'.size - call'.pos)
    BY <1>2 DEF Written
  <2> QED BY <1>1, <2>1, <2>2, Zenon
<1>3. CASE ~(n = "" /\ call.strat = "sparse")
  <2>1. Written(n, p) = Prefix(enumd[n], p)
    BY <1>3 DEF Written
  <2>2. Written(call.fork, call.pos)' = Prefix(enumd'[call'.fork], call'.pos)
    BY <1>3 DEF Written
  <2> QED BY <1>1, <2>1, <2>2, Zenon
<1> QED BY <1>2, <1>3

\* A request stays within its segment.
LEMMA RequestFacts ==
  ASSUME IInv, st = "move", call.pos < call.seg
  PROVE  /\ Requested \in Nat /\ call.pos \in Nat /\ call.seg \in Nat
         /\ call.pos + Requested \in Nat /\ call.pos + Requested <= call.seg
         /\ call.seg <= Size(call.fork)
<1>1. PICK p \in Nat, s \in Nat : p = call.pos /\ s = call.seg
  BY LoopFacts DEF InLoop, IsCall
<1>2. p < s
  BY <1>1
<1>3. Chunk \in Nat /\ s - p \in Nat
  BY <1>2, GeometryAssumption
<1>4. Min({Chunk, s - p}) = IF Chunk <= s - p THEN Chunk ELSE s - p
  BY <1>3, MinPair
<1>5. PICK k \in Nat : k = Requested /\ k <= s - p
  BY <1>1, <1>3, <1>4 DEF Requested
<1>6. p + k \in Nat /\ p + k <= s
  BY <1>2, <1>5
<1> QED BY <1>1, <1>5, <1>6 DEF IInv, CursorInv

\* The position advances by k units that are written, or lie in a hole.
LEMMA MoveStep ==
  ASSUME IInv, st = "move", st' = st, call.pos < call.seg,
         UNCHANGED <<file, src, snap, enumd, ckpt, dest, excused, runs>>,
         NEW h \in Seq(Nat) \cup {None}, NEW d \in Seq(Nat), NEW k \in Nat, k = Requested,
         call' = [call EXCEPT !.pos = call.pos + k, !.hash[call.fork] = h],
         DOMAIN temps' = DOMAIN temps,
         \A x \in DOMAIN temps \ {call.temp} : temps'[x] = temps[x],
         IsTemp(temps'[call.temp]), temps'[call.temp].armed = Temp.armed,
         DOMAIN temps'[call.temp].data = DOMAIN Temp.data,
         temps'[call.temp].data[call.fork] = d,
         \A m \in DOMAIN Temp.data \ {call.fork} : temps'[call.temp].data[m] = Temp.data[m],
         h = None <=> call.hash[call.fork] = None,
         h # None => Len(h) = call.pos + k,
         Fresh => /\ d = Written(call.fork, call.pos + k)
                  /\ h \in {None, Prefix(enumd[call.fork], call.pos + k)}
  PROVE  IInv'
<1>1. st \in InLoop /\ st' \in InLoop /\ st \in Held /\ st' \in Held /\ st \in Routed
      /\ st' \in Routed
      /\ st \notin {"rearm", "writer", "persist", "basepersist", "commit"} \cup InSegments
  BY DEF InLoop, Held, Routed, InSegments
<1>2. PICK p \in Nat, n \in DOMAIN call.hash, s \in Nat :
        p = call.pos /\ n = call.fork /\ s = call.seg
  BY <1>1, LoopFacts DEF IsCall
<1>3. p + k \in Nat /\ p + k <= s /\ p <= p + k
  <2>1. p + k <= s
    BY <1>2, RequestFacts
  <2> QED BY <2>1
<1>4. /\ IsCall(call')
      /\ call'.strat = call.strat /\ call'.sizes = call.sizes /\ call'.temp = call.temp
      /\ call'.jr = call.jr /\ call'.fork = call.fork /\ call'.pos = p + k
      /\ call'.seg = call.seg /\ call'.next = call.next
      /\ DOMAIN call'.hash = DOMAIN call.hash /\ call'.hash[n] = h
      /\ \A m \in DOMAIN call.hash \ {n} : call'.hash[m] = call.hash[m]
      /\ call'.ranges = call.ranges /\ call'.todo = call.todo
      /\ call'.plan = call.plan /\ call'.opened = call.opened /\ call'.hp = call.hp
  <2>0. PICK x \in Nat : x = p + k
    BY <1>3
  <2>1. PICK c, e : c = call /\ e = call'
    OBVIOUS
  <2>2. e = [c EXCEPT !.pos = x, !.hash[n] = h] /\ IsCall(c) /\ n \in DOMAIN c.hash
    BY <1>1, <1>2, <2>0, <2>1, LoopFacts
  <2>3. DOMAIN e = Locals
    BY <2>2 DEF IsCall
  <2>4. /\ e.strat = c.strat /\ e.sizes = c.sizes /\ e.temp = c.temp /\ e.jr = c.jr
        /\ e.fork = c.fork /\ e.pos = x /\ e.seg = c.seg /\ e.next = c.next
        /\ e.hash = [c.hash EXCEPT ![n] = h] /\ e.ranges = c.ranges /\ e.todo = c.todo
        /\ e.plan = c.plan /\ e.opened = c.opened /\ e.hp = c.hp
    BY <2>2 DEF IsCall, Locals
  <2>5. /\ DOMAIN e.hash = DOMAIN c.hash /\ e.hash[n] = h
        /\ \A m \in DOMAIN c.hash \ {n} : e.hash[m] = c.hash[m]
        /\ e.hash \in [DOMAIN e.hash -> Seq(Nat) \cup {None}]
    <3>1. PICK f, g : f = c.hash /\ g = e.hash
      OBVIOUS
    <3>2. f \in [DOMAIN f -> Seq(Nat) \cup {None}] /\ g = [f EXCEPT ![n] = h] /\ n \in DOMAIN f
      BY <2>2, <2>4, <3>1 DEF IsCall
    <3>3. /\ DOMAIN g = DOMAIN f /\ g[n] = h /\ \A m \in DOMAIN f \ {n} : g[m] = f[m]
          /\ g \in [DOMAIN g -> Seq(Nat) \cup {None}]
      BY <3>2
    <3> QED BY <3>1, <3>3
  <2>6. IsCall(e)
    BY <2>2, <2>3, <2>4, <2>5 DEF IsCall
  <2> QED BY <2>0, <2>1, <2>4, <2>5, <2>6
<1>5. h # None <=> call.hash[n] # None
  BY <1>2
<1>6. /\ SourceInv' /\ (Fresh' <=> Fresh) /\ CallInv'
      /\ Representable(call.sizes)' = Representable(call.sizes)
  <2>1. call.hash[""] # None => call'.hash[""] # None
    <3>1. "" \in DOMAIN call.hash
      BY <1>1, UnnamedIsNamed DEF IInv, CallInv
    <3> QED BY <1>2, <1>4, <1>5, <3>1
  <2> QED BY <1>1, <1>4, <2>1, RoutedCall
<1>7. DiskInv'
  BY <1>1, <1>4, HeldDisk
<1>8. KeepInv'
  <2>1. \A x \in DOMAIN temps : temps'[x].armed = temps[x].armed
    BY DEF Temp
  <2> QED BY <1>1, <1>4, <2>1, KeepSame
<1>9. CursorInv'
  <2>1. /\ Size(call.fork)' = Size(call.fork)
        /\ CheckpointInterval(Size(call.fork))' = CheckpointInterval(Size(call.fork))
        /\ Mark(call.fork)' = Mark(call.fork)
        /\ Eligible(call.fork)' = Eligible(call.fork)
    BY <1>4 DEF Size, Mark, Eligible, CheckpointInterval
  <2>2. PICK size \in Nat : size = Size(call.fork)
    BY <1>1, LoopFacts
  <2>3. s <= size /\ p + k <= size
    <3>1. s <= size
      BY <1>2, <2>2, RequestFacts
    <3> QED BY <1>3, <3>1
  <2>4. call.next # None => call.next \in Nat /\ s <= call.next
    BY <1>1, <1>2, LoopFacts DEF IInv, CursorInv, IsCall
  <2>5. call.next # None => p + k <= call.next
    <3>1. ASSUME call.next # None PROVE p + k <= call.next
      <4>1. PICK x \in Nat : x = call.next
        BY <2>4, <3>1
      <4>2. s <= x
        BY <2>4, <3>1, <4>1
      <4>3. p + k <= x
        BY <1>3, <4>2
      <4> QED BY <4>1, <4>3
    <3> QED BY <3>1
  <2>6. call.strat = "sparse" /\ call.fork = "" =>
              \/ \E r \in call.ranges : (p + k) + 1 .. s \subseteq r[1] .. r[2]
              \/ \A i \in (p + k) + 1 .. s : \A r \in call.ranges : i \notin r[1] .. r[2]
    <3>1. (p + k) + 1 .. s \subseteq p + 1 .. s
      OBVIOUS
    <3>2. call.strat = "sparse" /\ call.fork = "" =>
              \/ \E r \in call.ranges : p + 1 .. s \subseteq r[1] .. r[2]
              \/ \A i \in p + 1 .. s : \A r \in call.ranges : i \notin r[1] .. r[2]
      BY <1>2 DEF IInv, CursorInv
    <3> QED BY <3>1, <3>2
  <2>7. /\ call'.pos <= Size(call.fork)'
        /\ call'.hash[call'.fork] # None => Len(call'.hash[call'.fork]) = call'.pos
        /\ call'.next # None =>
               /\ Eligible(call.fork)'
               /\ call'.hash[call'.fork] # None
               /\ call'.pos <= call'.next
               /\ call'.next <= Mark(call.fork)' + CheckpointInterval(Size(call.fork))'
    <3>1. call.next # None => Eligible(call.fork) /\ call.hash[n] # None
                              /\ call.next <= Mark(call.fork) + CheckpointInterval(Size(call.fork))
      BY <1>1, <1>2 DEF IInv, CursorInv
    <3> QED BY <1>2, <1>4, <1>5, <2>1, <2>2, <2>3, <2>5, <3>1
  <2>8. /\ call'.pos <= call'.seg /\ call'.seg <= Size(call.fork)'
        /\ call'.next # None => call'.seg <= call'.next
        /\ call'.strat = "sparse" /\ call'.fork = "" =>
               \/ \E r \in call'.ranges : call'.pos + 1 .. call'.seg \subseteq r[1] .. r[2]
               \/ \A i \in call'.pos + 1 .. call'.seg :
                     \A r \in call'.ranges : i \notin r[1] .. r[2]
    BY <1>2, <1>3, <1>4, <2>1, <2>2, <2>3, <2>4, <2>6
  <2> QED BY <2>7, <2>8 DEF CursorInv
<1>10. DataInv'
  <2>1. Pending' = Pending
    BY <1>4 DEF Pending
  <2>2. Temp' = temps'[call.temp] /\ dest' = None
    BY <1>1, <1>4 DEF Temp, IInv, DataInv, Held, InLoop
  <2>3. Written(call.fork, call.pos)' = Written(call.fork, p + k)
    <3>1. PICK x : x = p + k
      OBVIOUS
    <3>2. Written(call.fork, call.pos)' = Written(n, x)
      BY <1>2, <1>4, <3>1, WrittenAt
    <3> QED BY <1>2, <3>1, <3>2
  <2>4. /\ call'.fork \in DOMAIN Temp'.data
        /\ Fresh' => /\ Temp'.data[call'.fork] = Written(call.fork, call.pos)'
                     /\ call'.hash[call'.fork] \in {None, Prefix(enumd'[call'.fork], call'.pos)}
    BY <1>1, <1>2, <1>4, <1>6, <2>2, <2>3, LoopFacts
  <2>5. ASSUME Fresh', NEW m \in Representable(call.sizes)' \ Pending' PROVE Exact(m)'
    <3>1. m # call.fork /\ Exact(m)
      BY <1>1, <1>6, <2>1, <2>5 DEF IInv, DataInv, Pending
    <3>2. m \in DOMAIN Temp.data /\ m \in DOMAIN call.hash
      <4>1. DOMAIN Temp.data \subseteq DOMAIN file.data /\ DOMAIN call.hash = DOMAIN file.data
        BY <1>1, LoopFacts DEF IsTemp, IInv, CallInv
      <4> QED BY <3>1, <4>1 DEF Exact
    <3>3. /\ m \in DOMAIN temps'[call.temp].data
          /\ temps'[call.temp].data[m] = temps[call.temp].data[m]
          /\ call'.hash[m] = call.hash[m]
      BY <1>2, <1>4, <3>1, <3>2 DEF Temp
    <3> QED BY <1>4, <3>1, <3>3, ExactFrame
  <2>6. call'.fork \in Representable(call.sizes)'
    BY <1>1, <1>4, <1>6, LoopFacts
  <2> QED BY <1>1, <2>2, <2>4, <2>5, <2>6 DEF DataInv
<1>11. SegmentInv'
  BY <1>1, <1>4, HeldPlan
<1> QED BY <1>6, <1>7, <1>8, <1>9, <1>10, <1>11 DEF IInv

\* Written as a case of Filled.
LEMMA WrittenFilled ==
  ASSUME NEW n, NEW p, NEW e, e = enumd[n], n = "" => snap.size = Len(e)
  PROVE  Written(n, p) = Filled(e, p, n = "" /\ call.strat = "sparse")
BY DEF Written, Filled

\* What is fresh in the loop of a stream.
LEMMA StreamFacts ==
  ASSUME IInv, st \in InLoop, Fresh
  PROVE  /\ src.data = enumd /\ enumd[call.fork] \in Seq(Nat)
         /\ Size(call.fork) = Len(enumd[call.fork])
         /\ call.fork = "" => snap.size = Len(enumd[call.fork])
         /\ Temp.data[call.fork] = Written(call.fork, call.pos)
         /\ call.hash[call.fork] \in {None, Prefix(enumd[call.fork], call.pos)}
<1>1. st \in Routed /\ st # "start" /\ call.fork \in DOMAIN file.data
  BY LoopFacts
<1>2. Size(call.fork) = Len(enumd[call.fork])
  BY <1>1, SizeFacts
<1> QED BY <1>1, <1>2, EnumeratedFacts DEF IInv, DataInv

\* A digest that goes on.
LEMMA HashedFacts ==
  ASSUME NEW h \in Seq(Nat) \cup {None}, NEW v \in Seq(Nat)
  PROVE  /\ Hashed(h, v) \in Seq(Nat) \cup {None}
         /\ Hashed(h, v) = None <=> h = None
         /\ h # None => Hashed(h, v) = h \o v /\ Len(Hashed(h, v)) = Len(h) + Len(v)
<1>1. None \notin Seq(Nat)
  BY FilesAssumption
<1>2. CASE h = None
  BY <1>2 DEF Hashed
<1>3. CASE h \in Seq(Nat)
  <2>1. h \o v \in Seq(Nat) /\ Len(h \o v) = Len(h) + Len(v)
    BY <1>3, ConcatProperties
  <2> QED BY <1>1, <1>3, <2>1 DEF Hashed
<1> QED BY <1>2, <1>3

\* A request inside an allocated range copies and hashes it.
LEMMA MoveDataStep ==
  ASSUME IInv, st = "move", st' = st, call.pos < call.seg, MoveData,
         UNCHANGED <<file, src, snap, enumd, ckpt, dest, excused, runs>>
  PROVE  IInv'
<1>1. st \in InLoop
  BY DEF InLoop
<1>2. PICK p \in Nat, k \in Nat : p = call.pos /\ k = Requested
  BY RequestFacts
<1>3. PICK n, t : n = call.fork /\ t = call.temp
  OBVIOUS
<1>4. /\ n \in DOMAIN file.data /\ n \in DOMAIN call.hash
      /\ t \in DOMAIN temps /\ n \in DOMAIN temps[t].data /\ temps[t].data[n] \in Seq(Nat)
      /\ IsCall(call)
  BY <1>1, <1>3, LoopFacts DEF Temp
<1>5. PICK r \in Seq(Nat), s \in Seq(Nat) : r = src.data[n] /\ s = temps[t].data[n]
  BY <1>4, SourceFacts DEF IInv
<1>6. p + k <= Len(r)
  <2>1. Len(src.data[call.fork]) >= call.pos + Requested
    BY DEF MoveData
  <2>2. Len(r) >= p + k
    BY <1>2, <1>3, <1>5, <2>1
  <2> QED BY <2>2
<1>7. PICK v \in Seq(Nat) : v = SubSeq(r, p + 1, p + k) /\ Len(v) = k
  BY <1>6, ReadFacts
<1>8. PICK h \in Seq(Nat) \cup {None}, g \in Seq(Nat) \cup {None} :
        /\ g = call.hash[n] /\ (h = None <=> g = None)
        /\ g # None => h = g \o v /\ Len(h) = Len(g) + k
        /\ h = Hashed(g, v)
  <2>1. call.hash[n] \in Seq(Nat) \cup {None}
    BY <1>1, <1>3, LoopFacts
  <2>2. PICK g \in Seq(Nat) \cup {None} : g = call.hash[n]
    BY <2>1
  <2>3. PICK h : h = Hashed(g, v)
    OBVIOUS
  <2>4. /\ h \in Seq(Nat) \cup {None} /\ (h = None <=> g = None)
        /\ g # None => h = g \o v /\ Len(h) = Len(g) + Len(v)
    BY <2>3, HashedFacts
  <2> QED BY <1>7, <2>2, <2>3, <2>4
<1>9. PICK d \in Seq(Nat) : d = Put(s, p, v)
  BY PutFacts
<1>10. temps' = [temps EXCEPT ![t].data[n] = d]
  BY <1>2, <1>3, <1>5, <1>7, <1>9 DEF MoveData
<1>11. /\ DOMAIN temps' = DOMAIN temps
       /\ \A x \in DOMAIN temps \ {t} : temps'[x] = temps[x]
       /\ IsTemp(temps'[t]) /\ temps'[t].armed = temps[t].armed
       /\ DOMAIN temps'[t].data = DOMAIN temps[t].data
       /\ temps'[t].data[n] = d
       /\ \A m \in DOMAIN temps[t].data \ {n} : temps'[t].data[m] = temps[t].data[m]
  BY <1>4, <1>10, TempWritten DEF IInv
<1>12. call' = [call EXCEPT !.pos = call.pos + k, !.hash[call.fork] = h]
  <2>1. PICK c, x : c = call /\ x = p + k
    OBVIOUS
  <2>2. [c EXCEPT !.pos = x].hash = c.hash
    BY <1>4, <2>1 DEF IsCall, Locals
  <2>3. call' = [c EXCEPT !.pos = x, !.hash[n] = Hashed(@, v)]
    BY <1>2, <1>3, <1>5, <1>7, <2>1 DEF MoveData
  <2>4. call' = [c EXCEPT !.pos = x, !.hash[n] = h]
    BY <1>8, <2>1, <2>2, <2>3
  <2> QED BY <1>2, <1>3, <2>1, <2>4
<1>13. h = None <=> call.hash[call.fork] = None
  BY <1>3, <1>8
<1>14. h # None => Len(h) = call.pos + k
  <2>1. SUFFICES ASSUME h # None PROVE Len(h) = p + k
    BY <1>2
  <2>2. g # None /\ Len(h) = Len(g) + k
    BY <1>8, <2>1
  <2>3. Len(g) = p
    BY <1>1, <1>2, <1>3, <1>8, <2>2 DEF IInv, CursorInv
  <2> QED BY <2>2, <2>3
<1>15. Fresh => /\ d = Written(call.fork, call.pos + k)
                /\ h \in {None, Prefix(enumd[call.fork], call.pos + k)}
  <2>1. SUFFICES ASSUME Fresh
                 PROVE  d = Written(n, p + k) /\ h \in {None, Prefix(r, p + k)}
    <3>1. Fresh => enumd[call.fork] = r
      BY <1>1, <1>3, <1>5, StreamFacts
    <3> QED BY <1>2, <1>3, <2>1, <3>1
  <2> DEFINE b == n = "" /\ call.strat = "sparse"
  <2>2. r = enumd[n] /\ (n = "" => snap.size = Len(r)) /\ s = Written(n, p)
        /\ g \in {None, Prefix(r, p)}
    BY <1>1, <1>2, <1>3, <1>5, <1>8, <2>1, StreamFacts DEF Temp
  <2>3. s = Filled(r, p, b) /\ Written(n, p + k) = Filled(r, p + k, b)
    BY <2>2, WrittenFilled
  <2>4. b \in BOOLEAN
    OBVIOUS
  <2> HIDE DEF b
  <2>5. d = Filled(r, p + k, b)
    BY <1>6, <1>7, <1>9, <2>3, <2>4, FilledPut
  <2>6. g # None => h = Prefix(r, p + k)
    <3>1. Prefix(r, p) \o v = Prefix(r, p + k)
      BY <1>6, <1>7, PrefixRead, Zenon
    <3> QED BY <1>8, <2>2, <3>1, Zenon
  <2>7. g = None => h = None
    BY <1>8
  <2> QED BY <2>3, <2>5, <2>6, <2>7
<1>16. /\ IsTemp(temps'[call.temp]) /\ temps'[call.temp].armed = Temp.armed
       /\ DOMAIN temps'[call.temp].data = DOMAIN Temp.data
       /\ temps'[call.temp].data[call.fork] = d
       /\ \A m \in DOMAIN Temp.data \ {call.fork} : temps'[call.temp].data[m] = Temp.data[m]
       /\ DOMAIN temps' = DOMAIN temps
       /\ \A x \in DOMAIN temps \ {call.temp} : temps'[x] = temps[x]
  BY <1>3, <1>11 DEF Temp
<1> QED BY <1>2, <1>12, <1>13, <1>14, <1>15, <1>16, MoveStep

\* A request inside a hole writes nothing and hashes zeros.
LEMMA MoveHoleStep ==
  ASSUME IInv, st = "move", st' = st, call.pos < call.seg, MoveHole,
         UNCHANGED <<file, src, snap, enumd, ckpt, dest, excused, runs>>
  PROVE  IInv'
<1>1. st \in InLoop
  BY DEF InLoop
<1>2. PICK p \in Nat, k \in Nat, s \in Nat : p = call.pos /\ k = Requested /\ s = call.seg
  BY RequestFacts
<1>3. p + k <= s /\ p < s
  BY <1>2, RequestFacts
<1>4. call.strat = "sparse" /\ call.fork = "" /\ UNCHANGED temps /\ IsCall(call)
      /\ ~\E r \in call.ranges : p + 1 \in r[1] .. r[2]
  BY <1>1, <1>2, LoopFacts DEF MoveHole, InRange
<1>5. \A i \in p + 1 .. s : \A r \in call.ranges : i \notin r[1] .. r[2]
  <2>1. p + 1 \in p + 1 .. s
    BY <1>3
  <2> QED BY <1>2, <1>4, <2>1 DEF IInv, CursorInv
<1>6. PICK v \in Seq(Nat) : v = Zeros(k) /\ Len(v) = k
  BY ZerosFacts
<1>7. PICK h \in Seq(Nat) \cup {None}, g \in Seq(Nat) \cup {None} :
        /\ g = call.hash[""] /\ (h = None <=> g = None)
        /\ g # None => h = g \o v /\ Len(h) = Len(g) + k
        /\ h = Hashed(g, v)
  <2>1. call.hash[""] \in Seq(Nat) \cup {None}
    BY <1>1, <1>4, LoopFacts
  <2>2. PICK g \in Seq(Nat) \cup {None} : g = call.hash[""]
    BY <2>1
  <2>3. PICK h : h = Hashed(g, v)
    OBVIOUS
  <2>4. /\ h \in Seq(Nat) \cup {None} /\ (h = None <=> g = None)
        /\ g # None => h = g \o v /\ Len(h) = Len(g) + Len(v)
    BY <2>3, HashedFacts
  <2> QED BY <1>6, <2>2, <2>3, <2>4
<1>8. PICK d \in Seq(Nat) : d = Temp.data[""]
  BY <1>1, <1>4, LoopFacts
<1>9. call' = [call EXCEPT !.pos = call.pos + k, !.hash[call.fork] = h]
  <2>1. PICK c, x : c = call /\ x = p + k
    OBVIOUS
  <2>2. [c EXCEPT !.pos = x].hash = c.hash
    BY <1>4, <2>1 DEF IsCall, Locals
  <2>3. call' = [c EXCEPT !.pos = x, !.hash[""] = Hashed(@, v)]
    BY <1>2, <1>4, <1>6, <2>1 DEF MoveHole
  <2>4. call' = [c EXCEPT !.pos = x, !.hash[""] = h]
    BY <1>7, <2>1, <2>2, <2>3
  <2> QED BY <1>2, <1>4, <2>1, <2>4
<1>10. h = None <=> call.hash[call.fork] = None
  BY <1>4, <1>7
<1>11. h # None => Len(h) = call.pos + k
  <2>1. SUFFICES ASSUME h # None PROVE Len(h) = p + k
    BY <1>2
  <2>2. g # None /\ Len(h) = Len(g) + k
    BY <1>7, <2>1
  <2>3. Len(g) = p
    BY <1>1, <1>2, <1>4, <1>7, <2>2 DEF IInv, CursorInv
  <2> QED BY <2>2, <2>3
<1>12. Fresh => /\ d = Written(call.fork, call.pos + k)
                /\ h \in {None, Prefix(enumd[call.fork], call.pos + k)}
  <2>1. SUFFICES ASSUME Fresh
                 PROVE  d = Written("", p + k) /\ h \in {None, Prefix(enumd[""], p + k)}
    BY <1>2, <1>4
  <2>2. PICK r \in Seq(Nat) : r = enumd[""]
    BY <1>1, <1>4, <2>1, StreamFacts
  <2>3. d = Written("", p) /\ g \in {None, Prefix(r, p)} /\ snap.size = Len(r)
    BY <1>1, <1>2, <1>4, <1>7, <1>8, <2>1, <2>2, StreamFacts
  <2>4. d = Filled(r, p, TRUE) /\ Written("", p + k) = Filled(r, p + k, TRUE)
    BY <1>4, <2>2, <2>3, WrittenFilled
  <2>5. p + k <= Len(r) /\ s <= Len(r)
    <3>1. call.seg <= Size(call.fork) /\ Size(call.fork) = Len(enumd[call.fork])
      BY <1>1, <2>1, RequestFacts, StreamFacts
    <3>2. s <= Len(r)
      BY <1>2, <1>4, <2>2, <3>1
    <3> QED BY <1>3, <3>2
  <2>6. ASSUME NEW i \in p + 1 .. p + k PROVE r[i] = 0
    <3>1. i \in 1 .. Len(r) /\ i \in p + 1 .. s
      BY <1>3, <2>5
    <3>2. call.ranges = AllocatedRanges(r)
      <4>1. st \in Routed
        BY <1>1, LoopFacts
      <4> QED BY <1>4, <2>1, <2>2, <4>1 DEF IInv, CallInv
    <3> QED BY <1>5, <3>1, <3>2, OutsideIsHole
  <2>7. d = Filled(r, p + k, TRUE) /\ v = SubSeq(r, p + 1, p + k)
    BY <1>6, <2>4, <2>5, <2>6, FilledHole, HoleRead
  <2>8. g # None => h = Prefix(r, p + k)
    <3>1. Prefix(r, p) \o v = Prefix(r, p + k)
      BY <2>5, <2>7, PrefixRead, Zenon
    <3> QED BY <1>7, <2>3, <3>1, Zenon
  <2>9. g = None => h = None
    BY <1>7
  <2> QED BY <2>2, <2>4, <2>7, <2>8, <2>9
<1>13. /\ IsTemp(temps'[call.temp]) /\ temps'[call.temp].armed = Temp.armed
       /\ DOMAIN temps'[call.temp].data = DOMAIN Temp.data
       /\ temps'[call.temp].data[call.fork] = d
       /\ \A m \in DOMAIN Temp.data \ {call.fork} : temps'[call.temp].data[m] = Temp.data[m]
       /\ DOMAIN temps' = DOMAIN temps
       /\ \A x \in DOMAIN temps \ {call.temp} : temps'[x] = temps[x]
  BY <1>1, <1>4, <1>8, LoopFacts DEF Temp
<1> QED BY <1>2, <1>9, <1>10, <1>11, <1>12, <1>13, MoveStep

\* A request is one of the two, or fails.
LEMMA MoveChunkStep == ASSUME IInv, MoveChunk PROVE IInv'
<1>0. st = "move" /\ call.pos < call.seg
      /\ UNCHANGED <<file, src, snap, enumd, ckpt, dest, excused, runs>>
  BY DEF MoveChunk, srcVars
<1>1. CASE MoveData
  BY <1>0, <1>1, MoveDataStep DEF MoveData
<1>2. CASE MoveHole
  BY <1>0, <1>2, MoveHoleStep DEF MoveHole
<1>3. CASE MoveStops
  BY <1>0, <1>3, FailStep DEF MoveStops
<1> QED BY <1>1, <1>2, <1>3 DEF MoveChunk

-----------------------------------------------------------------------------
(* Checkpoints of the current stream.                                        *)

\* The cursor advances and asks for a checkpoint at a boundary.
LEMMA AdvanceStep == ASSUME IInv, Advance PROVE IInv'
<1>0. /\ st = "move" /\ call.pos = call.seg
      /\ st' = IF call.next = call.pos THEN "append" ELSE "loop"
      /\ UNCHANGED <<file, src, snap, enumd, call, temps, ckpt, dest, excused, runs>>
  BY DEF Advance, srcVars, diskVars
<1>1. st \in InLoop /\ st' \in InLoop /\ st \in Held /\ st' \in Held /\ st \in Routed
      /\ st' \in Routed
      /\ st \notin {"rearm", "writer"} /\ st' \notin InSegments
      /\ st' \notin {"move", "persist", "basepersist", "base", "commit", "named", "flushed"}
  BY <1>0 DEF InLoop, Held, Routed, InSegments
<1>2. IsCall(call') /\ call' = call
  BY <1>0, <1>1, LoopFacts
<1>3. /\ SourceInv' /\ (Fresh' <=> Fresh) /\ CallInv'
      /\ Representable(call.sizes)' = Representable(call.sizes)
  BY <1>0, <1>1, <1>2, RoutedCall
<1>4. DiskInv'
  BY <1>0, <1>1, DiskSame, LoopFacts DEF IInv
<1>5. KeepInv'
  BY <1>0, <1>1, KeepSame
<1>6. CursorInv'
  <2>1. call.next # None => call.pos <= call.next /\ call.next \in Nat /\ call.pos \in Nat
    BY <1>1, LoopFacts DEF IInv, CursorInv, IsCall
  <2>2. call.next # None /\ call.next # call.pos => call.pos < call.next
    BY <2>1
  <2>3. call.next = call.pos => call.next # None
    BY <1>1, LoopFacts, FilesAssumption
  <2>4. /\ Size(call.fork)' = Size(call.fork)
        /\ CheckpointInterval(Size(call.fork))' = CheckpointInterval(Size(call.fork))
        /\ Mark(call.fork)' = Mark(call.fork)
        /\ Eligible(call.fork)' = Eligible(call.fork)
    BY <1>0 DEF Size, Mark, Eligible, CheckpointInterval
  <2> QED BY <1>0, <1>1, <2>2, <2>3, <2>4 DEF IInv, CursorInv
<1>7. DataInv'
  <2>1. Pending' = Pending
    BY <1>0, <1>1 DEF Pending, InSegments
  <2> QED BY <1>0, <1>1, <1>3, <2>1, DataSame
<1>8. SegmentInv'
  BY <1>0, <1>1, HeldPlan
<1> QED BY <1>3, <1>4, <1>5, <1>6, <1>7, <1>8 DEF IInv

\* The record of what was read up to p.
LEMMA RecordFacts ==
  ASSUME IInv, st \in Held, call.jr, NEW n \in DOMAIN file.data,
         call.hash[n] # None, NEW p \in Nat, p = Len(call.hash[n]),
         Fresh => p <= Len(enumd[n]) /\ call.hash[n] = Prefix(enumd[n], p)
  PROVE  /\ IsRecord(Record(n, p), n) /\ Record(n, p) # None
         /\ Record(n, p).temp = call.temp /\ Record(n, p).mark = p
<1>1. st \in Routed /\ st # "start"
  BY DEF Routed, Held, InLoop, InSegments
<1>2. /\ snap.id \in Nat /\ snap.mtime \in Nat /\ snap.mtime <= src.mtime
      /\ (Fresh => src.data = enumd)
  BY <1>1 DEF IInv, SourceInv
<1>3. Size(n) \in Nat
  BY <1>1, SizeFacts
<1>4. call.hash[n] \in Seq(Nat) /\ call.temp \in Nat /\ file.journal
  <2>1. IsCall(call) /\ DOMAIN call.hash = DOMAIN file.data /\ (call.jr => file.journal)
    BY <1>1 DEF IInv, CallInv
  <2>2. call.hash[n] \in Seq(Nat) \cup {None}
    BY <2>1 DEF IsCall
  <2> QED BY <2>1, <2>2 DEF IInv, DiskInv
<1>5. Record(n, p) \in Checkpoints
  BY <1>2, <1>3, <1>4 DEF Record, Checkpoints
<1>6. Record(n, p) # None
  BY <1>5, FilesAssumption
<1> QED BY <1>2, <1>4, <1>5, <1>6 DEF IsRecord, Record, Fresh

\* The journal is switched off for the rest of the copy.
LEMMA Disabled ==
  ASSUME IsCall(call), Disable
  PROVE  /\ IsCall(call')
         /\ call'.strat = call.strat /\ call'.sizes = call.sizes /\ call'.temp = call.temp
         /\ call'.jr = FALSE
         /\ call'.fork = call.fork /\ call'.pos = call.pos /\ call'.seg = call.seg
         /\ call'.next = None
         /\ call'.hash = call.hash /\ call'.ranges = call.ranges /\ call'.todo = call.todo
         /\ call'.plan = call.plan /\ call'.opened = call.opened /\ call'.hp = call.hp
BY CallNoJournal DEF Disable

\* Without a journal there is no boundary.
LEMMA DisableStep ==
  ASSUME IInv, st \in InLoop \ {"rearm"}, st' = "loop", Disable,
         UNCHANGED <<file, src, snap, enumd, temps, ckpt, dest, excused, runs>>
  PROVE  IInv'
<1>1. st \in InLoop /\ st' \in InLoop /\ st \in Held /\ st' \in Held /\ st \in Routed
      /\ st' \in Routed
      /\ st \notin {"rearm", "writer"} /\ st' \notin InSegments /\ st \notin InSegments
      /\ st' \notin {"move", "persist", "basepersist", "base", "commit", "append"}
      /\ st' \notin {"named", "flushed"}
  BY DEF InLoop, Held, Routed, InSegments
<1>2. /\ IsCall(call')
      /\ call'.strat = call.strat /\ call'.sizes = call.sizes /\ call'.temp = call.temp
      /\ call'.jr = FALSE
      /\ call'.fork = call.fork /\ call'.pos = call.pos
      /\ call'.next = None
      /\ call'.hash = call.hash /\ call'.ranges = call.ranges /\ call'.todo = call.todo
      /\ call'.plan = call.plan
  BY <1>1, LoopFacts, Disabled
<1>3. /\ SourceInv' /\ (Fresh' <=> Fresh) /\ CallInv'
      /\ Representable(call.sizes)' = Representable(call.sizes)
  BY <1>1, <1>2, RoutedCall
<1>4. DiskInv'
  BY <1>1, <1>2, DiskSame, LoopFacts DEF IInv
<1>5. KeepInv'
  BY <1>1, <1>2, KeepSame
<1>6. CursorInv'
  <2>1. Size(call.fork)' = Size(call.fork)
    BY <1>2 DEF Size
  <2> QED BY <1>1, <1>2, <2>1 DEF IInv, CursorInv
<1>7. DataInv'
  <2>1. Pending' = Pending
    BY <1>1, <1>2 DEF Pending
  <2> QED BY <1>1, <1>2, <1>3, <2>1, DataSame
<1>8. SegmentInv'
  BY <1>1, <1>2, HeldPlan
<1> QED BY <1>3, <1>4, <1>5, <1>6, <1>7, <1>8 DEF IInv

\* The record is written of the prefix read so far, or the journal is given up.
LEMMA AppendCheckpointStep == ASSUME IInv, AppendCheckpoint PROVE IInv'
<1>0. st = "append" /\ UNCHANGED <<file, src, snap, enumd, dest, excused, runs>>
  BY DEF AppendCheckpoint, srcVars
<1>1. st \in InLoop \ {"rearm"} /\ st \in Held /\ st \in Routed
  BY <1>0 DEF InLoop, Held, Routed
<1>2. CASE Disable /\ st' = "loop" /\ UNCHANGED <<ckpt, temps>>
  BY <1>0, <1>1, <1>2, DisableStep
<1>3. CASE AppendRecord(call.fork, "persist")
  <2>1. PICK n \in DOMAIN file.data, p \in Nat : n = call.fork /\ p = call.pos
    BY <1>1, LoopFacts
  <2>2. n \in Names /\ n \in DOMAIN ckpt
    BY <1>1, <2>1, LoopFacts DEF IInv, DiskInv
  <2>3. /\ call.next # None /\ call.next = p /\ Eligible(n) /\ call.jr
        /\ call.hash[n] # None /\ Len(call.hash[n]) = p
    BY <1>0, <1>1, <2>1 DEF IInv, CursorInv, Eligible
  <2>4. PICK r : r = Record(n, p)
    OBVIOUS
  <2>5. ckpt' = [ckpt EXCEPT ![n] = r] /\ st' = "persist" /\ UNCHANGED <<call, temps>>
    BY <1>3, <2>1, <2>3, <2>4 DEF AppendRecord
  <2>6. IsRecord(r, n) /\ r # None /\ r.temp = call.temp /\ r.mark = p
    <3>1. ASSUME Fresh PROVE p <= Len(enumd[n]) /\ call.hash[n] = Prefix(enumd[n], p)
      <4>1. PICK z \in Nat : z = Size(n) /\ p <= z
        BY <1>1, <2>1, LoopFacts
      <4>2. z = Len(enumd[n]) /\ call.hash[n] \in {None, Prefix(enumd[n], p)}
        BY <1>1, <2>1, <3>1, <4>1, StreamFacts
      <4> QED BY <2>3, <4>1, <4>2
    <3> QED BY <1>1, <2>3, <2>4, <3>1, RecordFacts
  <2>7. st' \in InLoop /\ st' \in Held /\ st' \in Routed /\ st' \notin InSegments
        /\ st \notin InSegments
    BY <1>0, <2>5 DEF InLoop, Held, Routed, InSegments
  <2>8. IsCall(call') /\ call' = call
    BY <1>1, <2>5, LoopFacts
  <2>9. /\ SourceInv' /\ (Fresh' <=> Fresh) /\ CallInv'
        /\ Representable(call.sizes)' = Representable(call.sizes)
    BY <1>0, <1>1, <2>7, <2>8, RoutedCall
  <2>10. /\ DOMAIN ckpt' = DOMAIN ckpt /\ ckpt'[n] = r
         /\ \A m \in DOMAIN ckpt \ {n} : ckpt'[m] = ckpt[m]
    BY <2>2, <2>5
  <2>11. DiskInv'
    <3>1. \A m \in DOMAIN ckpt : ckpt'[m] # None => IsRecord(ckpt'[m], m)
      BY <2>6, <2>10 DEF IInv, DiskInv
    <3> QED BY <1>0, <1>1, <2>5, <2>10, <3>1, DiskStep DEF IInv, DiskInv
  <2>12. Claimed'
    <3>1. CASE n = ""
      BY <2>5, <2>6, <2>10, <3>1 DEF Claimed
    <3>2. CASE n # ""
      <4>1. Claimed
        BY <1>0, <1>1, <2>1, <2>3, <3>2 DEF IInv, KeepInv, NamedClaimed, Eligible
      <4>2. "" \in DOMAIN ckpt
        BY UnnamedIsNamed DEF IInv, DiskInv
      <4> QED BY <2>5, <2>10, <3>2, <4>1, <4>2 DEF Claimed
    <3> QED BY <3>1, <3>2
  <2>13. KeepInv'
    <3>1. \A t \in DOMAIN temps' \ (excused \cup {call'.temp}) : temps'[t].armed
      BY <1>1, <2>5 DEF IInv, KeepInv
    <3>2. NamedClaimed'
      BY <2>12 DEF NamedClaimed
    <3> QED BY <1>0, <2>7, <2>12, <3>1, <3>2, HeldKeep
  <2>14. CursorInv'
    <3>1. Mark(call.fork)' = p
      BY <2>1, <2>5, <2>6, <2>10 DEF Mark
    <3>2. /\ Size(call.fork)' = Size(call.fork) /\ Eligible(call.fork)' = Eligible(call.fork)
          /\ CheckpointInterval(Size(call.fork))' \in Nat
      BY <1>0, <2>5, IntervalFacts DEF Size, Eligible, CheckpointInterval
    <3>3. PICK i \in Nat : i = CheckpointInterval(Size(call.fork))'
      BY <3>2
    <3>4. p <= p + i /\ p <= p
      OBVIOUS
    <3> QED BY <1>0, <1>1, <2>1, <2>3, <2>5, <3>1, <3>2, <3>3, <3>4 DEF IInv, CursorInv
  <2>15. DataInv'
    <3>1. Pending' = Pending
      BY <1>0, <1>1, <2>5, <2>7 DEF Pending
    <3> QED BY <1>0, <1>1, <2>5, <2>7, <2>9, <3>1, DataSame
  <2>16. SegmentInv'
    BY <1>0, <1>1, <2>5, <2>7, HeldPlan
  <2> QED BY <2>9, <2>11, <2>13, <2>14, <2>15, <2>16 DEF IInv
<1> QED BY <1>2, <1>3 DEF AppendCheckpoint

\* The temporary outlives the run only once its record exists.
LEMMA PersistStep == ASSUME IInv, Persist PROVE IInv'
<1>0. st = "persist" /\ st' = "loop"
      /\ UNCHANGED <<file, src, snap, enumd, ckpt, dest, excused, runs>>
  BY DEF Persist, srcVars
<1>1. st \in InLoop \ {"rearm"} /\ st \in Held /\ st \in Routed
      /\ st' \in InLoop /\ st' \in Held /\ st' \in Routed /\ st' \notin InSegments
      /\ st \notin InSegments
  BY <1>0 DEF InLoop, Held, Routed, InSegments
<1>2. CASE Disable /\ UNCHANGED temps
  BY <1>0, <1>1, <1>2, DisableStep
<1> DEFINE next == IF call.pos < Size(call.fork)
                   THEN NextCheckpointAfter(call.pos, Size(call.fork)) ELSE None
<1>3. CASE /\ temps' = [temps EXCEPT ![call.temp].armed = FALSE]
           /\ call' = [call EXCEPT !.next = next]
  <2>1. PICK p \in Nat, z \in Nat : p = call.pos /\ z = Size(call.fork) /\ p <= z /\ z <= Word
    BY <1>1, LoopFacts
  <2>2. PICK x \in Nat \cup {None} :
          /\ x = next
          /\ x # None => p < x /\ x <= p + CheckpointInterval(z)
    <3>1. CASE p < z
      <4>1. PICK y \in Nat :
              y = NextCheckpointAfter(p, z) /\ p < y /\ y <= p + CheckpointInterval(z)
        BY <2>1, <3>1, NextFacts
      <4> QED BY <2>1, <3>1, <4>1
    <3>2. CASE ~(p < z)
      BY <2>1, <3>2
    <3> QED BY <3>1, <3>2
  <2> HIDE DEF next
  <2>3. /\ IsCall(call')
        /\ call'.strat = call.strat /\ call'.sizes = call.sizes /\ call'.temp = call.temp
        /\ call'.jr = call.jr
        /\ call'.fork = call.fork /\ call'.pos = call.pos
        /\ call'.next = x
        /\ call'.hash = call.hash /\ call'.ranges = call.ranges /\ call'.todo = call.todo
        /\ call'.plan = call.plan
    <3>1. PICK c : c = call
      OBVIOUS
    <3>2. call' = [c EXCEPT !.next = x] /\ IsCall(c)
      BY <1>1, <1>3, <2>2, <3>1, LoopFacts
    <3> QED BY <3>1, <3>2, CallNext
  <2>4. /\ SourceInv' /\ (Fresh' <=> Fresh) /\ CallInv'
        /\ Representable(call.sizes)' = Representable(call.sizes)
    BY <1>0, <1>1, <2>3, RoutedCall
  <2>5. /\ DOMAIN temps' = DOMAIN temps
        /\ \A y \in DOMAIN temps \ {call.temp} : temps'[y] = temps[y]
        /\ IsTemp(temps'[call.temp]) /\ temps'[call.temp].data = temps[call.temp].data
    BY <1>1, <1>3, LoopFacts, TempRearmed DEF IInv
  <2>6. DiskInv'
    BY <1>0, <1>1, <2>3, <2>5, HeldDisk
  <2>7. Claimed'
    BY <1>0, <2>3 DEF IInv, KeepInv, Claimed
  <2>8. KeepInv'
    <3>1. \A t \in DOMAIN temps' \ (excused \cup {call'.temp}) : temps'[t].armed
      BY <1>1, <2>3, <2>5 DEF IInv, KeepInv
    <3>2. NamedClaimed'
      BY <2>7 DEF NamedClaimed
    <3> QED BY <1>0, <1>1, <2>7, <3>1, <3>2, HeldKeep
  <2>9. CursorInv'
    <3>1. Mark(call.fork)' = p
      BY <1>0, <2>1, <2>3 DEF Mark, IInv, CursorInv
    <3>2. /\ Size(call.fork)' = z /\ Eligible(call.fork)' = Eligible(call.fork)
          /\ CheckpointInterval(Size(call.fork))' = CheckpointInterval(z)
      BY <1>0, <2>1, <2>3 DEF Size, Eligible, CheckpointInterval
    <3>3. Eligible(call.fork) /\ call.hash[call.fork] # None
      BY <1>0, <1>1 DEF IInv, CursorInv
    <3>4. x # None => p <= x
      BY <2>2
    <3> QED BY <1>0, <1>1, <2>1, <2>2, <2>3, <3>1, <3>2, <3>3, <3>4 DEF IInv, CursorInv
  <2>10. DataInv'
    <3>1. Pending' = Pending
      BY <1>0, <1>1, <2>3 DEF Pending
    <3> QED BY <1>0, <1>1, <2>3, <2>4, <2>5, <3>1, DataSame
  <2>11. SegmentInv'
    BY <1>0, <1>1, <2>3, HeldPlan
  <2> QED BY <2>4, <2>6, <2>8, <2>9, <2>10, <2>11 DEF IInv
<1> QED BY <1>2, <1>3 DEF Persist

-----------------------------------------------------------------------------
(* The tail: the base checkpoint, the named streams' ends, the rename.       *)

\* The disposition could not be armed again: the temporary is left behind.
LEMMA LeftBehind ==
  ASSUME IInv, st \in {"rearm", "writer"}, st' = "failed", excused' = excused \cup {call.temp},
         UNCHANGED <<file, src, snap, enumd, call, temps, ckpt, dest, runs>>
  PROVE  IInv'
<1>1. st \in Held
  BY DEF Held, InLoop, InSegments
<1>2. SourceInv'
  BY SourceFrame DEF IInv, Places
<1>3. CallInv'
  BY CallFrame DEF IInv, CallInv, Listed, Routed, Held, InLoop, InSegments
<1>4. DiskInv'
  BY DiskSame DEF IInv, Held, InLoop, InSegments
<1>5. KeepInv'
  <2>1. KeptIsClaimed'
    BY <1>1 DEF IInv, KeepInv, KeptIsClaimed
  <2> QED BY <2>1 DEF KeepInv, NamedClaimed, Held, InLoop, InSegments
<1>6. CursorInv' /\ DataInv' /\ SegmentInv'
  BY DEF IInv, CursorInv, DataInv, SegmentInv, Routed, Held, InLoop, InSegments
<1> QED BY <1>2, <1>3, <1>4, <1>5, <1>6 DEF IInv

\* The named stream's temporary is armed again, or excused.
LEMMA RearmNamedStep == ASSUME IInv, RearmNamed PROVE IInv'
<1>0. st = "rearm" /\ Rearm("loop") /\ UNCHANGED <<file, src, snap, enumd, call, ckpt, dest, runs>>
  BY DEF RearmNamed, srcVars
<1>1. CASE st' = "failed" /\ excused' = excused \cup {call.temp} /\ UNCHANGED temps
  BY <1>0, <1>1, LeftBehind
<1>2. CASE temps' = [temps EXCEPT ![call.temp].armed = TRUE] /\ st' = "loop" /\ UNCHANGED excused
  <2>1. st \in InLoop /\ st' \in InLoop /\ st \in Held /\ st' \in Held /\ st \in Routed
        /\ st' \in Routed
        /\ st' \notin InSegments /\ st \notin InSegments
    BY <1>0, <1>2 DEF InLoop, Held, Routed, InSegments
  <2>2. IsCall(call') /\ call' = call
    BY <1>0, <2>1, LoopFacts
  <2>3. /\ SourceInv' /\ (Fresh' <=> Fresh) /\ CallInv'
        /\ Representable(call.sizes)' = Representable(call.sizes)
    BY <1>0, <2>1, <2>2, RoutedCall
  <2>4. /\ DOMAIN temps' = DOMAIN temps
        /\ \A y \in DOMAIN temps \ {call.temp} : temps'[y] = temps[y]
        /\ IsTemp(temps'[call.temp]) /\ temps'[call.temp].data = temps[call.temp].data
        /\ temps'[call.temp].armed = TRUE
    BY <1>2, <2>1, LoopFacts, TempRearmed DEF IInv
  <2>5. DiskInv'
    BY <1>0, <2>1, <2>4, HeldDisk
  <2>6. KeepInv'
    <3>1. \A t \in DOMAIN temps' \ (excused \cup {call'.temp}) : temps'[t].armed
      BY <1>0, <2>1, <2>4 DEF IInv, KeepInv
    <3>2. NamedClaimed'
      BY <1>0, <1>2, <2>1 DEF IInv, KeepInv, NamedClaimed, Claimed, Size
    <3> QED BY <1>0, <1>2, <2>1, <2>4, <3>1, <3>2, HeldKeep
  <2>7. CursorInv'
    <3>1. /\ Size(call.fork)' = Size(call.fork)
          /\ CheckpointInterval(Size(call.fork))' = CheckpointInterval(Size(call.fork))
          /\ Mark(call.fork)' = Mark(call.fork)
          /\ Eligible(call.fork)' = Eligible(call.fork)
      BY <1>0 DEF Size, Mark, Eligible, CheckpointInterval
    <3> QED BY <1>0, <1>2, <2>1, <3>1 DEF IInv, CursorInv
  <2>8. DataInv'
    <3>1. Pending' = Pending
      BY <1>0, <2>1 DEF Pending
    <3> QED BY <1>0, <1>2, <2>1, <2>3, <2>4, <3>1, DataSame
  <2>9. SegmentInv'
    BY <1>0, <2>1, HeldPlan
  <2> QED BY <2>3, <2>5, <2>6, <2>7, <2>8, <2>9 DEF IInv
<1> QED BY <1>0, <1>1, <1>2 DEF Rearm

\* What holds at the end of the unnamed stream and between the named ones.
LEMMA TailFacts ==
  ASSUME IInv, st \in {"read", "base", "basepersist", "named", "flushed", "commit"}
  PROVE  /\ st \in Held /\ st \in Routed /\ st \notin InLoop /\ st \notin InSegments /\ st # "start"
         /\ IsCall(call) /\ DOMAIN call.hash = DOMAIN file.data /\ "" \in DOMAIN file.data
         /\ call.temp \in DOMAIN temps /\ IsTemp(Temp) /\ call.temp \in Nat
         /\ call.todo \subseteq Representable(call.sizes) \ {""}
         /\ call.todo \subseteq DOMAIN file.data /\ DOMAIN call.sizes = DOMAIN file.data
         /\ "" \in Representable(call.sizes) \ Pending
         /\ Pending = call.todo /\ dest = None
         /\ \A t \in DOMAIN temps \ (excused \cup {call.temp}) : temps[t].armed
         /\ Temp.armed \/ Claimed
<1>1. st \in Held /\ st \in Routed /\ st \notin InLoop /\ st \notin InSegments /\ st # "start"
  BY DEF Held, Routed, InLoop, InSegments
<1>2. /\ IsCall(call) /\ DOMAIN call.hash = DOMAIN file.data /\ "" \in DOMAIN file.data
      /\ call.todo \subseteq Representable(call.sizes)
      /\ call.sizes \in [DOMAIN file.data -> Nat]
  BY <1>1, UnnamedIsNamed DEF IInv, CallInv, Listed
<1>3. call.temp \in DOMAIN temps /\ IsTemp(Temp) /\ call.temp \in Nat
  BY <1>1 DEF IInv, DiskInv, Temp
<1>4. DOMAIN call.sizes = DOMAIN file.data
  BY <1>2
<1>5. call.todo \subseteq DOMAIN file.data \ {""}
  BY <1>2 DEF IsCall
<1>6. Pending = call.todo
  BY <1>1 DEF Pending
<1>7. "" \in Representable(call.sizes)
  BY <1>2, <1>4 DEF Representable
<1>8. dest = None
  BY <1>1 DEF IInv, DataInv
<1>9. /\ \A t \in DOMAIN temps \ (excused \cup {call.temp}) : temps[t].armed
      /\ Temp.armed \/ Claimed
  BY <1>1 DEF IInv, KeepInv, InLoop, InSegments
<1> QED BY <1>1, <1>2, <1>3, <1>4, <1>5, <1>6, <1>7, <1>8, <1>9

\* A named stream is flushed.
LEMMA FlushNamedStep == ASSUME IInv, FlushNamed PROVE IInv'
<1>0. st = "flushed" /\ UNCHANGED <<file, src, snap, enumd, call, ckpt, dest, excused, runs>>
  BY DEF FlushNamed, srcVars
<1>1. CASE Fail("failed")
  BY <1>0, <1>1, FailStep
<1>2. CASE st' = "named" /\ UNCHANGED temps
  <2>1. st' \in Held /\ st' \in Routed /\ st' \notin InLoop /\ st' \notin InSegments
    BY <1>2 DEF Held, Routed, InLoop, InSegments
  <2>2. IsCall(call') /\ call' = call /\ st \in Held /\ st \in Routed /\ call.temp \in DOMAIN temps
        /\ st \notin InSegments /\ st \notin InLoop
    BY <1>0, TailFacts
  <2>3. /\ SourceInv' /\ (Fresh' <=> Fresh) /\ CallInv'
        /\ Representable(call.sizes)' = Representable(call.sizes)
    BY <1>0, <2>1, <2>2, RoutedCall
  <2>4. DiskInv'
    BY <1>0, <1>2, <2>2, DiskSame DEF IInv
  <2>5. KeepInv'
    BY <1>0, <1>2, <2>1, <2>2, KeepSame
  <2>6. CursorInv'
    BY <1>2, <2>1 DEF CursorInv
  <2>7. DataInv'
    <3>1. Pending' = Pending
      BY <1>0, <2>1, <2>2 DEF Pending
    <3> QED BY <1>0, <1>2, <2>1, <2>2, <2>3, <3>1, DataSame
  <2>8. SegmentInv'
    BY <1>0, <2>1, <2>2, HeldPlan
  <2> QED BY <2>3, <2>4, <2>5, <2>6, <2>7, <2>8 DEF IInv
<1> QED BY <1>1, <1>2 DEF FlushNamed

\* After the unnamed stream the source is validated.
LEMMA ReadEndsStep == ASSUME IInv, ReadEnds PROVE IInv'
<1>0. st = "read" /\ UNCHANGED <<file, src, snap, enumd, call, ckpt, dest, excused, runs>>
  BY DEF ReadEnds, srcVars
<1>1. CASE Fail("failed")
  BY <1>0, <1>1, FailStep
<1> DEFINE base == /\ file.dstStreams /\ call.jr /\ Temp.armed
                   /\ \E n \in call.todo : Size(n) >= CkptThreshold
<1>2. CASE st' = (IF base THEN "base" ELSE "named") /\ UNCHANGED temps
  <2>1. st' \in Held /\ st' \in Routed /\ st' \notin InLoop /\ st' \notin InSegments
        /\ st' \in {"base", "named"}
    BY <1>2 DEF Held, Routed, InLoop, InSegments
  <2>2. IsCall(call') /\ call' = call /\ st \in Held /\ st \in Routed /\ call.temp \in DOMAIN temps
        /\ st \notin InSegments /\ st \notin InLoop
    BY <1>0, TailFacts
  <2>3. /\ SourceInv' /\ (Fresh' <=> Fresh) /\ CallInv'
        /\ Representable(call.sizes)' = Representable(call.sizes)
    BY <1>0, <2>1, <2>2, RoutedCall
  <2>4. DiskInv'
    BY <1>0, <1>2, <2>2, DiskSame DEF IInv
  <2>5. KeepInv'
    <3>1. NamedClaimed'
      <4>1. SUFFICES ASSUME st' = "named", call.jr, NEW n \in call.todo, Size(n) >= CkptThreshold
                     PROVE  Claimed'
        BY <1>0, <2>1 DEF NamedClaimed, Size
      <4>2. ~base
        BY <1>2, <4>1
      <4>3. call.todo = {} \/ file.dstStreams
        BY <1>0, TailFacts DEF Representable
      <4>4. ~Temp.armed
        BY <4>1, <4>2, <4>3
      <4> QED BY <1>0, <4>4, TailFacts DEF Claimed
    <3> HIDE DEF base
    <3>2. /\ \A t \in DOMAIN temps' \ (excused \cup {call'.temp}) : temps'[t].armed
          /\ temps'[call'.temp].armed \/ Claimed'
      BY <1>0, <1>2, TailFacts DEF Claimed, Temp
    <3> QED BY <1>0, <2>1, <3>1, <3>2, HeldKeep
  <2>6. CursorInv'
    <3>1. base => call.jr /\ call.hash[""] # None
      <4>1. SUFFICES ASSUME call.jr, NEW n \in call.todo, Size(n) >= CkptThreshold
                     PROVE  call.hash[""] # None
        OBVIOUS
      <4>2. n \in Representable(call.sizes) /\ call.sizes[n] >= CkptThreshold
        BY <1>0, <4>1, TailFacts DEF Size
      <4>3. ShouldHash(call.sizes)
        BY <2>2, <4>1, <4>2 DEF IInv, CallInv, ShouldHash, CheckpointEligible
      <4> QED BY <2>2, <4>3 DEF IInv, CallInv
    <3> HIDE DEF base
    <3> QED BY <1>0, <1>2, <2>1, <3>1 DEF CursorInv
  <2>7. DataInv'
    <3>1. Pending' = Pending
      BY <1>0, <2>1, <2>2 DEF Pending
    <3> HIDE DEF base
    <3> QED BY <1>0, <1>2, <2>1, <2>2, <2>3, <3>1, DataSame
  <2>8. SegmentInv'
    BY <1>0, <2>1, <2>2, HeldPlan
  <2> QED BY <2>3, <2>4, <2>5, <2>6, <2>7, <2>8 DEF IInv
<1> QED BY <1>1, <1>2 DEF ReadEnds

\* The named streams are copied without the journal.
LEMMA BaseDisabled ==
  ASSUME IInv, st \in {"base", "basepersist"}, st' = "named", Disable,
         UNCHANGED <<file, src, snap, enumd, temps, ckpt, dest, excused, runs>>
  PROVE  IInv'
<1>1. st' \in Held /\ st' \in Routed /\ st' \notin InLoop /\ st' \notin InSegments
  BY DEF Held, Routed, InLoop, InSegments
<1>2. st \in Held /\ st \in Routed /\ call.temp \in DOMAIN temps
      /\ st \notin InSegments /\ st \notin InLoop
  BY TailFacts
<1>3. /\ IsCall(call')
      /\ call'.strat = call.strat /\ call'.sizes = call.sizes /\ call'.temp = call.temp
      /\ call'.jr = FALSE
      /\ call'.fork = call.fork /\ call'.pos = call.pos
      /\ call'.hash = call.hash /\ call'.ranges = call.ranges /\ call'.todo = call.todo
      /\ call'.plan = call.plan
  BY TailFacts, Disabled
<1>4. /\ SourceInv' /\ (Fresh' <=> Fresh) /\ CallInv'
      /\ Representable(call.sizes)' = Representable(call.sizes)
  BY <1>1, <1>2, <1>3, RoutedCall
<1>5. DiskInv'
  BY <1>2, <1>3, DiskSame DEF IInv
<1>6. KeepInv'
  <2>1. /\ \A t \in DOMAIN temps' \ (excused \cup {call'.temp}) : temps'[t].armed
        /\ temps'[call'.temp].armed \/ Claimed'
    BY <1>3, TailFacts DEF Claimed, Temp
  <2>2. NamedClaimed'
    BY <1>3 DEF NamedClaimed
  <2> QED BY <1>1, <2>1, <2>2, HeldKeep
<1>7. CursorInv'
  BY <1>1 DEF CursorInv
<1>8. DataInv'
  <2>1. Pending' = Pending
    BY <1>1, <1>2, <1>3 DEF Pending
  <2> QED BY <1>1, <1>2, <1>3, <1>4, <2>1, DataSame
<1>9. SegmentInv'
  BY <1>1, <1>2, <1>3, HeldPlan
<1> QED BY <1>4, <1>5, <1>6, <1>7, <1>8, <1>9 DEF IInv

\* Large named streams get a record of the unnamed one first.
LEMMA BaseCheckpointStep == ASSUME IInv, BaseCheckpoint PROVE IInv'
<1>0. st = "base" /\ UNCHANGED <<file, src, snap, enumd, dest, excused, runs>>
  BY DEF BaseCheckpoint, srcVars
<1>1. CASE Disable /\ st' = "named" /\ UNCHANGED <<ckpt, temps>>
  BY <1>0, <1>1, BaseDisabled
<1>2. CASE AppendRecord("", "basepersist")
  <2>1. call.jr /\ call.hash[""] # None
    BY <1>0 DEF IInv, CursorInv
  <2>2. "" \in DOMAIN file.data /\ "" \in DOMAIN ckpt /\ DOMAIN call.hash = DOMAIN file.data
        /\ IsCall(call) /\ call.temp \in DOMAIN temps
        /\ st \in Held /\ st \in Routed /\ st \notin InSegments /\ st \notin InLoop
    BY <1>0, TailFacts, UnnamedIsNamed DEF IInv, DiskInv
  <2>3. PICK h \in Seq(Nat) : h = call.hash[""]
    BY <2>1, <2>2 DEF IsCall
  <2>4. PICK p \in Nat : p = Len(h)
    OBVIOUS
  <2>5. PICK r : r = Record("", p)
    OBVIOUS
  <2>6. ckpt' = [ckpt EXCEPT ![""] = r] /\ st' = "basepersist" /\ UNCHANGED <<call, temps>>
    BY <1>2, <2>1, <2>3, <2>4, <2>5 DEF AppendRecord
  <2>7. IsRecord(r, "") /\ r # None /\ r.temp = call.temp
    <3>1. ASSUME Fresh PROVE p <= Len(enumd[""]) /\ call.hash[""] = Prefix(enumd[""], p)
      <4>1. Exact("")
        BY <1>0, <3>1, TailFacts DEF IInv, DataInv
      <4>2. h = enumd[""]
        BY <2>1, <2>3, <4>1 DEF Exact
      <4>3. Prefix(h, Len(h)) = h
        BY FilledWhole
      <4>4. p <= p
        OBVIOUS
      <4> QED BY <2>3, <2>4, <4>2, <4>3, <4>4
    <3> QED BY <2>1, <2>2, <2>3, <2>4, <2>5, <3>1, RecordFacts
  <2>8. st' \in Held /\ st' \in Routed /\ st' \notin InLoop /\ st' \notin InSegments
    BY <2>6 DEF Held, Routed, InLoop, InSegments
  <2>9. IsCall(call') /\ call' = call
    BY <2>2, <2>6
  <2>10. /\ SourceInv' /\ (Fresh' <=> Fresh) /\ CallInv'
         /\ Representable(call.sizes)' = Representable(call.sizes)
    BY <1>0, <2>2, <2>8, <2>9, RoutedCall
  <2>11. /\ DOMAIN ckpt' = DOMAIN ckpt /\ ckpt'[""] = r
         /\ \A m \in DOMAIN ckpt \ {""} : ckpt'[m] = ckpt[m]
    BY <2>2, <2>6
  <2>12. DiskInv'
    <3>1. \A m \in DOMAIN ckpt : ckpt'[m] # None => IsRecord(ckpt'[m], m)
      BY <2>7, <2>11 DEF IInv, DiskInv
    <3> QED BY <1>0, <2>2, <2>6, <2>11, <3>1, DiskStep DEF IInv, DiskInv
  <2>13. KeepInv'
    <3>1. Claimed'
      BY <2>6, <2>7, <2>11 DEF Claimed
    <3>2. \A t \in DOMAIN temps' \ (excused \cup {call'.temp}) : temps'[t].armed
      BY <1>0, <2>6, TailFacts
    <3>3. NamedClaimed'
      BY <3>1 DEF NamedClaimed
    <3> QED BY <1>0, <2>8, <3>1, <3>2, <3>3, HeldKeep
  <2>14. CursorInv'
    BY <2>1, <2>6, <2>8 DEF CursorInv
  <2>15. DataInv'
    <3>1. Pending' = Pending
      BY <2>2, <2>6, <2>8 DEF Pending
    <3> QED BY <1>0, <2>2, <2>6, <2>8, <2>10, <3>1, DataSame
  <2>16. SegmentInv'
    BY <1>0, <2>2, <2>6, <2>8, HeldPlan
  <2> QED BY <2>10, <2>12, <2>13, <2>14, <2>15, <2>16 DEF IInv
<1> QED BY <1>1, <1>2 DEF BaseCheckpoint

\* Which lets the temporary outlive the run.
LEMMA BasePersistStep == ASSUME IInv, BasePersist PROVE IInv'
<1>0. st = "basepersist" /\ st' = "named"
      /\ UNCHANGED <<file, src, snap, enumd, ckpt, dest, excused, runs>>
  BY DEF BasePersist, srcVars
<1>1. CASE Disable /\ UNCHANGED temps
  BY <1>0, <1>1, BaseDisabled
<1>2. CASE temps' = [temps EXCEPT ![call.temp].armed = FALSE] /\ UNCHANGED call
  <2>1. st' \in Held /\ st' \in Routed /\ st' \notin InLoop /\ st' \notin InSegments
    BY <1>0 DEF Held, Routed, InLoop, InSegments
  <2>2. IsCall(call') /\ call' = call /\ st \in Held /\ st \in Routed /\ call.temp \in DOMAIN temps
        /\ st \notin InSegments /\ st \notin InLoop
    BY <1>0, <1>2, TailFacts
  <2>3. /\ SourceInv' /\ (Fresh' <=> Fresh) /\ CallInv'
        /\ Representable(call.sizes)' = Representable(call.sizes)
    BY <1>0, <2>1, <2>2, RoutedCall
  <2>4. /\ DOMAIN temps' = DOMAIN temps
        /\ \A y \in DOMAIN temps \ {call.temp} : temps'[y] = temps[y]
        /\ IsTemp(temps'[call.temp]) /\ temps'[call.temp].data = temps[call.temp].data
    BY <1>2, <2>2, TempRearmed DEF IInv
  <2>5. DiskInv'
    BY <1>0, <2>2, <2>4, HeldDisk
  <2>6. KeepInv'
    <3>1. Claimed'
      BY <1>0, <1>2 DEF IInv, KeepInv, Claimed
    <3>2. \A t \in DOMAIN temps' \ (excused \cup {call'.temp}) : temps'[t].armed
      BY <1>0, <2>2, <2>4, TailFacts
    <3>3. NamedClaimed'
      BY <3>1 DEF NamedClaimed
    <3> QED BY <1>0, <2>1, <3>1, <3>2, <3>3, HeldKeep
  <2>7. CursorInv'
    BY <1>0, <2>1 DEF CursorInv
  <2>8. DataInv'
    <3>1. Pending' = Pending
      BY <1>2, <2>1, <2>2 DEF Pending
    <3> QED BY <1>0, <1>2, <2>1, <2>2, <2>3, <2>4, <3>1, DataSame
  <2>9. SegmentInv'
    BY <1>0, <2>1, <2>2, HeldPlan
  <2> QED BY <2>3, <2>5, <2>6, <2>7, <2>8, <2>9 DEF IInv
<1> QED BY <1>1, <1>2 DEF BasePersist

\* The handle still has the enumerated time: what was read is what was enumerated.
LEMMA ValidateStep == ASSUME IInv, Validate PROVE IInv'
<1>0. st = "named" /\ call.todo = {}
      /\ UNCHANGED <<file, src, snap, enumd, call, ckpt, dest, excused, runs>>
  BY DEF Validate, srcVars
<1>1. CASE Fail("failed")
  BY <1>0, <1>1, FailStep
<1>2. CASE HandleUnchanged /\ st' = "commit" /\ UNCHANGED temps
  <2>1. st' \in Held /\ st' \in Routed /\ st' \notin InLoop /\ st' \notin InSegments
    BY <1>2 DEF Held, Routed, InLoop, InSegments
  <2>2. IsCall(call') /\ call' = call /\ st \in Held /\ st \in Routed /\ call.temp \in DOMAIN temps
        /\ st \notin InSegments /\ st \notin InLoop
    BY <1>0, TailFacts
  <2>3. /\ SourceInv' /\ (Fresh' <=> Fresh) /\ CallInv'
        /\ Representable(call.sizes)' = Representable(call.sizes)
    BY <1>0, <2>1, <2>2, RoutedCall
  <2>4. DiskInv'
    BY <1>0, <1>2, <2>2, DiskSame DEF IInv
  <2>5. KeepInv'
    BY <1>0, <1>2, <2>1, <2>2, KeepSame
  <2>6. CursorInv'
    BY <1>2, <2>1 DEF CursorInv
  <2>7. DataInv'
    <3>1. Pending = {} /\ Pending' = {}
      BY <1>0, <2>1, TailFacts DEF Pending
    <3>2. Fresh
      BY <1>2 DEF HandleUnchanged, Fresh
    <3>3. \A n \in Representable(call.sizes) : Exact(n)
      BY <2>2, <3>1, <3>2 DEF IInv, DataInv
    <3>4. DOMAIN Temp.data = Representable(call.sizes)
      <4>1. DOMAIN Temp.data \subseteq Representable(call.sizes)
        BY <1>0, TailFacts DEF IsTemp, Representable
      <4> QED BY <3>3, <4>1 DEF Exact
    <3>5. UNCHANGED Temp
      BY <1>0, <1>2 DEF Temp
    <3>6. \A n : Exact(n) => Exact(n)'
      BY <1>0, <3>5 DEF Exact
    <3>7. \A n \in Representable(call.sizes) : Exact(n)'
      BY <3>3, <3>6
    <3>8. call'.fork \in Representable(call.sizes)'
      BY <1>0, <2>2, <2>3 DEF IInv, DataInv
    <3>9. dest' = None
      BY <1>0, TailFacts
    <3>10. DOMAIN Temp'.data = Representable(call.sizes)'
      BY <2>3, <3>4, <3>5
    <3> QED BY <2>1, <2>3, <3>7, <3>8, <3>9, <3>10 DEF DataInv
  <2>8. SegmentInv'
    BY <1>0, <2>1, <2>2, HeldPlan
  <2> QED BY <2>3, <2>4, <2>5, <2>6, <2>7, <2>8 DEF IInv
<1> QED BY <1>1, <1>2 DEF Validate

\* The rename publishes what the temporary holds.
LEMMA CommitStep == ASSUME IInv, Commit PROVE IInv'
<1>0. st = "commit"
      /\ UNCHANGED <<file, src, snap, enumd, call, ckpt, excused, runs>>
  BY DEF Commit, srcVars
<1>1. CASE Fail("failed") /\ UNCHANGED dest
  BY <1>0, <1>1, FailStep
<1>2. CASE /\ dest' = [data |-> Temp.data, hash |-> call.hash,
                       dropped |-> DOMAIN call.sizes \ Representable(call.sizes)]
           /\ temps' = Restrict(temps, DOMAIN temps \ {call.temp})
           /\ st' = "ok"
  <2>1. st' \in Routed /\ st' \notin Held /\ st' \notin InLoop /\ st' \notin InSegments
    BY <1>2 DEF Held, Routed, InLoop, InSegments
  <2>2. IsCall(call') /\ call' = call /\ st \in Held /\ st \in Routed
    BY <1>0, TailFacts
  <2>3. /\ SourceInv' /\ (Fresh' <=> Fresh) /\ CallInv'
        /\ Representable(call.sizes)' = Representable(call.sizes)
    BY <1>0, <1>2, <2>1, <2>2, RoutedCall
  <2>4. DOMAIN temps' = DOMAIN temps \ {call.temp} /\ \A x \in DOMAIN temps' : temps'[x] = temps[x]
    BY <1>2, TempDropped
  <2>5. DiskInv'
    BY <1>0, <2>1, <2>4, DiskStep DEF IInv, DiskInv
  <2>6. KeepInv'
    <3>1. \A t \in DOMAIN temps' \ excused : temps'[t].armed
      BY <1>0, <2>4, TailFacts
    <3>2. KeptIsClaimed'
      BY <1>0, <3>1 DEF KeptIsClaimed
    <3> QED BY <1>2, <2>1, <3>2 DEF KeepInv, NamedClaimed, Held, InLoop
  <2>7. CursorInv'
    BY <1>2, <2>1 DEF CursorInv
  <2>8. DataInv'
    <3>1. /\ DOMAIN Temp.data = Representable(call.sizes)
          /\ \A n \in DOMAIN Temp.data : Exact(n)
      BY <1>0 DEF IInv, DataInv
    <3>2. PICK d, h, D, R : d = Temp.data /\ h = call.hash /\ D = DOMAIN call.sizes
                            /\ R = Representable(call.sizes)
      OBVIOUS
    <3>3. dest' = [data |-> d, hash |-> h, dropped |-> D \ R]
      BY <1>2, <3>2
    <3>4. dest'.data = d /\ dest'.hash = h /\ dest'.dropped = D \ R
      BY <3>3
    <3>5. DOMAIN d = R /\ \A n \in R : d[n] = enumd[n] /\ h[n] \in {None, enumd[n]}
      BY <3>1, <3>2 DEF Exact
    <3>6. DOMAIN enumd = D
      BY <1>0, <3>2, TailFacts, EnumeratedFacts DEF IInv
    <3>7. PublishedIsEnumerated'
      BY <1>0, <2>3, <3>2, <3>4, <3>5, <3>6 DEF PublishedIsEnumerated
    <3> QED BY <1>2, <2>1, <3>7 DEF DataInv
  <2>9. SegmentInv'
    BY <1>0, <2>1, <2>2, HeldPlan
  <2> QED BY <2>3, <2>5, <2>6, <2>7, <2>8, <2>9 DEF IInv
<1> QED BY <1>1, <1>2 DEF Commit

-----------------------------------------------------------------------------
(* A named stream begins.                                                    *)

\* What holds before a named stream is opened.
LEMMA NamedFacts ==
  ASSUME IInv, st = "named", NEW n \in call.todo
  PROVE  /\ n # "" /\ n \in DOMAIN file.data /\ n \in Names /\ n \in Representable(call.sizes)
         /\ file.dstStreams /\ Size(n) \in Nat /\ Size(n) <= Word
         /\ enumd[n] \in Seq(Nat)
<1>1. n # "" /\ n \in DOMAIN file.data /\ n \in Representable(call.sizes) /\ st \in Routed
      /\ st # "start"
  BY TailFacts
<1>2. file.dstStreams
  BY <1>1 DEF Representable
<1>3. n \in Names
  BY <1>1 DEF IInv, SourceInv, Names
<1> QED BY <1>1, <1>2, <1>3, SizeFacts, EnumeratedFacts DEF IInv

\* The locals without the stream in what is left to do.
Drops(d, n) ==
    /\ IsCall(d)
    /\ d.strat = call.strat /\ d.sizes = call.sizes /\ d.temp = call.temp /\ d.jr = call.jr
    /\ d.hash = call.hash /\ d.ranges = call.ranges /\ d.todo = call.todo \ {n}
    /\ d.plan = call.plan /\ d.opened = call.opened /\ d.hp = call.hp

\* Taking a stream off the list keeps the types.
LEMMA NamedDrops ==
  ASSUME IInv, NEW n, NEW d, d = [call EXCEPT !.todo = @ \ {n}]
  PROVE  Drops(d, n)
<1>1. PICK c : c = call
  OBVIOUS
<1>2. IsCall(c)
  BY <1>1 DEF IInv, CallInv
<1>3. PICK left \in SUBSET (DOMAIN file.data \ {""}) : left = c.todo \ {n}
  BY <1>2 DEF IsCall
<1>4. d = [c EXCEPT !.todo = left]
  BY <1>1, <1>3
<1>5. DOMAIN d = Locals
  BY <1>2, <1>4 DEF IsCall
<1>6. /\ d.strat = c.strat /\ d.sizes = c.sizes /\ d.temp = c.temp /\ d.jr = c.jr
      /\ d.fork = c.fork /\ d.pos = c.pos /\ d.seg = c.seg /\ d.next = c.next
      /\ d.hash = c.hash /\ d.ranges = c.ranges /\ d.todo = left
      /\ d.plan = c.plan /\ d.opened = c.opened /\ d.hp = c.hp
  BY <1>2, <1>4 DEF IsCall, Locals
<1>7. IsCall(d)
  BY <1>2, <1>5, <1>6 DEF IsCall
<1> QED BY <1>1, <1>3, <1>6, <1>7 DEF Drops

\* The locals when a named stream starts.
LEMMA NamedCall ==
  ASSUME NEW n \in DOMAIN file.data, NEW p \in Nat, NEW h \in Seq(Nat) \cup {None}, NEW d,
         Drops(d, n), n \in DOMAIN d.hash, Size(n) \in Nat, p <= Size(n), Size(n) <= Word,
         call' = StartStream(d, n, p, h)
  PROVE  /\ IsCall(call')
         /\ call'.strat = call.strat /\ call'.sizes = call.sizes /\ call'.temp = call.temp
         /\ call'.jr = call.jr /\ call'.fork = n /\ call'.pos = p
         /\ DOMAIN call'.hash = DOMAIN call.hash /\ call'.hash[n] = h
         /\ \A m \in DOMAIN call.hash \ {n} : call'.hash[m] = call.hash[m]
         /\ call'.ranges = call.ranges /\ call'.todo = d.todo
         /\ call'.plan = call.plan /\ call'.opened = call.opened /\ call'.hp = call.hp
         /\ call'.next # None =>
                /\ call.jr /\ Size(n) >= CkptThreshold
                /\ call'.next \in Nat /\ p <= call'.next
                /\ call'.next <= p + CheckpointInterval(Size(n))
<1>1. PICK f : f = call'
  OBVIOUS
<1>2. f = StartStream(d, n, p, h)
  BY <1>1
<1>3. IsCall(d)
  BY DEF Drops
<1>4. /\ IsCall(f)
      /\ f.strat = d.strat /\ f.sizes = d.sizes /\ f.temp = d.temp /\ f.jr = d.jr
      /\ f.fork = n /\ f.pos = p
      /\ DOMAIN f.hash = DOMAIN d.hash /\ f.hash[n] = h
      /\ \A m \in DOMAIN d.hash \ {n} : f.hash[m] = d.hash[m]
      /\ f.ranges = d.ranges /\ f.todo = d.todo
      /\ f.plan = d.plan /\ f.opened = d.opened /\ f.hp = d.hp
      /\ f.next # None =>
             /\ d.jr /\ Size(n) >= CkptThreshold
             /\ f.next \in Nat /\ p <= f.next
             /\ f.next <= p + CheckpointInterval(Size(n))
  BY <1>2, <1>3, Started
<1> QED BY <1>1, <1>4 DEF Drops

\* It is resumed at p, or created and empty, with the digest h.
LEMMA NamedStarts ==
  ASSUME IInv, st = "named", NEW n \in call.todo, NEW p \in Nat, NEW h \in Seq(Nat) \cup {None},
         UNCHANGED <<file, src, snap, enumd, ckpt, dest, excused, runs>>,
         NEW d, Drops(d, n), call' = StartStream(d, n, p, h),
         st' \in {"loop", "rearm"}, p <= Size(n), p <= Mark(n), h # None => Len(h) = p,
         call.jr /\ Size(n) >= CkptThreshold => h # None,
         DOMAIN temps' = DOMAIN temps,
         \A x \in DOMAIN temps \ {call.temp} : temps'[x] = temps[x],
         IsTemp(temps'[call.temp]), n \in DOMAIN temps'[call.temp].data,
         \A m \in DOMAIN Temp.data \ {n} :
            /\ m \in DOMAIN temps'[call.temp].data
            /\ temps'[call.temp].data[m] = temps[call.temp].data[m],
         Fresh => /\ temps'[call.temp].data[n] = Prefix(enumd[n], p)
                  /\ h \in {None, Prefix(enumd[n], p)},
         st' = "loop" => temps'[call.temp].armed \/ Claimed
  PROVE  IInv'
<1>1. /\ n # "" /\ n \in DOMAIN file.data /\ n \in Names /\ n \in Representable(call.sizes)
      /\ Size(n) \in Nat /\ Size(n) <= Word
  BY NamedFacts
<1>2. /\ st \in Held /\ st \in Routed /\ st \notin InLoop /\ st \notin InSegments
      /\ IsCall(call) /\ DOMAIN call.hash = DOMAIN file.data /\ call.temp \in DOMAIN temps
      /\ call.todo \subseteq DOMAIN file.data \ {""} /\ Pending = call.todo /\ dest = None
      /\ \A t \in DOMAIN temps \ (excused \cup {call.temp}) : temps[t].armed
  <2>1. call.todo \subseteq DOMAIN file.data \ {""}
    BY TailFacts
  <2> QED BY <2>1, TailFacts
<1>3. st' \in Held /\ st' \in InLoop /\ st' \in Routed /\ st' \notin InSegments
  BY DEF Held, InLoop, InSegments, Routed
<1>3a. PICK left \in SUBSET (DOMAIN file.data \ {""}) : left = call.todo \ {n}
  BY <1>2
<1>5. /\ IsCall(call')
      /\ call'.strat = call.strat /\ call'.sizes = call.sizes /\ call'.temp = call.temp
      /\ call'.jr = call.jr /\ call'.fork = n /\ call'.pos = p
      /\ DOMAIN call'.hash = DOMAIN call.hash /\ call'.hash[n] = h
      /\ \A m \in DOMAIN call.hash \ {n} : call'.hash[m] = call.hash[m]
      /\ call'.ranges = call.ranges /\ call'.todo = left
      /\ call'.plan = call.plan /\ call'.opened = call.opened /\ call'.hp = call.hp
      /\ call'.next # None =>
             /\ call.jr /\ Size(n) >= CkptThreshold
             /\ call'.next \in Nat /\ p <= call'.next
             /\ call'.next <= p + CheckpointInterval(Size(n))
  <2>1. n \in DOMAIN d.hash /\ d.todo = left
    BY <1>1, <1>2, <1>3a DEF Drops
  <2> QED BY <1>1, <2>1, NamedCall, ZenonT(30)
<1>6. /\ SourceInv' /\ (Fresh' <=> Fresh) /\ CallInv'
      /\ Representable(call.sizes)' = Representable(call.sizes)
  <2>1. call'.hash[""] = call.hash[""] /\ call'.todo \subseteq call.todo
    BY <1>1, <1>2, <1>3a, <1>5, TailFacts
  <2> QED BY <1>2, <1>3, <1>5, <2>1, RoutedCall
<1>7. DiskInv'
  BY <1>2, <1>5, HeldDisk
<1>8. KeepInv'
  <2>1. \A t \in DOMAIN temps' \ (excused \cup {call'.temp}) : temps'[t].armed
    BY <1>2, <1>5
  <2>2. Claimed' <=> Claimed
    BY <1>5 DEF Claimed
  <2>3. NamedClaimed'
    <3>1. SUFFICES ASSUME call.jr, NEW m \in call.todo, Size(m) >= CkptThreshold
                   PROVE  Claimed
      BY <1>3, <1>3a, <1>5, <2>2 DEF NamedClaimed, Size
    <3> QED BY <3>1 DEF IInv, KeepInv, NamedClaimed
  <2> QED BY <1>3, <1>5, <2>1, <2>2, <2>3, HeldKeep
<1>9. CursorInv'
  <2>1. Mark(n)' = Mark(n) /\ Mark(n) \in Nat
    BY <1>1, <1>5, MarkFacts DEF Mark, IInv
  <2>2. /\ call'.hash[n] # None => Len(call'.hash[n]) = p
        /\ call'.next # None => /\ call'.jr /\ Size(n) >= CkptThreshold
                               /\ call'.hash[n] # None
                               /\ call'.next \in Nat /\ p <= call'.next
                               /\ call'.next <= p + CheckpointInterval(Size(n))
    BY <1>5
  <2>3. /\ UNCHANGED <<file, snap, ckpt>> /\ call'.sizes = call.sizes
        /\ call'.fork = n /\ call'.pos = p /\ Size(n) \in Nat
    BY <1>1, <1>5
  <2>4. Mark(n)' \in Nat /\ p <= Mark(n)'
    BY <2>1, Zenon
  <2> QED BY <2>2, <2>3, <2>4, CursorStarts
<1>10. DataInv'
  <2>1. Pending' = Pending
    <3>1. Pending' = call'.todo \cup {call'.fork}
      BY <1>3 DEF Pending
    <3>2. Pending' = left \cup {n}
      BY <1>5, <3>1
    <3> QED BY <1>2, <1>3a, <3>2
  <2>2. Temp' = temps'[call.temp] /\ Temp = temps[call.temp]
    BY <1>5 DEF Temp
  <2>3. Written(call.fork, call.pos)' = Prefix(enumd[n], p)
    <3>1. Written(n, p) = Prefix(enumd[n], p)
      BY <1>1 DEF Written
    <3>2. Written(call.fork, call.pos)' = Written(n, p)
      <4>1. UNCHANGED <<snap, enumd>> /\ call'.strat = call.strat /\ call'.fork = n /\ call'.pos = p
        BY <1>5
      <4> QED BY <4>1, WrittenAt
    <3> QED BY <3>1, <3>2, Zenon
  <2>4. /\ call'.fork \in DOMAIN Temp'.data
        /\ Fresh' => /\ Temp'.data[call'.fork] = Written(call.fork, call.pos)'
                     /\ call'.hash[call'.fork] \in {None, Prefix(enumd'[call'.fork], call'.pos)}
    <3>1. call'.fork = n /\ call'.pos = p /\ enumd' = enumd /\ call'.hash[n] = h
      BY <1>5
    <3>2. /\ n \in DOMAIN Temp'.data
          /\ Fresh => Temp'.data[n] = Prefix(enumd[n], p) /\ h \in {None, Prefix(enumd[n], p)}
      BY <2>2
    <3> QED BY <1>6, <2>3, <3>1, <3>2, Zenon
  <2>5. ASSUME Fresh', NEW m \in Representable(call.sizes)' \ Pending' PROVE Exact(m)'
    <3>1. m # n /\ Exact(m)
      BY <1>2, <1>6, <2>1, <2>5 DEF IInv, DataInv
    <3>2. m \in DOMAIN Temp.data /\ m \in DOMAIN call.hash
      <4>1. DOMAIN Temp.data \subseteq DOMAIN file.data
        BY TailFacts DEF IsTemp
      <4> QED BY <1>2, <3>1, <4>1 DEF Exact
    <3>3. /\ m \in DOMAIN temps'[call.temp].data
          /\ temps'[call.temp].data[m] = temps[call.temp].data[m]
          /\ call'.hash[m] = call.hash[m]
      BY <1>5, <3>1, <3>2
    <3> QED BY <1>5, <3>1, <3>3, ExactFrame
  <2> QED BY <1>1, <1>2, <1>5, <1>6, <2>4, <2>5 DEF DataInv
<1>11. SegmentInv'
  BY <1>2, <1>3, <1>5, HeldPlan
<1> QED BY <1>6, <1>7, <1>8, <1>9, <1>10, <1>11 DEF IInv

\* A named stream is resumed at its record's mark, or created empty.
LEMMA OpenNamedStep == ASSUME IInv, NEW n \in Names, OpenNamed(n) PROVE IInv'
<1>0. st = "named" /\ n \in call.todo
      /\ UNCHANGED <<file, src, snap, enumd, ckpt, dest, excused, runs>>
  BY DEF OpenNamed, srcVars
<1>1. CASE Fail("failed") /\ UNCHANGED call
  BY <1>0, <1>1, FailStep
<1>2. /\ n # "" /\ n \in DOMAIN file.data /\ Size(n) \in Nat /\ enumd[n] \in Seq(Nat)
      /\ file.dstStreams /\ call.temp \in DOMAIN temps /\ IsTemp(Temp)
      /\ (Fresh => src.data = enumd)
  BY <1>0, NamedFacts, TailFacts, EnumeratedFacts DEF IInv
<1>3. CASE /\ NamedResumes(n)
           /\ temps' = [temps EXCEPT ![call.temp].data[n] = Prefix(@, ckpt[n].mark)]
           /\ call' = StartStream([call EXCEPT !.todo = @ \ {n}], n, ckpt[n].mark, ckpt[n].digest)
           /\ st' = "loop"
  <2>1. PICK c : c = ckpt[n]
    OBVIOUS
  <2>2. /\ IsRecord(c, n) /\ c # None /\ c.temp = call.temp /\ c.mtime = snap.mtime
        /\ c.mark <= Size(n) /\ n \in DOMAIN Temp.data
        /\ Len(Temp.data[n]) >= c.mark /\ Prefix(Temp.data[n], c.mark) = c.digest
    BY <1>3, <2>1 DEF NamedResumes, SourceMatches, IInv, DiskInv
  <2>3. PICK p \in Nat, h \in Seq(Nat) : p = c.mark /\ h = c.digest /\ Len(h) = p
    BY <2>2 DEF IsRecord, Checkpoints
  <2>4. h # None
    BY FilesAssumption
  <2>5. PICK t \in DOMAIN temps : t = call.temp
    BY <1>2
  <2>6. temps' = [temps EXCEPT ![t].data[n] = h]
    BY <1>3, <2>1, <2>2, <2>3, <2>5 DEF Temp
  <2>7. n \in DOMAIN temps[t].data
    BY <2>2, <2>5 DEF Temp
  <2>8. /\ DOMAIN temps' = DOMAIN temps
        /\ \A x \in DOMAIN temps \ {t} : temps'[x] = temps[x]
        /\ IsTemp(temps'[t]) /\ temps'[t].armed = temps[t].armed
        /\ DOMAIN temps'[t].data = DOMAIN temps[t].data
        /\ temps'[t].data[n] = h
        /\ \A m \in DOMAIN temps[t].data \ {n} : temps'[t].data[m] = temps[t].data[m]
    BY <2>6, <2>7, TempWritten DEF IInv
  <2>9. Fresh => h = Prefix(enumd[n], p)
    <3>1. Fresh => src.mtime = c.mtime
      BY <2>2 DEF Fresh
    <3> QED BY <1>2, <2>2, <2>3, <3>1 DEF IsRecord
  <2>10. p <= Size(n) /\ p <= Mark(n)
    <3>1. Mark(n) = p
      BY <2>1, <2>2, <2>3 DEF Mark
    <3>2. p <= p
      OBVIOUS
    <3> QED BY <2>2, <2>3, <3>1, <3>2, Zenon
  <2>11. temps'[call.temp].armed \/ Claimed
    BY <1>0, <2>5, <2>8, TailFacts DEF Temp
  <2>12. /\ IsTemp(temps'[call.temp]) /\ n \in DOMAIN temps'[call.temp].data
         /\ \A x \in DOMAIN temps \ {call.temp} : temps'[x] = temps[x]
         /\ \A m \in DOMAIN Temp.data \ {n} :
                /\ m \in DOMAIN temps'[call.temp].data
                /\ temps'[call.temp].data[m] = temps[call.temp].data[m]
         /\ temps'[call.temp].data[n] = h
    BY <2>5, <2>7, <2>8 DEF Temp
  <2>13. PICK d : d = [call EXCEPT !.todo = @ \ {n}]
    OBVIOUS
  <2>14. call' = StartStream(d, n, p, h) /\ Drops(d, n)
    <3>1. call' = StartStream(d, n, p, h)
      BY <1>3, <2>1, <2>3, <2>13
    <3> QED BY <2>13, <3>1, NamedDrops
  <2>15. h \in Seq(Nat) \cup {None} /\ st' \in {"loop", "rearm"}
         /\ (Fresh => /\ temps'[call.temp].data[n] = Prefix(enumd[n], p)
                     /\ h \in {None, Prefix(enumd[n], p)})
    BY <1>3, <2>3, <2>9, <2>12
  <2> QED BY <1>0, <2>3, <2>4, <2>8, <2>10, <2>11, <2>12, <2>14, <2>15, NamedStarts
<1>4. CASE /\ temps' = [temps EXCEPT ![call.temp] =
                            [armed |-> FALSE, data |-> With(@.data, n, << >>)]]
           /\ call' = StartStream([call EXCEPT !.todo = @ \ {n}], n, 0, NamedHash(n))
           /\ st' = IF Temp.armed THEN "rearm" ELSE "loop"
  <2>1. PICK e \in Seq(Nat) : e = << >> /\ Len(e) = 0
    <3>1. PICK e : e = << >>
      OBVIOUS
    <3>2. e \in Seq(Nat) /\ Len(e) = 0
      BY <3>1
    <3> QED BY <3>1, <3>2
  <2>2. PICK t \in DOMAIN temps : t = call.temp
    BY <1>2
  <2>2a. PICK D : D = temps[t].data
    OBVIOUS
  <2>3. PICK F : F = With(D, n, e)
    OBVIOUS
  <2>4. /\ DOMAIN F = DOMAIN D \cup {n} /\ F[n] = e
        /\ \A m \in DOMAIN D \ {n} : F[m] = D[m]
    BY <2>3 DEF With
  <2>5. F = [m \in DOMAIN F |-> F[m]]
    BY <2>3, <2>4 DEF With
  <2>6. PICK r : r = [armed |-> FALSE, data |-> F]
    OBVIOUS
  <2>7. DOMAIN r = {"armed", "data"} /\ r.armed = FALSE /\ r.data = F
    BY <2>6
  <2>8. temps' = [temps EXCEPT ![t] = r]
    BY <1>4, <2>1, <2>2, <2>2a, <2>3, <2>6
  <2>9. IsTemp(r)
    <3>1. /\ D \in [DOMAIN D -> Seq(Nat)] /\ "" \in DOMAIN D /\ DOMAIN D \subseteq DOMAIN file.data
      BY <1>2, <2>2, <2>2a DEF IsTemp, Temp
    <3>2. \A m \in DOMAIN F : F[m] \in Seq(Nat)
      BY <2>1, <2>4, <3>1
    <3>3. F \in [DOMAIN F -> Seq(Nat)]
      BY <2>5, <3>2
    <3> QED BY <1>2, <2>4, <2>7, <3>1, <3>3 DEF IsTemp
  <2>10. /\ DOMAIN temps' = DOMAIN temps /\ temps'[t] = r
         /\ \A x \in DOMAIN temps \ {t} : temps'[x] = temps[x]
    BY <2>2, <2>8
  <2>11. PICK p \in Nat : p = 0 /\ \A m \in Nat : p <= m
    OBVIOUS
  <2>12. PICK h \in Seq(Nat) \cup {None} :
           /\ h = NamedHash(n) /\ h \in {None, e}
           /\ call.jr /\ Size(n) >= CkptThreshold => h # None
    <3>1. NamedHash(n) \in {None, e}
      BY <2>1 DEF NamedHash
    <3>2. e # None
      BY FilesAssumption
    <3>3. call.jr /\ Size(n) >= CkptThreshold => NamedHash(n) = e
      BY <2>1 DEF NamedHash, Eligible
    <3> QED BY <3>1, <3>2, <3>3
  <2>13. p <= Size(n) /\ p <= Mark(n)
    <3>1. Mark(n) \in Nat
      BY MarkFacts DEF IInv
    <3> QED BY <1>2, <2>11, <3>1
  <2>14. Prefix(enumd[n], p) = e
    BY <1>2, <2>1, <2>11, FilledNothing
  <2>15. h # None => Len(h) = p
    BY <2>1, <2>11, <2>12
  <2>16. st' \in {"loop", "rearm"} /\ (st' = "loop" => Claimed)
    BY <1>0, <1>4, TailFacts
  <2>17. /\ IsTemp(temps'[call.temp]) /\ n \in DOMAIN temps'[call.temp].data
         /\ \A x \in DOMAIN temps \ {call.temp} : temps'[x] = temps[x]
         /\ \A m \in DOMAIN Temp.data \ {n} :
                /\ m \in DOMAIN temps'[call.temp].data
                /\ temps'[call.temp].data[m] = temps[call.temp].data[m]
         /\ temps'[call.temp].data[n] = e
    BY <2>2, <2>2a, <2>4, <2>7, <2>9, <2>10 DEF Temp
  <2>18. PICK d : d = [call EXCEPT !.todo = @ \ {n}]
    OBVIOUS
  <2>19. call' = StartStream(d, n, p, h) /\ Drops(d, n)
    <3>1. call' = StartStream(d, n, p, h)
      BY <1>4, <2>11, <2>12, <2>18
    <3> QED BY <2>18, <3>1, NamedDrops
  <2> QED BY <1>0, <2>10, <2>12, <2>13, <2>14, <2>15, <2>16, <2>17, <2>19, NamedStarts
<1> QED BY <1>0, <1>1, <1>3, <1>4 DEF OpenNamed

-----------------------------------------------------------------------------
(* The segments' writers.                                                    *)

\* The ranges of a plan do not reach past the file.
LEMMA PlanBounds ==
  ASSUME IsPlan(call.plan), snap.size \in Nat
  PROVE  /\ Len(call.plan) \in Nat \ {0} /\ Threads = 1 .. Len(call.plan)
         /\ SegmentEnd(Len(call.plan)) = snap.size
         /\ \A k \in Threads :
               /\ call.plan[k][1] \in Nat /\ call.plan[k][2] \in Nat \ {0}
               /\ SegmentEnd(k) \in Nat /\ call.plan[k][1] < SegmentEnd(k)
               /\ SegmentEnd(k) <= snap.size
               /\ k # Len(call.plan) => k + 1 \in Threads /\ SegmentEnd(k) = call.plan[k + 1][1]
<1>1. PICK plan \in Seq(Nat \X Nat) : plan = call.plan
  BY DEF IsPlan
<1>2. PICK N \in Nat \ {0} : N = Len(plan) /\ DOMAIN plan = 1 .. N
  <2>1. Len(plan) \in Nat /\ DOMAIN plan = 1 .. Len(plan)
    OBVIOUS
  <2>2. Len(plan) # 0
    BY <1>1, EmptySeq DEF IsPlan
  <2> QED BY <2>1, <2>2
<1>3. PICK size \in Nat : size = snap.size
  OBVIOUS
<1> DEFINE End(k) == plan[k][1] + plan[k][2]
<1>4. \A k \in 1 .. N : SegmentEnd(k) = End(k)
  BY <1>1 DEF SegmentEnd
<1>5. \A k \in 1 .. N : /\ plan[k][1] \in Nat /\ plan[k][2] \in Nat \ {0}
                       /\ End(k) = IF k = N THEN size ELSE plan[k + 1][1]
  <2>1. \A k \in 1 .. N : plan[k] \in Nat \X Nat
    BY <1>2
  <2>2. \A k \in 1 .. N : plan[k][1] \in Nat /\ plan[k][2] \in Nat
    BY <2>1
  <2>3. \A k \in 1 .. N : plan[k][2] > 0
    BY <1>1, <1>2 DEF IsPlan
  <2>4. \A k \in 1 .. N : End(k) = IF k = N THEN size ELSE plan[k + 1][1]
    BY <1>1, <1>2, <1>3 DEF IsPlan
  <2> QED BY <2>2, <2>3, <2>4
<1>6. \A k \in 1 .. N : End(k) \in Nat /\ plan[k][1] < End(k)
  BY <1>5
<1> HIDE DEF End
<1>7. ASSUME NEW k \in 1 .. N PROVE End(k) <= size
  <2> SUFFICES ASSUME ~(End(k) <= size) PROVE FALSE
    OBVIOUS
  <2> DEFINE T == {d \in 0 .. N : N - d \in 1 .. N /\ ~(End(N - d) <= size)}
  <2>1. N - k \in T /\ T \subseteq Nat
    <3>1. N - k \in 0 .. N /\ N - (N - k) = k
      OBVIOUS
    <3> QED BY <3>1
  <2>2. PICK d \in T : \A e \in T : d <= e
    <3> HIDE DEF T
    <3> QED BY <2>1, LeastNatural
  <2>3. PICK j \in 1 .. N : j = N - d /\ ~(End(j) <= size) /\ d \in 0 .. N
    BY <2>2
  <2>4. j # N
    BY <1>5, <2>3
  <2>5. j + 1 \in 1 .. N /\ End(j) = plan[j + 1][1] /\ plan[j + 1][1] < End(j + 1)
        /\ End(j) \in Nat /\ End(j + 1) \in Nat
    BY <1>5, <1>6, <2>3, <2>4
  <2>6. ~(End(j + 1) <= size)
    BY <2>3, <2>5
  <2>7. N - (d - 1) = j + 1 /\ d - 1 \in 0 .. N
    BY <2>3, <2>4
  <2>8. d - 1 \in T
    BY <2>5, <2>6, <2>7
  <2> QED BY <2>2, <2>3, <2>8, SMTT(30)
<1>8. \A k \in 1 .. N : k # N => k + 1 \in 1 .. N
  BY <1>2
<1>9. Len(call.plan) = N /\ Threads = 1 .. N /\ N \in 1 .. N
  BY <1>1, <1>2 DEF Threads
<1>10. SegmentEnd(N) = snap.size
  BY <1>3, <1>4, <1>5, <1>9
<1>11. ASSUME NEW k \in 1 .. N
       PROVE  /\ call.plan[k][1] \in Nat /\ call.plan[k][2] \in Nat \ {0}
              /\ SegmentEnd(k) \in Nat /\ call.plan[k][1] < SegmentEnd(k)
              /\ SegmentEnd(k) <= snap.size
              /\ k # N => k + 1 \in 1 .. N /\ SegmentEnd(k) = call.plan[k + 1][1]
  BY <1>1, <1>3, <1>4, <1>5, <1>6, <1>7, <1>8
<1> QED BY <1>9, <1>10, <1>11

\* Every unit of the file is in a range.
LEMMA PlanCovers ==
  ASSUME IsPlan(call.plan), snap.size \in Nat, NEW i \in 1 .. snap.size
  PROVE  \E k \in Threads : i \in call.plan[k][1] + 1 .. SegmentEnd(k)
<1>1. PICK N \in Nat \ {0} : N = Len(call.plan)
  BY PlanBounds
<1>2. Threads = 1 .. N /\ SegmentEnd(N) = snap.size
  BY <1>1, PlanBounds
<1> DEFINE T == {k \in 1 .. N : i <= SegmentEnd(k)}
<1>3. N \in T /\ T \subseteq Nat
  BY <1>1, <1>2
<1>4. PICK k \in T : \A j \in T : k <= j
  <2> HIDE DEF T
  <2> QED BY <1>3, LeastNatural
<1>5. k \in Threads /\ i <= SegmentEnd(k) /\ call.plan[k][1] \in Nat /\ SegmentEnd(k) \in Nat
  BY <1>2, <1>4, PlanBounds
<1>6. call.plan[k][1] < i
  <2>1. CASE k = 1
    BY <2>1 DEF IsPlan
  <2>2. CASE k # 1
    <3>1. PICK j \in 1 .. N : j = k - 1 /\ j + 1 = k /\ j # N
      BY <1>4, <2>2
    <3>2. SegmentEnd(j) = call.plan[k][1] /\ SegmentEnd(j) \in Nat
      BY <1>1, <1>2, <3>1, PlanBounds
    <3>3. j \notin T
      BY <1>4, <3>1
    <3>4. ~(i <= SegmentEnd(j))
      BY <3>3
    <3> QED BY <3>2, <3>4
  <2> QED BY <2>1, <2>2
<1> QED BY <1>5, <1>6

\* What holds among the segments.
LEMMA SegmentFacts ==
  ASSUME IInv, st \in InSegments
  PROVE  /\ st \in Held /\ st \in Routed /\ st \notin InLoop /\ st # "start"
         /\ IsCall(call) /\ call.temp \in DOMAIN temps /\ IsTemp(Temp)
         /\ call.strat = "segmented" /\ IsPlan(call.plan) /\ snap.size \in Nat
         /\ DOMAIN file.data = {""} /\ file.transport \in {"wsl_src", "wsl_dst"}
         /\ DOMAIN call.hash = {""} /\ call.hash[""] \in Seq(Nat) \cup {None}
         /\ Representable(call.sizes) = {""} /\ call.todo = {} /\ call.fork = "" /\ dest = None
         /\ \A t \in DOMAIN temps \ (excused \cup {call.temp}) : temps[t].armed
         /\ st # "writer" => Temp.armed \/ Claimed
         /\ "" \in DOMAIN Temp.data /\ Temp.data[""] \in Seq(Nat)
         /\ Len(Temp.data[""]) \in Nat /\ Len(Temp.data[""]) <= snap.size
<1>1. st \in Held /\ st \in Routed /\ st \notin InLoop /\ st # "start" /\ Listed /\ st # "rearm"
  BY DEF Held, Routed, InLoop, InSegments, Listed
<1>2. /\ call.strat = "segmented" /\ IsPlan(call.plan)
      /\ DOMAIN file.data = {""} /\ file.transport \in {"wsl_src", "wsl_dst"}
      /\ Len(Temp.data[""]) <= snap.size
  BY <1>1 DEF IInv, SegmentInv
<1>3. /\ IsCall(call) /\ DOMAIN call.hash = DOMAIN file.data
      /\ call.sizes \in [DOMAIN file.data -> Nat]
  BY <1>1 DEF IInv, CallInv
<1>4. call.hash[""] \in Seq(Nat) \cup {None} /\ call.todo \subseteq {} /\ call.fork = ""
  BY <1>2, <1>3 DEF IsCall
<1>5. DOMAIN call.sizes = {""}
  BY <1>2, <1>3
<1>6. Representable(call.sizes) = {""}
  BY <1>5 DEF Representable
<1>7. call.temp \in DOMAIN temps /\ IsTemp(Temp)
  BY <1>1 DEF IInv, DiskInv, Temp
<1>8. "" \in DOMAIN Temp.data /\ Temp.data[""] \in Seq(Nat)
  BY <1>7 DEF IsTemp
<1>9. Len(Temp.data[""]) \in Nat
  BY <1>8, LenProperties
<1>10. /\ \A t \in DOMAIN temps \ (excused \cup {call.temp}) : temps[t].armed
       /\ st # "writer" => Temp.armed \/ Claimed
  BY <1>1 DEF IInv, KeepInv
<1>11. dest = None /\ snap.size \in Nat
  BY <1>1, EnumeratedFacts DEF IInv, DataInv, InSegments
<1> QED BY <1>1, <1>2, <1>3, <1>4, <1>6, <1>7, <1>8, <1>9, <1>10, <1>11

\* A step that stays among them.
LEMMA SegmentStep ==
  ASSUME IInv, st \in InSegments, st' \in InSegments,
         UNCHANGED <<file, src, snap, enumd, ckpt, dest, excused, runs>>,
         IsCall(call'), call'.jr = call.jr, call'.sizes = call.sizes, call'.strat = call.strat,
         call'.temp = call.temp, call'.fork = call.fork, call'.ranges = call.ranges,
         call'.todo = call.todo,
         DOMAIN call'.hash = DOMAIN call.hash, call.hash[""] # None => call'.hash[""] # None,
         DOMAIN temps' = DOMAIN temps,
         \A x \in DOMAIN temps \ {call.temp} : temps'[x] = temps[x],
         IsTemp(temps'[call.temp]),
         st' # "writer" => temps'[call.temp].armed \/ Claimed,
         SegmentInv'
  PROVE  IInv'
<1>1. /\ st \in Held /\ st \in Routed /\ st' \in Held /\ st' \in Routed /\ st' \notin InLoop
      /\ st' \notin {"persist", "basepersist", "named", "flushed", "commit", "rearm",
                     "append", "move", "base"}
  BY SegmentFacts DEF Held, Routed, InLoop, InSegments
<1>2. /\ SourceInv' /\ (Fresh' <=> Fresh) /\ CallInv'
      /\ Representable(call.sizes)' = Representable(call.sizes)
  BY <1>1, RoutedCall
<1>3. DiskInv'
  BY <1>1, HeldDisk
<1>4. KeepInv'
  <2>1. \A t \in DOMAIN temps' \ (excused \cup {call'.temp}) : temps'[t].armed
    BY SegmentFacts
  <2>2. (Claimed' <=> Claimed) /\ NamedClaimed'
    BY <1>1 DEF Claimed, NamedClaimed
  <2> QED BY <1>1, <2>1, <2>2, HeldKeep
<1>5. CursorInv'
  BY <1>1 DEF CursorInv, InLoop
<1>6. DataInv'
  <2>1. Pending' = {""} /\ Representable(call.sizes)' = {""}
    BY <1>1, <1>2, SegmentFacts DEF Pending
  <2>2. call'.fork \in Representable(call.sizes)' /\ dest' = None
    BY <2>1, SegmentFacts
  <2> QED BY <1>1, <2>1, <2>2 DEF DataInv
<1> QED BY <1>2, <1>3, <1>4, <1>5, <1>6 DEF IInv

\* A writer more, or the threads start with nothing done.
LEMMA OpenWriterStep == ASSUME IInv, OpenWriter PROVE IInv'
<1>0. st = "writers" /\ st \in InSegments
      /\ UNCHANGED <<file, src, snap, enumd, ckpt, dest, excused, runs>>
  BY DEF OpenWriter, InSegments, srcVars
<1>1. CASE Fail("failed") /\ UNCHANGED call
  BY <1>0, <1>1, FailStep
<1>2. /\ call.opened <= Len(call.plan) /\ call.opened \in Nat /\ call.hp = 0
      /\ call.hash[""] \in {<< >>, None}
      /\ Len(call.plan) \in Nat /\ IsPlan(call.plan) /\ snap.size \in Nat
  BY <1>0, SegmentFacts, PlanBounds DEF IInv, SegmentInv, IsCall
<1>2a. PICK o \in Nat, N \in Nat : o = call.opened /\ N = Len(call.plan)
  BY <1>2
<1>3. CASE /\ call.opened < Len(call.plan)
           /\ temps' = [temps EXCEPT ![call.temp].armed = FALSE]
           /\ call' = [call EXCEPT !.opened = @ + 1]
           /\ st' = "writer"
  <2>1. /\ DOMAIN temps' = DOMAIN temps
        /\ \A x \in DOMAIN temps \ {call.temp} : temps'[x] = temps[x]
        /\ IsTemp(temps'[call.temp]) /\ temps'[call.temp].data = temps[call.temp].data
    BY <1>0, <1>3, SegmentFacts, TempRearmed DEF IInv
  <2>2. /\ IsCall(call')
        /\ call'.strat = call.strat /\ call'.sizes = call.sizes /\ call'.temp = call.temp
        /\ call'.jr = call.jr /\ call'.fork = call.fork
        /\ call'.hash = call.hash /\ call'.ranges = call.ranges /\ call'.todo = call.todo
        /\ call'.plan = call.plan /\ call'.opened = call.opened + 1 /\ call'.hp = call.hp
    <3>1. PICK n \in Nat : n = call.opened + 1
      <4>1. o + 1 \in Nat /\ o + 1 = call.opened + 1
        BY <1>2a
      <4> QED BY <4>1
    <3>2. PICK c : c = call
      OBVIOUS
    <3>3. call' = [c EXCEPT !.opened = n] /\ IsCall(c)
      BY <1>0, <1>3, <3>1, <3>2, SegmentFacts
    <3>4. /\ IsCall(call')
          /\ call'.strat = c.strat /\ call'.sizes = c.sizes /\ call'.temp = c.temp
          /\ call'.jr = c.jr /\ call'.fork = c.fork
          /\ call'.hash = c.hash /\ call'.ranges = c.ranges /\ call'.todo = c.todo
          /\ call'.plan = c.plan /\ call'.opened = n /\ call'.hp = c.hp
      BY <3>3, CallOpened
    <3> QED BY <3>1, <3>2, <3>4
  <2>3. st' \in InSegments
    BY <1>3 DEF InSegments
  <2>4. SegmentInv'
    <3>1. IsPlan(call.plan)'
      BY <1>0, <1>2, <2>2 DEF IsPlan
    <3>2. Temp'.data = Temp.data
      BY <2>1, <2>2 DEF Temp
    <3>3. call'.opened <= Len(call'.plan)
      <4>1. o < N
        BY <1>2a, <1>3
      <4>2. o + 1 <= N
        BY <4>1
      <4> QED BY <1>2a, <2>2, <4>2
    <3> QED BY <1>0, <1>2, <1>3, <2>2, <3>1, <3>2, <3>3, SegmentFacts DEF SegmentInv
  <2> QED BY <1>0, <1>3, <2>1, <2>2, <2>3, <2>4, SegmentStep
<1>4. CASE /\ th' = [k \in Threads |-> [at |-> "open", pos |-> call.plan[k][1]]]
           /\ stop' = FALSE /\ firstErr' = FALSE
           /\ st' = "segments"
           /\ UNCHANGED <<temps, call>>
  <2>1. st' \in InSegments /\ IsCall(call') /\ call' = call /\ IsTemp(temps'[call.temp])
        /\ (temps'[call.temp].armed \/ Claimed)
    BY <1>0, <1>4, SegmentFacts DEF InSegments, Temp
  <2>2. Threads' = Threads /\ DOMAIN th' = Threads /\ Temp' = Temp
    BY <1>4 DEF Threads, Temp
  <2>3. ASSUME NEW k \in Threads PROVE ThreadInv(k)'
    <3>1. PICK p \in Nat : p = call.plan[k][1]
      BY <1>2, <2>3, PlanBounds
    <3>2. PICK r : r = th'[k]
      OBVIOUS
    <3>3. DOMAIN r = {"at", "pos"} /\ r.at = "open" /\ r.pos = p
      BY <1>4, <2>3, <3>1, <3>2
    <3>4. SegmentEnd(k)' = SegmentEnd(k) /\ p \in p .. SegmentEnd(k) /\ ~(p > p)
          /\ \A i \in p + 1 .. p : FALSE
      <4>1. SegmentEnd(k) \in Nat /\ p < SegmentEnd(k)
        BY <1>2, <2>3, <3>1, PlanBounds
      <4>2. SegmentEnd(k)' = SegmentEnd(k)
        BY <1>4 DEF SegmentEnd
      <4> QED BY <4>1, <4>2
    <3>5. call'.plan[k][1] = p
      BY <2>1, <3>1
    <3> QED BY <3>2, <3>3, <3>4, <3>5 DEF ThreadInv
  <2>4. SegmentInv'
    <3>1. IsPlan(call.plan)'
      BY <1>0, <1>2, <1>4 DEF IsPlan
    <3>2. call'.hp <= snap'.size
      <4>1. PICK size \in Nat : size = snap.size
        BY <1>2
      <4>2. 0 <= size
        OBVIOUS
      <4> QED BY <1>0, <1>2, <1>4, <4>1, <4>2, Zenon
    <3>3. call.hash[""] # None => call.hash[""] = Prefix(enumd[""], call.hp)
      BY <1>0, <1>2, SegmentFacts, EnumeratedFacts, FilledNothing DEF IInv
    <3>4. (HashesSource /\ Fresh)' => call'.hash[""] = Prefix(enumd'[""], call'.hp)
      BY <1>0, <1>4, <3>3 DEF HashesSource
    <3> QED BY <1>0, <1>4, <2>2, <2>3, <3>1, <3>2, <3>4, SegmentFacts DEF SegmentInv
  <2> QED BY <1>0, <1>4, <2>1, <2>4, SegmentStep
<1> QED BY <1>1, <1>3, <1>4 DEF OpenWriter

\* The temporary is armed again between two writers, or excused.
LEMMA RearmWriterStep == ASSUME IInv, RearmWriter PROVE IInv'
<1>0. st = "writer" /\ Rearm("writers") /\ st \in InSegments
      /\ UNCHANGED <<file, src, snap, enumd, call, ckpt, dest, runs>>
  BY DEF RearmWriter, InSegments, srcVars
<1>1. CASE st' = "failed" /\ excused' = excused \cup {call.temp} /\ UNCHANGED temps
  BY <1>0, <1>1, LeftBehind
<1>2. CASE temps' = [temps EXCEPT ![call.temp].armed = TRUE] /\ st' = "writers" /\ UNCHANGED excused
  <2>1. /\ DOMAIN temps' = DOMAIN temps
        /\ \A x \in DOMAIN temps \ {call.temp} : temps'[x] = temps[x]
        /\ IsTemp(temps'[call.temp]) /\ temps'[call.temp].data = temps[call.temp].data
        /\ temps'[call.temp].armed = TRUE
    BY <1>0, <1>2, SegmentFacts, TempRearmed DEF IInv
  <2>2. IsCall(call') /\ call' = call /\ st' \in InSegments
    BY <1>0, <1>2, SegmentFacts DEF InSegments
  <2>3. SegmentInv'
    <3>1. IsPlan(call.plan)'
      BY <1>0, SegmentFacts DEF IsPlan
    <3>2. Temp'.data = Temp.data
      BY <1>0, <2>1 DEF Temp
    <3>3. call.opened <= Len(call.plan) /\ call.hp = 0 /\ call.hash[""] \in {<< >>, None}
      BY <1>0 DEF IInv, SegmentInv
    <3> QED BY <1>0, <1>2, <3>1, <3>2, <3>3, SegmentFacts DEF SegmentInv
  <2> QED BY <1>0, <1>2, <2>1, <2>2, <2>3, SegmentStep
<1> QED BY <1>0, <1>1, <1>2 DEF Rearm

-----------------------------------------------------------------------------
(* The segments.                                                             *)

\* The ranges of a plan do not overlap.
LEMMA PlanDisjoint ==
  ASSUME IsPlan(call.plan), snap.size \in Nat, NEW j \in Threads, NEW k \in Threads, j < k
  PROVE  SegmentEnd(j) <= call.plan[k][1]
<1>1. PICK N \in Nat \ {0} : N = Len(call.plan)
  BY PlanBounds
<1>2. Threads = 1 .. N
  BY <1>1, PlanBounds
<1> DEFINE T == {m \in j + 1 .. N : ~(SegmentEnd(j) <= call.plan[m][1])}
<1>3. SUFFICES ASSUME T # {} PROVE FALSE
  <2>1. k \in j + 1 .. N
    BY <1>2
  <2> QED BY <2>1
<1>4. PICK m \in T : \A x \in T : m <= x
  <2>1. T \subseteq Nat
    BY <1>2
  <2> HIDE DEF T
  <2> QED BY <1>3, <2>1, LeastNatural
<1>5. m \in j + 1 .. N /\ ~(SegmentEnd(j) <= call.plan[m][1]) /\ SegmentEnd(j) \in Nat
  BY <1>4, PlanBounds
<1>6. j # N /\ SegmentEnd(j) = call.plan[j + 1][1]
  <2>1. j # N
    BY <1>2
  <2> QED BY <1>1, <2>1, PlanBounds
<1>7. m # j + 1
  BY <1>5, <1>6
<1>8. PICK h \in Threads : h = m - 1 /\ h + 1 = m /\ h # N /\ h \in j + 1 .. N
  BY <1>2, <1>5, <1>7
<1>9. h \notin T
  BY <1>4, <1>8
<1>10. SegmentEnd(j) <= call.plan[h][1]
  BY <1>8, <1>9
<1>11. /\ call.plan[h][1] \in Nat /\ SegmentEnd(h) \in Nat /\ call.plan[h][1] < SegmentEnd(h)
       /\ SegmentEnd(h) = call.plan[m][1]
  BY <1>1, <1>8, PlanBounds
<1> QED BY <1>5, <1>10, <1>11

\* Where a thread stands.
LEMMA ThreadFacts ==
  ASSUME IInv, st = "segments", NEW k \in Threads
  PROVE  /\ st \in InSegments /\ DOMAIN th = Threads /\ ThreadInv(k)
         /\ DOMAIN th[k] = {"at", "pos"} /\ th[k].at \in {"open", "copy", "done"}
         /\ call.plan[k][1] \in Nat /\ SegmentEnd(k) \in Nat /\ SegmentEnd(k) <= snap.size
         /\ th[k].pos \in Nat /\ call.plan[k][1] <= th[k].pos /\ th[k].pos <= SegmentEnd(k)
         /\ stop \in BOOLEAN /\ stop = firstErr
<1>1. st \in InSegments /\ IsPlan(call.plan) /\ snap.size \in Nat
  BY SegmentFacts DEF InSegments
<1>2. DOMAIN th = Threads /\ ThreadInv(k) /\ stop \in BOOLEAN /\ stop = firstErr
  BY DEF IInv, SegmentInv
<1>3. call.plan[k][1] \in Nat /\ SegmentEnd(k) \in Nat /\ SegmentEnd(k) <= snap.size
  BY <1>1, PlanBounds
<1>4. DOMAIN th[k] = {"at", "pos"} /\ th[k].at \in {"open", "copy", "done"}
      /\ th[k].pos \in call.plan[k][1] .. SegmentEnd(k)
  BY <1>2 DEF ThreadInv
<1> QED BY <1>1, <1>2, <1>3, <1>4

\* A recorded error stays.
ErrorStays == firstErr => firstErr'

\* The temporary is not shorter, and keeps its units: those of a range, or all but
\* those the thread has still to write.
Extended == /\ Len(Temp'.data[""]) \in Nat
            /\ Len(Temp.data[""]) <= Len(Temp'.data[""])
            /\ Len(Temp'.data[""]) <= snap.size
Kept(i) == Temp'.data[""][i] = Temp.data[""][i]
RangeKept(k) ==
    \A i \in 1 .. Len(Temp.data[""]) : i \in call.plan[k][1] + 1 .. SegmentEnd(k) => Kept(i)
RestKept(k) ==
    \A i \in 1 .. Len(Temp.data[""]) : i \notin th[k].pos + 1 .. SegmentEnd(k) => Kept(i)

\* A thread keeps what it wrote when its units stay.
LEMMA ThreadKept ==
  ASSUME IInv, st = "segments", NEW k \in Threads,
         UNCHANGED <<src, snap, enumd, call>>, th'[k] = th[k], ErrorStays,
         Extended, RangeKept(k)
  PROVE  ThreadInv(k)'
<1>1. PICK r, s, d : r = th[k] /\ s = Temp.data[""] /\ d = Temp'.data[""]
  OBVIOUS
<1>2. PICK a \in Nat, b \in Nat, n \in Nat, m \in Nat :
        a = call.plan[k][1] /\ b = SegmentEnd(k) /\ n = Len(s) /\ m = Len(d)
  BY <1>1, ThreadFacts, SegmentFacts DEF Extended
<1>3. /\ DOMAIN r = {"at", "pos"} /\ r.at \in {"open", "copy", "done"}
      /\ r.pos \in a .. b
      /\ r.at = "done" /\ ~firstErr => r.pos = b
      /\ r.pos > a => n >= r.pos
      /\ Fresh => \A i \in a + 1 .. r.pos : s[i] = enumd[""][i]
  BY <1>1, <1>2, ThreadFacts DEF ThreadInv
<1>3a. PICK q \in a .. b : q = r.pos
  BY <1>3
<1>4. n <= m /\ (q > a => m >= q)
  <2>1. n <= m
    BY <1>1, <1>2 DEF Extended
  <2>2. q > a => n >= q
    BY <1>3, <1>3a
  <2> QED BY <1>2, <1>3a, <2>1, <2>2
<1>5. ASSUME Fresh, NEW i \in a + 1 .. q PROVE d[i] = enumd[""][i]
  <2>1. q > a /\ i <= q /\ i \in Nat /\ a + 1 <= i
    BY <1>2, <1>3a, <1>5
  <2>2. q <= n
    BY <1>3, <1>3a, <2>1
  <2>3. i \in 1 .. n /\ i \in a + 1 .. b
    BY <1>2, <1>3a, <2>1, <2>2
  <2>4. d[i] = s[i]
    BY <1>1, <1>2, <2>3 DEF RangeKept, Kept
  <2> QED BY <1>3, <1>3a, <1>5, <2>4
<1>6. /\ SegmentEnd(k)' = b /\ call'.plan[k][1] = a /\ th'[k] = r /\ enumd' = enumd
      /\ (Fresh' <=> Fresh) /\ Temp'.data[""] = d /\ (~firstErr' => ~firstErr)
  BY <1>1, <1>2 DEF SegmentEnd, Fresh, ErrorStays
<1>7. /\ r.at = "done" /\ ~firstErr' => r.pos = b
      /\ r.pos > a => Len(d) >= r.pos
      /\ Fresh' => \A i \in a + 1 .. r.pos : d[i] = enumd'[""][i]
  BY <1>2, <1>3, <1>3a, <1>4, <1>5, <1>6
<1> QED BY <1>3, <1>6, <1>7 DEF ThreadInv

\* One thread makes a step.
LEMMA ThreadStep ==
  ASSUME IInv, st = "segments", st' = st, NEW k \in Threads,
         UNCHANGED <<file, src, snap, enumd, call, ckpt, dest, excused, runs>>,
         DOMAIN th' = DOMAIN th, \A j \in Threads \ {k} : th'[j] = th[j],
         stop' \in BOOLEAN, stop' = firstErr', ErrorStays,
         DOMAIN temps' = DOMAIN temps,
         \A x \in DOMAIN temps \ {call.temp} : temps'[x] = temps[x],
         IsTemp(temps'[call.temp]), temps'[call.temp].armed = temps[call.temp].armed,
         Extended, RestKept(k),
         ThreadInv(k)'
  PROVE  IInv'
<1>1. st \in InSegments /\ st' \in InSegments
  BY DEF InSegments
<1>2. IsPlan(call.plan) /\ snap.size \in Nat /\ DOMAIN th = Threads /\ Len(Temp.data[""]) \in Nat
  BY <1>1, SegmentFacts, ThreadFacts
<1>3. ASSUME NEW j \in Threads \ {k} PROVE ThreadInv(j)'
  <2>1. /\ call.plan[j][1] \in Nat /\ SegmentEnd(j) \in Nat /\ call.plan[k][1] \in Nat
        /\ SegmentEnd(k) \in Nat /\ th[k].pos \in Nat /\ call.plan[k][1] <= th[k].pos
    BY ThreadFacts
  <2>2. SegmentEnd(j) <= call.plan[k][1] \/ SegmentEnd(k) <= call.plan[j][1]
    <3>1. PICK N \in Nat : Threads = 1 .. N
      BY <1>2, PlanBounds
    <3>2. PICK x \in 1 .. N, y \in 1 .. N : x = j /\ y = k /\ x # y
      BY <3>1
    <3>3. x < y \/ y < x
      BY <3>2
    <3> QED BY <1>2, <3>2, <3>3, PlanDisjoint
  <2>3. RangeKept(j)
    <3>1. PICK a \in Nat, b \in Nat, e \in Nat, p \in Nat, q \in Nat, n \in Nat :
            /\ a = call.plan[j][1] /\ b = SegmentEnd(j) /\ e = SegmentEnd(k)
            /\ p = call.plan[k][1] /\ q = th[k].pos /\ n = Len(Temp.data[""])
      BY <1>2, <2>1
    <3>2. p <= q /\ (b <= p \/ e <= a)
      BY <2>1, <2>2, <3>1
    <3>3. \A i \in 1 .. n : i \in a + 1 .. b => i \notin q + 1 .. e
      BY <3>2
    <3>4. \A i \in 1 .. n : i \notin q + 1 .. e => Kept(i)
      BY <3>1 DEF RestKept
    <3>5. \A i \in 1 .. n : i \in a + 1 .. b => Kept(i)
      BY <3>3, <3>4
    <3> QED BY <3>1, <3>5 DEF RangeKept
  <2> QED BY <1>3, <2>3, ThreadKept
<1>4. SegmentInv'
  <2>1. IsPlan(call.plan)' /\ Threads' = Threads
    BY <1>2 DEF IsPlan, Threads
  <2>2. /\ call'.hp <= snap'.size
        /\ (HashesSource /\ Fresh)' => call'.hash[""] = Prefix(enumd'[""], call'.hp)
    BY DEF IInv, SegmentInv, HashesSource, Fresh
  <2>3. \A j \in Threads : ThreadInv(j)'
    BY <1>3
  <2> QED BY <1>1, <1>2, <2>1, <2>2, <2>3, SegmentFacts DEF SegmentInv, Extended
<1>5. IsCall(call') /\ call' = call /\ (temps'[call.temp].armed \/ Claimed)
  BY <1>1, SegmentFacts DEF Temp
<1> QED BY <1>1, <1>4, <1>5, SegmentStep

\* A thread goes on or ends without a write.
LEMMA ThreadMarked ==
  ASSUME IInv, st = "segments", st' = st, NEW k \in Threads, NEW x \in {"copy", "done"},
         th' = [th EXCEPT ![k].at = x],
         UNCHANGED <<file, src, snap, enumd, call, temps, ckpt, dest, excused, runs>>,
         \/ UNCHANGED <<stop, firstErr>> /\ (x = "done" => stop \/ th[k].pos = SegmentEnd(k))
         \/ RecordSegmentError
  PROVE  IInv'
<1>1. st \in InSegments /\ DOMAIN th = Threads /\ DOMAIN th[k] = {"at", "pos"}
  BY ThreadFacts
<1>2. PICK r, u : r = th[k] /\ u = th'[k]
  OBVIOUS
<1>3. DOMAIN u = {"at", "pos"} /\ u.at = x /\ u.pos = r.pos
  BY <1>1, <1>2
<1>4. DOMAIN th' = DOMAIN th /\ \A j \in Threads \ {k} : th'[j] = th[j]
  BY <1>1
<1>5. /\ stop' \in BOOLEAN /\ stop' = firstErr' /\ ErrorStays
      /\ x = "done" => firstErr' \/ r.pos = SegmentEnd(k)
  <2>1. stop \in BOOLEAN /\ stop = firstErr
    BY ThreadFacts
  <2>2. CASE UNCHANGED <<stop, firstErr>> /\ (x = "done" => stop \/ th[k].pos = SegmentEnd(k))
    BY <1>2, <2>1, <2>2 DEF ErrorStays
  <2>3. CASE RecordSegmentError
    BY <2>3 DEF RecordSegmentError, ErrorStays
  <2> QED BY <2>2, <2>3
<1>6. Temp' = Temp
  BY DEF Temp
<1>7. Extended /\ RestKept(k)
  <2>1. PICK n \in Nat : n = Len(Temp.data[""]) /\ n <= snap.size
    BY <1>1, SegmentFacts
  <2>2. n <= n
    OBVIOUS
  <2>3. Extended
    BY <1>6, <2>1, <2>2, Zenon DEF Extended
  <2>4. RestKept(k)
    BY <1>6 DEF RestKept, Kept
  <2> QED BY <2>3, <2>4
<1>8. ThreadInv(k)'
  <2>1. /\ SegmentEnd(k)' = SegmentEnd(k) /\ call'.plan[k][1] = call.plan[k][1] /\ enumd' = enumd
        /\ (Fresh' <=> Fresh)
    BY DEF SegmentEnd, Fresh
  <2>2. /\ r.pos \in call.plan[k][1] .. SegmentEnd(k)
        /\ r.pos > call.plan[k][1] => Len(Temp.data[""]) >= r.pos
        /\ Fresh => \A i \in call.plan[k][1] + 1 .. r.pos : Temp.data[""][i] = enumd[""][i]
    BY <1>2, ThreadFacts DEF ThreadInv
  <2>3. u.at \in {"open", "copy", "done"} /\ (u.at = "done" /\ ~firstErr' => u.pos = SegmentEnd(k))
    BY <1>3, <1>5
  <2>4. /\ u.pos \in call'.plan[k][1] .. SegmentEnd(k)'
        /\ u.pos > call'.plan[k][1] => Len(Temp'.data[""]) >= u.pos
        /\ Fresh' => \A i \in call'.plan[k][1] + 1 .. u.pos : Temp'.data[""][i] = enumd'[""][i]
    BY <1>3, <1>6, <2>1, <2>2, Zenon
  <2> QED BY <1>2, <1>3, <2>1, <2>3, <2>4 DEF ThreadInv
<1>9. /\ IsTemp(temps'[call.temp]) /\ temps'[call.temp].armed = temps[call.temp].armed
      /\ DOMAIN temps' = DOMAIN temps /\ \A y \in DOMAIN temps \ {call.temp} : temps'[y] = temps[y]
  BY <1>1, SegmentFacts DEF Temp
<1> QED BY <1>4, <1>5, <1>7, <1>8, <1>9, ThreadStep

\* A thread opens its handle, or records an error.
LEMMA SegmentOpenStep ==
  ASSUME IInv, NEW k \in DOMAIN th, SegmentOpen(k) PROVE IInv'
<1>1. st = "segments" /\ st' = st
      /\ UNCHANGED <<file, src, snap, enumd, call, temps, ckpt, dest, excused, runs>>
  BY DEF SegmentOpen, srcVars, diskVars
<1>2. k \in Threads
  BY <1>1 DEF IInv, SegmentInv
<1>3. \/ th' = [th EXCEPT ![k].at = "copy"] /\ UNCHANGED <<stop, firstErr>>
      \/ th' = [th EXCEPT ![k].at = "done"] /\ RecordSegmentError
  BY DEF SegmentOpen
<1> QED BY <1>1, <1>2, <1>3, ThreadMarked

\* A thread ends at the end of its range, or after an error.
LEMMA SegmentDoneStep ==
  ASSUME IInv, NEW k \in DOMAIN th, SegmentDone(k) PROVE IInv'
<1>1. st = "segments" /\ st' = st /\ th' = [th EXCEPT ![k].at = "done"]
      /\ UNCHANGED <<file, src, snap, enumd, call, temps, ckpt, dest, excused, runs>>
  BY DEF SegmentDone, srcVars, diskVars
<1>2. k \in Threads
  BY <1>1 DEF IInv, SegmentInv
<1>3. \/ UNCHANGED <<stop, firstErr>> /\ (stop \/ th[k].pos = SegmentEnd(k))
      \/ RecordSegmentError
  BY DEF SegmentDone
<1> QED BY <1>1, <1>2, <1>3, ThreadMarked

\* What a write of the units after p up to q leaves, and what it adds.
Rewritten(s, e, p, q, w) ==
    /\ w \in Seq(Nat) /\ Len(w) = IF Len(s) >= q THEN Len(s) ELSE q
    /\ \A i \in 1 .. Len(s) : i \notin p + 1 .. q => w[i] = s[i]
    /\ \A i \in p + 1 .. q : w[i] = e[i]

\* One chunk written at the thread's position.
LEMMA WriteFacts ==
  ASSUME NEW s \in Seq(Nat), NEW e \in Seq(Nat), NEW p \in Nat, NEW q \in Nat, p <= q, q <= Len(e),
         NEW w, w = Put(s, p, SubSeq(e, p + 1, q))
  PROVE  Rewritten(s, e, p, q, w)
<1>0. PICK c \in Nat : p + c = q
  <2>1. q - p \in Nat /\ p + (q - p) = q
    OBVIOUS
  <2> QED BY <2>1
<1>1. PICK v \in Seq(Nat) : /\ v = SubSeq(e, p + 1, q) /\ Len(v) = c
                            /\ \A i \in 1 .. c : v[i] = e[p + i]
  <2>1. PICK v : v = SubSeq(e, p + 1, p + c)
    OBVIOUS
  <2>2. v \in Seq(Nat) /\ Len(v) = c /\ \A i \in 1 .. c : v[i] = e[p + i]
    BY <1>0, <2>1, ReadFacts
  <2> QED BY <1>0, <2>1, <2>2
<1>1a. w = Put(s, p, v)
  BY <1>1
<1>1b. /\ w \in Seq(Nat) /\ Len(w) = IF Len(s) >= p + Len(v) THEN Len(s) ELSE p + Len(v)
       /\ \A i \in 1 .. Len(w) : w[i] = IF i \in p + 1 .. p + Len(v) THEN v[i - p]
                                        ELSE IF i <= Len(s) THEN s[i] ELSE 0
  BY <1>1a, PutFacts, SMTT(30)
<1>2. /\ w \in Seq(Nat) /\ Len(w) = IF Len(s) >= q THEN Len(s) ELSE q
      /\ \A i \in 1 .. Len(w) : w[i] = IF i \in p + 1 .. q THEN v[i - p]
                                       ELSE IF i <= Len(s) THEN s[i] ELSE 0
  BY <1>0, <1>1, <1>1b
<1>3. PICK n \in Nat, m \in Nat : n = Len(s) /\ m = Len(w) /\ n <= m /\ q <= m
  <2>1. Len(s) \in Nat /\ Len(w) \in Nat
    BY <1>2, LenProperties
  <2> QED BY <1>2, <2>1
<1>4. ASSUME NEW i \in 1 .. n, i \notin p + 1 .. q PROVE w[i] = s[i]
  <2>1. i \in 1 .. Len(w) /\ i <= Len(s)
    BY <1>3, <1>4
  <2> QED BY <1>2, <1>4, <2>1
<1>5. ASSUME NEW i \in p + 1 .. q PROVE w[i] = e[i]
  <2>1. PICK j \in 1 .. c : j = i - p /\ p + j = i
    BY <1>0, <1>5
  <2>2. i \in 1 .. Len(w)
    BY <1>3, <1>5
  <2> QED BY <1>1, <1>2, <1>5, <2>1, <2>2
<1> QED BY <1>2, <1>3, <1>4, <1>5 DEF Rewritten

\* The thread stands at the end of what is written.
Wrote(k, p, q) ==
    /\ th[k].pos = p /\ p \in Nat /\ q \in Nat /\ p <= q /\ q <= SegmentEnd(k)
    /\ Temp'.data[""] \in Seq(Nat) /\ q <= Len(Temp'.data[""])
    /\ \A i \in 1 .. Len(Temp.data[""]) : i <= p => Kept(i)
    /\ Fresh => \A i \in p + 1 .. q : Temp'.data[""][i] = enumd[""][i]
    /\ DOMAIN th'[k] = {"at", "pos"} /\ th'[k].at = "copy" /\ th'[k].pos = q

\* The thread that wrote it stands behind it.
LEMMA ThreadWrote ==
  ASSUME IInv, st = "segments", NEW k \in Threads, UNCHANGED <<src, snap, enumd, call>>,
         NEW x, NEW y, Wrote(k, x, y)
  PROVE  ThreadInv(k)'
<1>1. PICK s, w : s = Temp.data[""] /\ w = Temp'.data[""]
  OBVIOUS
<1>2. PICK a \in Nat, b \in Nat, n \in Nat, p \in Nat, q \in Nat :
        /\ a = call.plan[k][1] /\ b = SegmentEnd(k) /\ n = Len(s) /\ p = x /\ q = y
        /\ a <= p /\ p <= q /\ q <= b
  <2>1. x \in Nat /\ y \in Nat /\ x <= y /\ y <= SegmentEnd(k) /\ th[k].pos = x
    BY Zenon DEF Wrote
  <2>2. call.plan[k][1] \in Nat /\ SegmentEnd(k) \in Nat /\ call.plan[k][1] <= x
    BY <2>1, ThreadFacts, Zenon
  <2>3. Len(s) \in Nat
    BY <1>1, ThreadFacts, SegmentFacts
  <2> QED BY <2>1, <2>2, <2>3, Zenon
<1>3. /\ p > a => n >= p
      /\ Fresh => \A i \in a + 1 .. p : s[i] = enumd[""][i]
  BY <1>1, <1>2, ThreadFacts DEF ThreadInv, Wrote
<1>4. \A i \in 1 .. n : i <= p => w[i] = s[i]
  BY <1>1, <1>2 DEF Wrote, Kept
<1>5. Fresh => \A i \in p + 1 .. q : w[i] = enumd[""][i]
  BY <1>1, <1>2 DEF Wrote
<1>6. ASSUME Fresh, NEW i \in a + 1 .. q PROVE w[i] = enumd[""][i]
  <2>1. CASE i <= p
    <3>1. i \in a + 1 .. p /\ p > a
      BY <1>2, <1>6, <2>1
    <3>2. n >= p
      BY <1>3, <3>1
    <3>3. i \in 1 .. n
      BY <1>2, <3>1, <3>2
    <3> QED BY <1>3, <1>4, <1>6, <2>1, <3>1, <3>3
  <2>2. CASE ~(i <= p)
    <3>1. i \in p + 1 .. q
      BY <1>2, <1>6, <2>2
    <3> QED BY <1>5, <1>6, <3>1
  <2> QED BY <2>1, <2>2
<1>7. q \in a .. b
  BY <1>2
<1>8. /\ SegmentEnd(k)' = b /\ call'.plan[k][1] = a /\ enumd' = enumd /\ (Fresh' <=> Fresh)
  BY <1>2 DEF SegmentEnd, Fresh
<1>9. /\ DOMAIN th'[k] = {"at", "pos"} /\ th'[k].at = "copy" /\ th'[k].pos = q
      /\ q <= Len(Temp'.data[""])
  BY <1>2 DEF Wrote
<1> QED BY <1>1, <1>6, <1>7, <1>8, <1>9 DEF ThreadInv

\* A chunk is copied without touching what other threads did.
LEMMA SegmentMoveStep ==
  ASSUME IInv, NEW k \in DOMAIN th, SegmentMove(k) PROVE IInv'
<1>1. st = "segments" /\ st' = st /\ th[k].at = "copy" /\ ~stop
      /\ UNCHANGED <<file, src, snap, enumd, call, ckpt, dest, excused, runs>>
  BY DEF SegmentMove, srcVars
<1>2. k \in Threads /\ st \in InSegments /\ DOMAIN th = Threads
  BY <1>1 DEF IInv, SegmentInv, InSegments
<1>3. CASE th' = [th EXCEPT ![k].at = "done"] /\ RecordSegmentError /\ UNCHANGED temps
  BY <1>1, <1>2, <1>3, ThreadMarked
<1>4. PICK p \in Nat, b \in Nat, e \in Seq(Nat), s \in Seq(Nat), size \in Nat :
        /\ p = th[k].pos /\ b = SegmentEnd(k) /\ e = src.data[""] /\ s = Temp.data[""]
        /\ size = snap.size /\ Len(s) <= size /\ b <= size /\ p <= b
  <2>1. "" \in DOMAIN file.data
    BY <1>2, SegmentFacts
  <2> QED BY <1>1, <1>2, <2>1, ThreadFacts, SegmentFacts, SourceFacts DEF IInv
<1>5. PICK t \in DOMAIN temps : t = call.temp /\ "" \in DOMAIN temps[t].data
  BY <1>2, SegmentFacts DEF Temp
<1>6. CASE \E c \in 1 .. Min({Min({Chunk, b - p}), Len(e) - p}) :
              /\ Len(e) - p > 0 /\ p < b
              /\ temps' = [temps EXCEPT ![t].data[""] = Put(s, p, SubSeq(e, p + 1, p + c))]
              /\ th' = [th EXCEPT ![k].pos = p + c]
              /\ UNCHANGED <<stop, firstErr>>
  <2>1. PICK c :
              /\ c \in 1 .. Min({Min({Chunk, b - p}), Len(e) - p})
              /\ Len(e) - p > 0 /\ p < b
              /\ temps' = [temps EXCEPT ![t].data[""] = Put(s, p, SubSeq(e, p + 1, p + c))]
              /\ th' = [th EXCEPT ![k].pos = p + c]
              /\ UNCHANGED <<stop, firstErr>>
    BY <1>6
  <2>2. c \in Nat /\ p + c <= b /\ p + c <= Len(e)
    <3>0. PICK l \in Nat : l = Len(e)
      BY LenProperties
    <3>1. PICK f \in Int, g \in Int : f = b - p /\ g = l - p
      OBVIOUS
    <3>2. Chunk \in Nat
      BY GeometryAssumption
    <3>3. PICK x \in Int : x = Min({Chunk, f}) /\ x <= f
      BY <3>2, MinPair
    <3>4. PICK y \in Int : y = Min({x, g}) /\ y <= x /\ y <= g
      BY MinPair, SMTT(30)
    <3>5. c \in 1 .. y
      BY <2>1, <3>0, <3>1, <3>3, <3>4
    <3>6. c \in Nat /\ p + c <= b /\ p + c <= l
      BY <3>1, <3>3, <3>4, <3>5
    <3> QED BY <3>0, <3>6
  <2>3. PICK q \in Nat, w \in Seq(Nat), n \in Nat, m \in Nat :
          /\ q = p + c /\ w = Put(s, p, SubSeq(e, p + 1, q)) /\ n = Len(s) /\ m = Len(w)
          /\ n <= m /\ q <= m /\ m <= size /\ p <= q /\ q <= b
          /\ \A i \in 1 .. n : i \notin p + 1 .. q => w[i] = s[i]
          /\ \A i \in p + 1 .. q : w[i] = e[i]
    <3>1. PICK q \in Nat : q = p + c
      BY <2>2
    <3>2. PICK w : w = Put(s, p, SubSeq(e, p + 1, q))
      OBVIOUS
    <3>2a. p <= q /\ q <= Len(e)
      BY <2>2, <3>1
    <3>3. /\ w \in Seq(Nat) /\ Len(w) = IF Len(s) >= q THEN Len(s) ELSE q
          /\ \A i \in 1 .. Len(s) : i \notin p + 1 .. q => w[i] = s[i]
          /\ \A i \in p + 1 .. q : w[i] = e[i]
      <4>1. Rewritten(s, e, p, q, w)
        BY <3>2, <3>2a, WriteFacts
      <4> QED BY <4>1 DEF Rewritten
    <3>4. PICK n \in Nat, m \in Nat : n = Len(s) /\ m = Len(w)
      BY <3>3, LenProperties
    <3>5. n <= m /\ q <= m /\ m <= size /\ p <= q /\ q <= b
      <4>1. m = (IF n >= q THEN n ELSE q) /\ n <= size /\ b <= size /\ q <= b
        BY <1>4, <2>2, <3>1, <3>3, <3>4
      <4>2. p <= q
        BY <2>2, <3>1
      <4> QED BY <4>1, <4>2
    <3> QED BY <3>1, <3>2, <3>3, <3>4, <3>5
  <2>4. /\ temps' = [temps EXCEPT ![t].data[""] = w]
        /\ th' = [th EXCEPT ![k].pos = q] /\ UNCHANGED <<stop, firstErr>>
    BY <2>1, <2>3
  <2>5. /\ DOMAIN temps' = DOMAIN temps
        /\ \A x \in DOMAIN temps \ {t} : temps'[x] = temps[x]
        /\ IsTemp(temps'[t]) /\ temps'[t].armed = temps[t].armed
        /\ temps'[t].data[""] = w
    <3>1. PICK z, o : z = "" /\ o = t
      OBVIOUS
    <3>2. temps' = [temps EXCEPT ![o].data[z] = w]
      BY <2>4, <3>1
    <3>3. o \in DOMAIN temps /\ z \in DOMAIN temps[o].data
      BY <1>5, <3>1
    <3>4. /\ DOMAIN temps' = DOMAIN temps
          /\ \A x \in DOMAIN temps \ {o} : temps'[x] = temps[x]
          /\ IsTemp(temps'[o]) /\ temps'[o].armed = temps[o].armed
          /\ DOMAIN temps'[o].data = DOMAIN temps[o].data
          /\ temps'[o].data[z] = w
          /\ \A x \in DOMAIN temps[o].data \ {z} : temps'[o].data[x] = temps[o].data[x]
      BY <3>2, <3>3, TempWritten DEF IInv
    <3> QED BY <3>1, <3>4
  <2>6. Temp'.data[""] = w
    BY <1>1, <1>5, <2>5 DEF Temp
  <2>7. /\ DOMAIN th' = DOMAIN th /\ \A j \in Threads \ {k} : th'[j] = th[j]
        /\ DOMAIN th'[k] = {"at", "pos"} /\ th'[k].at = "copy" /\ th'[k].pos = q
    BY <1>1, <1>2, <2>4, ThreadFacts
  <2>8. Extended
    BY <1>4, <2>3, <2>6 DEF Extended
  <2>9. RestKept(k)
    <3>1. \A i \in 1 .. n : i \notin p + 1 .. b => i \notin p + 1 .. q
      BY <2>3
    <3>2. \A i \in 1 .. n : i \notin p + 1 .. b => Kept(i)
      BY <1>4, <2>3, <2>6, <3>1 DEF Kept
    <3> QED BY <1>4, <2>3, <3>2 DEF RestKept
  <2>10. ThreadInv(k)'
    <3>1. Fresh => e = enumd[""]
      BY <1>2, <1>4, SegmentFacts, EnumeratedFacts DEF IInv
    <3>2. \A i \in 1 .. n : i <= p => w[i] = s[i]
      BY <2>3
    <3>3. \A i \in 1 .. Len(Temp.data[""]) : i <= p => Kept(i)
      BY <1>4, <2>3, <2>6, <3>2 DEF Kept
    <3>4. Fresh => \A i \in p + 1 .. q : w[i] = enumd[""][i]
      BY <2>3, <3>1
    <3>5. Wrote(k, p, q)
      BY <1>4, <2>3, <2>6, <2>7, <3>3, <3>4 DEF Wrote
    <3> QED BY <1>1, <1>2, <3>5, ThreadWrote
  <2>11. stop' \in BOOLEAN /\ stop' = firstErr' /\ ErrorStays
    BY <1>1, <1>2, <2>4, ThreadFacts DEF ErrorStays
  <2> QED BY <1>1, <1>2, <1>5, <2>5, <2>7, <2>8, <2>9, <2>10, <2>11, ThreadStep
<1>7. Temp.data[""] = temps[t].data[""] /\ temps[call.temp] = temps[t]
  BY <1>5 DEF Temp
<1> QED BY <1>1, <1>3, <1>4, <1>5, <1>6, <1>7 DEF SegmentMove

-----------------------------------------------------------------------------
(* The coordinator's own reading, and the join.                              *)

\* The locals but for the coordinator's digest and its position.
OnlyHashed ==
    /\ IsCall(call')
    /\ call'.strat = call.strat /\ call'.sizes = call.sizes /\ call'.temp = call.temp
    /\ call'.jr = call.jr /\ call'.fork = call.fork /\ call'.ranges = call.ranges
    /\ call'.todo = call.todo /\ call'.plan = call.plan
    /\ DOMAIN call'.hash = DOMAIN call.hash
    /\ call.hash[""] # None => call'.hash[""] # None

\* What the coordinator hashed of the source.
Hashing ==
    /\ call'.hp \in Nat /\ call'.hp <= snap.size
    /\ HashesSource /\ Fresh => call'.hash[""] = Prefix(enumd[""], call'.hp)

\* The coordinator's own steps leave the threads' work alone.
LEMMA HashStep ==
  ASSUME IInv, st = "segments", st' = st, OnlyHashed, Hashing,
         UNCHANGED <<file, src, snap, enumd, th, temps, ckpt, dest, excused, runs>>,
         stop' \in BOOLEAN, stop' = firstErr', ErrorStays,
         call'.hash[""] # None => call.hash[""] # None
  PROVE  IInv'
<1>1. st \in InSegments /\ st' \in InSegments
  BY DEF InSegments
<1>2. Threads' = Threads /\ Temp' = Temp /\ (Fresh' <=> Fresh)
  BY DEF Threads, Temp, Fresh, OnlyHashed
<1>3. ASSUME NEW k \in Threads PROVE ThreadInv(k)'
  <2>1. SegmentEnd(k)' = SegmentEnd(k) /\ call'.plan[k][1] = call.plan[k][1]
    BY DEF SegmentEnd, OnlyHashed
  <2>2. ~firstErr' => ~firstErr
    BY DEF ErrorStays
  <2>3. th' = th /\ enumd' = enumd
    OBVIOUS
  <2> QED BY <1>2, <1>3, <2>1, <2>2, <2>3, ThreadFacts, Zenon DEF ThreadInv
<1>4. SegmentInv'
  <2>1. IsPlan(call.plan)'
    <3>1. IsPlan(call.plan)
      BY <1>1, SegmentFacts
    <3> QED BY <3>1 DEF IsPlan, OnlyHashed
  <2>2. (HashesSource /\ Fresh)' => HashesSource /\ Fresh
    BY <1>2 DEF HashesSource
  <2>3. /\ call'.hp <= snap'.size
        /\ (HashesSource /\ Fresh)' => call'.hash[""] = Prefix(enumd'[""], call'.hp)
    BY <2>2 DEF Hashing
  <2>4. Len(Temp'.data[""]) <= snap'.size
    BY <1>1, <1>2, SegmentFacts
  <2>5. DOMAIN th' = Threads'
    BY <1>2 DEF IInv, SegmentInv
  <2> QED BY <1>1, <1>2, <1>3, <2>1, <2>3, <2>4, <2>5, SegmentFacts DEF SegmentInv, OnlyHashed
<1>5. /\ IsTemp(temps'[call.temp]) /\ (temps'[call.temp].armed \/ Claimed)
      /\ DOMAIN temps' = DOMAIN temps /\ \A x \in DOMAIN temps \ {call.temp} : temps'[x] = temps[x]
  BY <1>1, SegmentFacts DEF Temp
<1> QED BY <1>1, <1>4, <1>5, SegmentStep DEF OnlyHashed

\* The coordinator hashes the next chunk of the source, or records an error.
LEMMA HashSourceStep == ASSUME IInv, HashSource PROVE IInv'
<1>0. st = "segments" /\ st' = st /\ st \in InSegments /\ HashesSource
      /\ UNCHANGED <<file, src, snap, enumd, th, temps, ckpt, dest, excused, runs>>
  BY DEF HashSource, InSegments, srcVars, diskVars
<1>1. stop \in BOOLEAN /\ stop = firstErr
  BY <1>0 DEF IInv, SegmentInv
<1>2. CASE RecordSegmentError /\ UNCHANGED call
  <2>1. OnlyHashed
    BY <1>0, <1>2, SegmentFacts DEF OnlyHashed
  <2>2. Hashing
    <3>1. call'.hp \in Nat
      BY <1>0, <1>2, SegmentFacts DEF IsCall
    <3>2. /\ call.hp <= snap.size
          /\ HashesSource /\ Fresh => call.hash[""] = Prefix(enumd[""], call.hp)
      BY <1>0 DEF IInv, SegmentInv
    <3> QED BY <1>2, <3>1, <3>2 DEF Hashing
  <2>3. stop' \in BOOLEAN /\ stop' = firstErr' /\ ErrorStays
    BY <1>2 DEF RecordSegmentError, ErrorStays
  <2> QED BY <1>0, <1>2, <2>1, <2>2, <2>3, HashStep
<1>3. PICK hp \in Nat, size \in Nat, r \in Seq(Nat), g \in Seq(Nat) :
        /\ hp = call.hp /\ size = snap.size /\ r = src.data[""] /\ g = call.hash[""]
        /\ Fresh => g = Prefix(enumd[""], hp)
  <2>1. "" \in DOMAIN file.data /\ call.hp \in Nat
    BY <1>0, SegmentFacts DEF IsCall
  <2>2. src.data[""] \in Seq(Nat)
    BY <2>1, SourceFacts DEF IInv
  <2>3. call.hash[""] # None
    BY <1>0 DEF HashesSource
  <2>4. call.hash[""] \in Seq(Nat) /\ snap.size \in Nat
    BY <1>0, <2>3, SegmentFacts
  <2>5. Fresh => call.hash[""] = Prefix(enumd[""], call.hp)
    BY <1>0 DEF IInv, SegmentInv
  <2> QED BY <2>1, <2>2, <2>4, <2>5
<1>4. PICK k : k = Min({Chunk, snap.size - call.hp})
  OBVIOUS
<1>5. CASE /\ call.hp < snap.size /\ Len(src.data[""]) >= call.hp + k
           /\ call' = [call EXCEPT !.hp = @ + k,
                !.hash[""] = @ \o SubSeq(src.data[""], call.hp + 1, call.hp + k)]
           /\ UNCHANGED <<stop, firstErr>>
  <2>1. PICK j \in Nat, q \in Nat : j = k /\ q = hp + j /\ q <= size
    <3>1. PICK d \in Nat \ {0} : d = size - hp
      <4>1. hp < size
        BY <1>3, <1>5
      <4>2. size - hp \in Nat \ {0}
        BY <4>1
      <4> QED BY <4>2
    <3>2. PICK c \in Nat : c = Chunk
      BY GeometryAssumption
    <3>3. Min({c, d}) = IF c <= d THEN c ELSE d
      BY <3>2, MinPair
    <3>4. k = IF c <= d THEN c ELSE d
      BY <1>3, <1>4, <3>1, <3>2, <3>3
    <3>5. k \in Nat /\ hp + k \in Nat /\ hp + k <= size
      BY <3>1, <3>4
    <3> QED BY <3>5
  <2>2. PICK v \in Seq(Nat), h \in Seq(Nat) :
          v = SubSeq(r, hp + 1, q) /\ h = g \o v
    <3>1. hp + j <= Len(r)
      BY <1>3, <1>5, <2>1
    <3>2. PICK v : v = SubSeq(r, hp + 1, hp + j)
      OBVIOUS
    <3>3. v \in Seq(Nat)
      BY <3>1, <3>2, ReadFacts
    <3>4. g \o v \in Seq(Nat)
      BY <3>3, ConcatProperties
    <3> QED BY <2>1, <3>2, <3>3, <3>4
  <2>3. call' = [call EXCEPT !.hp = q, !.hash[""] = h]
    <3>1. PICK c : c = call
      OBVIOUS
    <3>2. [c EXCEPT !.hp = q].hash = c.hash
      BY <1>0, <3>1, SegmentFacts DEF IsCall, Locals
    <3> QED BY <1>3, <1>5, <2>1, <2>2, <3>1, <3>2
  <2>4. OnlyHashed /\ call'.hp = q /\ call'.hash[""] = h
    <3>1. PICK c, e : c = call /\ e = call'
      OBVIOUS
    <3>2. e = [c EXCEPT !.hp = q, !.hash[""] = h] /\ IsCall(c) /\ DOMAIN c.hash = {""}
      BY <1>0, <2>3, <3>1, SegmentFacts
    <3>3. DOMAIN e = Locals
      BY <3>2 DEF IsCall
    <3>4. /\ e.strat = c.strat /\ e.sizes = c.sizes /\ e.temp = c.temp /\ e.jr = c.jr
          /\ e.fork = c.fork /\ e.pos = c.pos /\ e.seg = c.seg /\ e.next = c.next
          /\ e.hash = [c.hash EXCEPT ![""] = h] /\ e.ranges = c.ranges /\ e.todo = c.todo
          /\ e.plan = c.plan /\ e.opened = c.opened /\ e.hp = q
      BY <3>2 DEF IsCall, Locals
    <3>5. PICK f, f2 : f = c.hash /\ f2 = e.hash
      OBVIOUS
    <3>6. DOMAIN f2 = DOMAIN f /\ f2[""] = h /\ f2 \in [DOMAIN f2 -> Seq(Nat) \cup {None}]
      <4>1. f2 = [f EXCEPT ![""] = h] /\ DOMAIN f = {""} /\ f \in [DOMAIN f -> Seq(Nat) \cup {None}]
        BY <3>2, <3>4, <3>5 DEF IsCall
      <4> QED BY <4>1
    <3>7. IsCall(e)
      BY <3>2, <3>3, <3>4, <3>5, <3>6 DEF IsCall
    <3>8. h # None
      BY FilesAssumption
    <3> QED BY <3>1, <3>4, <3>5, <3>6, <3>7, <3>8 DEF OnlyHashed
  <2>5. Hashing
    <3>1. ASSUME Fresh PROVE h = Prefix(enumd[""], q)
      <4>1. r = enumd[""]
        BY <1>0, <1>3, <3>1, SegmentFacts, EnumeratedFacts DEF IInv
      <4>2. hp + j <= Len(r)
        BY <1>3, <1>5, <2>1
      <4>3. Prefix(r, hp) \o SubSeq(r, hp + 1, hp + j) = Prefix(r, hp + j)
        BY <4>2, PrefixRead
      <4> QED BY <1>3, <2>1, <2>2, <3>1, <4>1, <4>3
    <3> QED BY <1>3, <2>1, <2>4, <3>1 DEF Hashing
  <2>6. ErrorStays
    BY <1>5 DEF ErrorStays
  <2>7. stop' \in BOOLEAN /\ stop' = firstErr' /\ call.hash[""] # None
    BY <1>0, <1>1, <1>5 DEF HashesSource
  <2> QED BY <1>0, <2>4, <2>5, <2>6, <2>7, HashStep
<1> QED BY <1>2, <1>4, <1>5 DEF HashSource

\* Two bounds that meet.
LEMMA Antisymmetric ==
  ASSUME NEW a \in Nat, NEW b \in Nat, a <= b, a >= b
  PROVE  a = b
OBVIOUS

\* When every thread ended without an error, the file is whole.
LEMMA JoinedWhole ==
  ASSUME IInv, st = "segments", \A k \in Threads : th[k].at = "done", ~firstErr
  PROVE  /\ Temp.data[""] \in Seq(Nat) /\ Len(Temp.data[""]) = snap.size
         /\ Fresh => Temp.data[""] = enumd[""]
<1>1. st \in InSegments
  BY DEF InSegments
<1>2. PICK size \in Nat, l \in Nat, d \in Seq(Nat) :
        size = snap.size /\ d = Temp.data[""] /\ l = Len(d) /\ l <= size
  BY <1>1, SegmentFacts
<1>3. /\ Len(call.plan) \in Nat \ {0} /\ Threads = 1 .. Len(call.plan)
      /\ SegmentEnd(Len(call.plan)) = snap.size
      /\ \A k \in Threads :
            /\ call.plan[k][1] \in Nat /\ call.plan[k][2] \in Nat \ {0}
            /\ SegmentEnd(k) \in Nat /\ call.plan[k][1] < SegmentEnd(k)
            /\ SegmentEnd(k) <= snap.size
  BY <1>1, SegmentFacts, PlanBounds
<1>4. ASSUME NEW k \in Threads
      PROVE  /\ th[k].pos = SegmentEnd(k)
             /\ th[k].pos > call.plan[k][1] => Len(Temp.data[""]) >= th[k].pos
             /\ Fresh => \A i \in call.plan[k][1] + 1 .. th[k].pos : Temp.data[""][i] = enumd[""][i]
  BY <1>4 DEF IInv, SegmentInv, ThreadInv
<1>5. Len(d) = size
  <2>1. PICK k : k = Len(call.plan) /\ k \in Threads
    <3>1. PICK n \in Nat \ {0} : n = Len(call.plan)
      BY <1>3
    <3>2. n \in 1 .. n
      BY <3>1
    <3> QED BY <1>3, <3>1, <3>2
  <2>2. PICK b \in Nat, e \in Nat : b = call.plan[k][1] /\ e = SegmentEnd(k) /\ b < e /\ e = size
    BY <1>2, <1>3, <2>1
  <2>3. e > b => l >= e
    BY <1>2, <1>4, <2>1, <2>2
  <2>4. l >= e
    BY <2>2, <2>3
  <2>5. l = size
    <3>1. l <= size /\ l >= size
      BY <1>2, <2>2, <2>4, Zenon
    <3> QED BY <3>1, Antisymmetric
  <2> QED BY <1>2, <2>5
<1>6. ASSUME Fresh PROVE d = enumd[""]
  <2>1. PICK e \in Seq(Nat) : e = enumd[""] /\ Len(e) = size
    BY <1>1, <1>2, SegmentFacts, EnumeratedFacts DEF IInv
  <2>2. ASSUME NEW i \in 1 .. size PROVE d[i] = e[i]
    <3>1. i \in 1 .. snap.size
      BY <1>2, <2>2
    <3>2. PICK k \in Threads : i \in call.plan[k][1] + 1 .. SegmentEnd(k)
      BY <1>1, <3>1, SegmentFacts, PlanCovers
    <3> QED BY <1>2, <1>4, <1>6, <2>1, <3>2
  <2>3. d \in Seq(Nat) /\ Len(d) = Len(e) /\ \A i \in 1 .. Len(d) : d[i] = e[i]
    BY <1>2, <1>5, <2>1, <2>2
  <2>4. d = e
    BY <2>3, SeqEqual
  <2> QED BY <2>1, <2>4
<1> QED BY <1>2, <1>5, <1>6

\* The join passes the whole file on to the shared tail.
LEMMA JoinedStep ==
  ASSUME IInv, st = "segments", \A k \in Threads : th[k].at = "done", ~firstErr,
         st' = "read", OnlyHashed, call'.hp = call.hp,
         Fresh => call'.hash[""] \in {None, enumd[""]},
         UNCHANGED <<file, src, snap, enumd, temps, ckpt, dest, excused, runs>>
  PROVE  IInv'
<1>1. st \in InSegments /\ st' \in Held /\ st' \in Routed /\ st' \notin InSegments
      /\ st' \notin InLoop
  BY DEF Held, Routed, InSegments, InLoop
<1>2. /\ SourceInv' /\ (Fresh' <=> Fresh) /\ CallInv'
      /\ Representable(call.sizes)' = Representable(call.sizes)
  BY <1>1, SegmentFacts, RoutedCall DEF OnlyHashed
<1>3. DiskInv'
  BY <1>1, SegmentFacts, DiskSame DEF IInv, OnlyHashed
<1>4. KeepInv'
  <2>1. \A t \in DOMAIN temps' \ (excused \cup {call'.temp}) : temps'[t].armed
    BY <1>1, SegmentFacts DEF OnlyHashed
  <2>2. temps'[call'.temp].armed \/ Claimed'
    <3>1. Temp.armed \/ Claimed
      BY <1>1, SegmentFacts
    <3> QED BY <3>1 DEF Temp, Claimed, OnlyHashed
  <2>3. NamedClaimed'
    BY <1>1 DEF NamedClaimed
  <2> QED BY <1>1, <2>1, <2>2, <2>3, HeldKeep
<1>5. CursorInv'
  BY <1>1 DEF CursorInv
<1>6. DataInv'
  <2>1. /\ Representable(call.sizes) = {""} /\ call.fork = "" /\ dest = None
        /\ "" \in DOMAIN Temp.data
    BY <1>1, SegmentFacts
  <2>2. Temp' = Temp /\ call'.fork = call.fork
    BY DEF Temp, OnlyHashed
  <2>3. ASSUME Fresh' PROVE Exact("")'
    <3>1. Temp.data[""] = enumd[""] /\ call'.hash[""] \in {None, enumd[""]}
      BY <1>2, <2>3, JoinedWhole
    <3> QED BY <2>1, <2>2, <3>1 DEF Exact
  <2> QED BY <1>1, <1>2, <2>1, <2>2, <2>3 DEF DataInv
<1>7. SegmentInv'
  BY <1>1, SegmentFacts, HeldPlan DEF OnlyHashed
<1> QED BY <1>2, <1>3, <1>4, <1>5, <1>6, <1>7 DEF IInv

\* The join fails with the first error, or passes on a whole file and its digest.
LEMMA JoinStep == ASSUME IInv, Join PROVE IInv'
<1>0. /\ st = "segments" /\ st \in InSegments
      /\ UNCHANGED <<file, src, snap, enumd, ckpt, dest, excused, runs>>
      /\ \A k \in Threads : th[k].at = "done"
      /\ (HashesSource => stop \/ call.hp = snap.size)
  BY DEF Join, InSegments, srcVars
<1>1. CASE Fail("failed") /\ UNCHANGED call
  BY <1>0, <1>1, FailStep
<1>2. ASSUME ~firstErr
      PROVE  /\ Temp.data[""] \in Seq(Nat) /\ Len(Temp.data[""]) = snap.size
             /\ Fresh => Temp.data[""] = enumd[""]
  BY <1>0, <1>2, JoinedWhole
<1>3. CASE /\ ~firstErr /\ (file.transport = "wsl_dst" \/ call.hash[""] = None)
           /\ st' = "read" /\ UNCHANGED <<temps, call>>
  <2>1. OnlyHashed /\ call'.hp = call.hp
    BY <1>0, <1>3, SegmentFacts DEF OnlyHashed
  <2>2. ASSUME Fresh, call.hash[""] # None PROVE call.hash[""] = enumd[""]
    <3>1. HashesSource
      BY <1>3, <2>2 DEF HashesSource
    <3>2. stop = firstErr /\ call.hash[""] = Prefix(enumd[""], call.hp)
      BY <1>0, <2>2, <3>1 DEF IInv, SegmentInv
    <3>3. call.hp = snap.size
      BY <1>0, <1>3, <3>1, <3>2
    <3>4. enumd[""] \in Seq(Nat) /\ Len(enumd[""]) = snap.size
      BY <1>0, SegmentFacts, EnumeratedFacts DEF IInv
    <3>5. Prefix(enumd[""], Len(enumd[""])) = enumd[""]
      BY <3>4, FilledWhole
    <3> QED BY <3>2, <3>3, <3>4, <3>5
  <2>3. Fresh => call'.hash[""] \in {None, enumd[""]}
    BY <1>3, <2>2
  <2> QED BY <1>0, <1>3, <2>1, <2>3, JoinedStep
<1>4. CASE ~firstErr /\ Len(Temp.data[""]) < snap.size
  <2>1. PICK n \in Nat : n = snap.size /\ n = Len(Temp.data[""])
    BY <1>0, <1>2, <1>4, SegmentFacts
  <2>2. n < n
    BY <1>4, <2>1
  <2> QED BY <2>2
<1>5. CASE /\ ~firstErr /\ call.hash[""] # None
           /\ call' = [call EXCEPT !.hash[""] = Prefix(Temp.data[""], snap.size)]
           /\ st' = "read" /\ UNCHANGED temps
  <2>1. PICK d \in Seq(Nat) : d = Temp.data[""] /\ Len(d) = snap.size
    BY <1>2, <1>5
  <2>2. Prefix(d, Len(d)) = d
    BY FilledWhole
  <2>3. call' = [call EXCEPT !.hash[""] = d]
    BY <1>5, <2>1, <2>2
  <2>4. OnlyHashed /\ call'.hp = call.hp /\ call'.hash[""] = d
    <3>1. PICK c, e : c = call /\ e = call'
      OBVIOUS
    <3>2. e = [c EXCEPT !.hash[""] = d] /\ IsCall(c) /\ DOMAIN c.hash = {""}
      BY <1>0, <2>3, <3>1, SegmentFacts
    <3>3. DOMAIN e = Locals
      BY <3>2 DEF IsCall
    <3>4. /\ e.strat = c.strat /\ e.sizes = c.sizes /\ e.temp = c.temp /\ e.jr = c.jr
          /\ e.fork = c.fork /\ e.pos = c.pos /\ e.seg = c.seg /\ e.next = c.next
          /\ e.hash = [c.hash EXCEPT ![""] = d] /\ e.ranges = c.ranges /\ e.todo = c.todo
          /\ e.plan = c.plan /\ e.opened = c.opened /\ e.hp = c.hp
      BY <3>2 DEF IsCall, Locals
    <3>5. PICK f, f2 : f = c.hash /\ f2 = e.hash
      OBVIOUS
    <3>6. DOMAIN f2 = DOMAIN f /\ f2[""] = d /\ f2 \in [DOMAIN f2 -> Seq(Nat) \cup {None}]
      <4>1. f2 = [f EXCEPT ![""] = d] /\ DOMAIN f = {""} /\ f \in [DOMAIN f -> Seq(Nat) \cup {None}]
        BY <3>2, <3>4, <3>5 DEF IsCall
      <4> QED BY <4>1
    <3>7. IsCall(e)
      BY <3>2, <3>3, <3>4, <3>5, <3>6 DEF IsCall
    <3>8. d # None
      BY FilesAssumption
    <3> QED BY <3>1, <3>4, <3>5, <3>6, <3>7, <3>8 DEF OnlyHashed
  <2>5. Fresh => call'.hash[""] \in {None, enumd[""]}
    BY <1>2, <1>5, <2>1, <2>4
  <2> QED BY <1>0, <1>5, <2>4, <2>5, JoinedStep
<1> QED BY <1>1, <1>3, <1>4, <1>5 DEF Join

-----------------------------------------------------------------------------
(* The invariant, and what follows from it.                                  *)

\* Every step preserves the invariant.
LEMMA NextIInv == ASSUME IInv, [Next]_vars PROVE IInv'
<1>1. CASE Transfer
  <2>1. CASE Enumerate BY <2>1, EnumerateStep
  <2>2. CASE OpenSource BY <2>2, OpenSourceStep
  <2>3. CASE ListStreams BY <2>3, ListStreamsStep
  <2>4. CASE Route BY <2>4, RouteStep
  <2>5. CASE ResumeUnnamed BY <2>5, ResumeUnnamedStep
  <2>6. CASE CreateTemp BY <2>6, CreateTempStep
  <2>7. CASE LoopTurn BY <2>7, LoopTurnStep
  <2>8. CASE MoveChunk BY <2>8, MoveChunkStep
  <2>9. CASE Advance BY <2>9, AdvanceStep
  <2>10. CASE AppendCheckpoint BY <2>10, AppendCheckpointStep
  <2>11. CASE Persist BY <2>11, PersistStep
  <2>12. CASE ReadEnds BY <2>12, ReadEndsStep
  <2>13. CASE BaseCheckpoint BY <2>13, BaseCheckpointStep
  <2>14. CASE BasePersist BY <2>14, BasePersistStep
  <2>15. ASSUME NEW n \in Names, OpenNamed(n) PROVE IInv'
    BY <2>15, OpenNamedStep
  <2>16. CASE RearmNamed BY <2>16, RearmNamedStep
  <2>17. CASE FlushNamed BY <2>17, FlushNamedStep
  <2>18. CASE Validate BY <2>18, ValidateStep
  <2>19. CASE Commit BY <2>19, CommitStep
  <2>20. CASE OpenWriter BY <2>20, OpenWriterStep
  <2>21. CASE RearmWriter BY <2>21, RearmWriterStep
  <2>22. CASE Join BY <2>22, JoinStep
  <2> QED
    BY <1>1, <2>1, <2>2, <2>3, <2>4, <2>5, <2>6, <2>7, <2>8, <2>9, <2>10, <2>11, <2>12, <2>13,
       <2>14, <2>15, <2>16, <2>17, <2>18, <2>19, <2>20, <2>21, <2>22 DEF Transfer
<1>2. CASE HashSource
  BY <1>2, HashSourceStep
<1>3. CASE World
  <2>1. CASE ChangeSource BY <2>1, ChangeStep
  <2>2. CASE SwapSource \/ CancelRun BY <2>2, QuietStep
  <2>3. CASE Kill BY <2>3, KillStep
  <2>4. CASE PowerLoss BY <2>4, PowerLossStep
  <2>5. CASE Rerun BY <2>5, RerunStep
  <2> QED BY <1>3, <2>1, <2>2, <2>3, <2>4, <2>5 DEF World
<1>4. CASE Ended
  BY <1>4, QuietStep
<1>5. ASSUME NEW k \in DOMAIN th, SegmentOpen(k) \/ SegmentMove(k) \/ SegmentDone(k)
      PROVE  IInv'
  BY <1>5, SegmentOpenStep, SegmentMoveStep, SegmentDoneStep
<1>6. CASE UNCHANGED vars
  BY <1>6, Untouched DEF vars, srcVars, segVars, diskVars
<1> QED BY <1>1, <1>2, <1>3, <1>4, <1>5, <1>6 DEF Next

\* Every state a run of the program reaches satisfies the invariant.
THEOREM Invariance == Spec => []IInv
<1> QED BY InitIInv, NextIInv, PTL DEF Spec

\* Every unit of a segmented file lies in the range of exactly one thread.
OneThreadEach ==
    st = "segments" =>
        \A i \in 1 .. snap.size :
            \E k \in DOMAIN th : \A j \in DOMAIN th :
                i \in call.plan[j][1] + 1 .. SegmentEnd(j) <=> j = k

\* The threads cover the file and none writes into another's range, however size,
\* chunk and number of segments divide (segment_plan).
THEOREM SegmentsPartition == Spec => []OneThreadEach
<1>1. ASSUME IInv PROVE OneThreadEach
  <2> SUFFICES ASSUME st = "segments", NEW i \in 1 .. snap.size
               PROVE  \E k \in DOMAIN th : \A j \in DOMAIN th :
                        i \in call.plan[j][1] + 1 .. SegmentEnd(j) <=> j = k
    BY DEF OneThreadEach
  <2>1. IsPlan(call.plan) /\ snap.size \in Nat /\ DOMAIN th = Threads
    BY <1>1, SegmentFacts DEF InSegments, IInv, SegmentInv
  <2>2. PICK k \in Threads : i \in call.plan[k][1] + 1 .. SegmentEnd(k)
    BY <2>1, PlanCovers
  <2>3. Threads \subseteq Nat
    BY <2>1, PlanBounds
  <2>4. ASSUME NEW j \in Threads, i \in call.plan[j][1] + 1 .. SegmentEnd(j) PROVE j = k
    <3>1. PICK a \in Nat, b \in Nat, c \in Nat, d \in Nat :
            /\ a = call.plan[j][1] /\ b = SegmentEnd(j)
            /\ c = call.plan[k][1] /\ d = SegmentEnd(k)
      BY <2>1, PlanBounds
    <3>2. ~(b <= c) /\ ~(d <= a)
      BY <2>2, <2>4, <3>1
    <3>3. ~(j < k) /\ ~(k < j)
      BY <2>1, <3>1, <3>2, PlanDisjoint
    <3> QED BY <2>3, <3>3
  <2> QED BY <2>1, <2>2, <2>4
<1> QED BY <1>1, Invariance, PTL

\* What copy_file publishes is the enumerated version of every stream the
\* destination can hold, no other stream, and the digests it reports are of
\* exactly that, whichever strategy, resume, race or failure came before
\* (finish_streamed, copy_sparse, copy_streamed_segmented).
THEOREM PublishedSafe == Spec => []PublishedIsEnumerated
<1>1. IInv => PublishedIsEnumerated
  <2> SUFFICES ASSUME IInv, dest # None PROVE PublishedIsEnumerated
    BY DEF PublishedIsEnumerated
  <2> QED BY DEF IInv, DataInv
<1> QED BY <1>1, Invariance, PTL

\* A temporary that outlives its run is claimed by the journal's record of its
\* unnamed stream, in whatever order records, dispositions and kills come
\* (append_checkpoint before persist_for_resume).
THEOREM KeptSafe == Spec => []KeptIsClaimed
<1>1. IInv => KeptIsClaimed
  BY DEF IInv, KeepInv
<1> QED BY <1>1, Invariance, PTL

\* A kill in the loop of a stream with checkpoints costs less than an interval
\* (CheckpointCursor).
THEOREM LossBounded == Spec => []BoundedLoss
<1>1. ASSUME IInv PROVE BoundedLoss
  <2> SUFFICES ASSUME st = "loop", call.next # None
               PROVE  call.pos - Mark(call.fork) < CheckpointInterval(Size(call.fork))
    BY DEF BoundedLoss, Mark
  <2>1. st \in InLoop /\ st \in {"loop", "rearm"}
    BY DEF InLoop
  <2>2. /\ call.next <= Mark(call.fork) + CheckpointInterval(Size(call.fork))
        /\ (call.pos < call.next \/ call.pos <= Mark(call.fork))
    <3>1. CursorInv
      BY <1>1 DEF IInv
    <3> QED BY <2>1, <3>1, Zenon DEF CursorInv
  <2>3. Mark(call.fork) \in Nat /\ CheckpointInterval(Size(call.fork)) \in Nat \ {0}
        /\ call.pos \in Nat /\ call.next \in Nat
    <3>1. call.fork \in Names /\ IsCall(call) /\ call.pos \in Nat
      BY <1>1, <2>1, LoopFacts
    <3>2. Mark(call.fork) \in Nat
      BY <1>1, <3>1, MarkFacts DEF IInv
    <3>3. call.next \in Nat
      BY <3>1 DEF IsCall
    <3> QED BY <3>1, <3>2, <3>3, IntervalFacts
  <2>4. PICK m \in Nat, c \in Nat \ {0}, p \in Nat, n \in Nat :
          /\ m = Mark(call.fork) /\ c = CheckpointInterval(Size(call.fork))
          /\ p = call.pos /\ n = call.next
    BY <2>3
  <2>5. n <= m + c /\ (p < n \/ p <= m)
    BY <2>2, <2>4
  <2>6. p - m < c
    BY <2>5
  <2> QED BY <2>4, <2>6
<1> QED BY <1>1, Invariance, PTL

\* The errors the code calls its own bugs never occur (append_checkpoint,
\* CheckpointCursor::bound, hash_local_temp).
THEOREM BugsUnreachable == Spec => []NeverInternal
<1>1. IInv => NeverInternal
  BY DEF IInv, SourceInv, NeverInternal, Places, Routed, Held, InLoop, InSegments
<1> QED BY <1>1, Invariance, PTL

=============================================================================
