---------------------------- MODULE VerifyProofs ----------------------------
(***************************************************************************)
(* What a passed comparison means, proved for every policy, any times and  *)
(* any number of changes by other programs; what the tolerance of times    *)
(* accepts on a coarse file system; and that the verdict on trees nobody   *)
(* changes is right.                                                       *)
(*                                                                         *)
(* The id of the object under a name and its last-write time only grow,    *)
(* and every change moves one of them.  So while the name shows what it    *)
(* showed before the digest began, nothing of the file has changed since,  *)
(* and what was digested so far is its content.                            *)
(*                                                                         *)
(* For the verdict: as long as nothing was changed and no read failed, the *)
(* sums speak of what was settled so far, and every name of the directory  *)
(* being matched is in exactly one of entries, keys and the map.           *)
(***************************************************************************)
EXTENDS Verify, FiniteSetTheorems, SequenceTheorems, TLAPS

-----------------------------------------------------------------------------
(* The inductive invariant.                                                  *)

IsTree(t) == t \in [DOMAIN t -> Objects]

DigestPlaces == {"none", "before", "open", "read", "streams", "eas", "after", "done"}

IsDigest(d) ==
    /\ d = [side |-> d.side, path |-> d.path, at |-> d.at, before |-> d.before,
            opened |-> d.opened, data |-> d.data, streams |-> d.streams, eas |-> d.eas]
    /\ d.at \in DigestPlaces
    /\ d.data \in Seq(Nat)

Types ==
    /\ policy \in FilesystemPolicies
    /\ mode \in {"full", "copied"}
    /\ tree = [src |-> tree["src"], dst |-> tree["dst"]]
    /\ \A side \in Sides : IsTree(tree[side])
    /\ held \in Objects \cup {None}
    /\ pair = [src |-> pair.src, dst |-> pair.dst, ok |-> pair.ok]
    /\ versions = [src |-> versions["src"], dst |-> versions["dst"]]
    /\ IsDigest(dg)

\* The mode keeps to its part of the program; in the read-back the source stays.
Placed ==
    /\ st \in {"root", "walk", "entries"} => mode = "full"
    /\ st = "targets" => mode = "copied"
    /\ mode = "copied" /\ st \in {"targets", "digest"} => entries \subseteq DOMAIN tree["src"]

\* What was digested is what this content shows of it.
Shows(v, side) ==
    [data |-> v.data,
     streams |-> IF ReadsStreams(side) THEN v.streams ELSE 0,
     eas |-> IF ReadsEas(side) THEN v.eas ELSE 0]

\* The name still shows what it showed before the digest.
Quiet == There /\ Stat(Named) = dg.before

\* Neither the object's id nor its time goes back.
Grown ==
    dg.at \notin {"none", "before"} /\ There =>
        /\ dg.before.id \in Nat /\ dg.before.mtime \in Nat
        /\ dg.before.id <= Named.id
        /\ dg.before.mtime <= Named.mtime

\* What has been read so far is the beginning of what is there.
ReadSoFar ==
    /\ Len(dg.data) <= Len(Named.data)
    /\ \A i \in 1 .. Len(dg.data) : dg.data[i] = Named.data[i]

\* The digest in progress, as long as nothing has changed.
Faithful ==
    Quiet =>
        /\ dg.at \in {"open", "read"} => ReadSoFar
        /\ dg.at = "read" => held = None
        /\ dg.at \in {"streams", "eas", "after"} => dg.data = Named.data
        /\ dg.at \in {"eas", "after"} =>
             dg.streams = (IF ReadsStreams(dg.side) THEN Named.streams ELSE 0)
        /\ dg.at = "after" => dg.eas = (IF ReadsEas(dg.side) THEN Named.eas ELSE 0)

\* Every version of either side since the pair was matched is remembered.
Remembered ==
    \A side \in Sides : pair[side] \in DOMAIN tree[side] =>
        Content(Object(side, pair[side])) \in versions[side]

\* A finished digest is of a version that existed.
OfAVersion ==
    /\ dg.side = "dst" => \E v \in versions["src"] : sdig = Shows(v, "src")
    /\ dg.at = "done" => dg.side = "dst" /\ \E w \in versions["dst"] : Digested = Shows(w, "dst")

DigestInv ==
    /\ dg.at # "none" => st = "digest"
    /\ held # None => st = "digest" /\ dg.at = "read"
    /\ st = "digest" =>
        /\ dg.side \in Sides
        /\ dg.path = pair[dg.side]
        /\ dg.at # "none"
        /\ dg.at = "before" => dg.data = << >>
        /\ pair.ok = None
        /\ Grown /\ Faithful /\ Remembered /\ OfAVersion

IInv == Types /\ Placed /\ DigestInv /\ PassIsWhole

\* What PassIsWhole says of a file that passed.
Whole ==
    \E v \in versions["src"], w \in versions["dst"] :
        /\ v.data = w.data
        /\ policy.streams => w.streams = (IF policy.srcStreams THEN v.streams ELSE 0)
        /\ policy.eas => w.eas = (IF policy.srcEas THEN v.eas ELSE 0)

-----------------------------------------------------------------------------
(* Times on a coarse file system.                                            *)

\* What a file system stores of a time is one of the two multiples of its quantum
\* around it.
LEMMA Neighbours ==
  ASSUME NEW t \in Nat, NEW q \in {0, 2, 4}, NEW up \in BOOLEAN
  PROVE  /\ Stored(t, q, up) \in Nat
         /\ q # 0 => Stored(t, q, up) % q = 0 /\ Distance(t, Stored(t, q, up)) < q
         /\ q = 0 => Stored(t, q, up) = t
<1>1. CASE q = 0
  BY <1>1 DEF Stored
<1>2. CASE q = 2
  <2>1. t % 2 \in {0, 1} /\ t = 2 * (t \div 2) + (t % 2) /\ t \div 2 \in Nat
    BY SMT
  <2>2. CASE t % 2 = 0
    BY <1>2, <2>1, <2>2 DEF Stored, Distance
  <2>3. CASE t % 2 # 0
    <3>1. \A n \in Nat : (n * 2) % 2 = 0 /\ (n * 2 + 2) % 2 = 0
      BY SMT
    <3> QED BY <1>2, <2>1, <2>3, <3>1 DEF Stored, Distance
  <2> QED BY <2>2, <2>3
<1>3. CASE q = 4
  <2>1. t % 4 \in 0 .. 3 /\ t = 4 * (t \div 4) + (t % 4) /\ t \div 4 \in Nat
    BY SMT
  <2>2. CASE t % 4 = 0
    BY <1>3, <2>1, <2>2 DEF Stored, Distance
  <2>3. CASE t % 4 # 0
    <3>1. \A n \in Nat : (n * 4) % 4 = 0 /\ (n * 4 + 4) % 4 = 0
      BY SMT
    <3> QED BY <1>3, <2>1, <2>3, <3>1 DEF Stored, Distance
  <2> QED BY <2>2, <2>3
<1> QED BY <1>1, <1>2, <1>3

\* A multiple of the quantum less than a quantum away is one of the two.
LEMMA NoOther ==
  ASSUME NEW t \in Nat, NEW d \in Nat, NEW q \in {2, 4}, d % q = 0, Distance(t, d) < q
  PROVE  \E up \in BOOLEAN : d = Stored(t, q, up)
<1>1. CASE q = 2
  <2>1. t % 2 \in {0, 1} /\ t = 2 * (t \div 2) + (t % 2) /\ t \div 2 \in Nat
    BY SMT
  <2>2. d = 2 * (d \div 2) /\ d \div 2 \in Nat
    BY <1>1
  <2>3. d = 2 * (t \div 2) \/ (t % 2 # 0 /\ d = 2 * (t \div 2) + 2)
    BY <1>1, <2>1, <2>2 DEF Distance
  <2>4. d = Stored(t, 2, FALSE) \/ d = Stored(t, 2, TRUE)
    BY <2>1, <2>3 DEF Stored
  <2> QED BY <1>1, <2>4
<1>2. CASE q = 4
  <2>1. t % 4 \in 0 .. 3 /\ t = 4 * (t \div 4) + (t % 4) /\ t \div 4 \in Nat
    BY SMT
  <2>2. d = 4 * (d \div 4) /\ d \div 4 \in Nat
    BY <1>2
  <2>3. d = 4 * (t \div 4) \/ (t % 4 # 0 /\ d = 4 * (t \div 4) + 4)
    BY <1>2, <2>1, <2>2 DEF Distance
  <2>4. d = Stored(t, 4, FALSE) \/ d = Stored(t, 4, TRUE)
    BY <2>1, <2>3 DEF Stored
  <2> QED BY <1>2, <2>4
<1> QED BY <1>1, <1>2

\* timestamp_equal accepts exactly what a file system can have made of a time: of
\* the times it can hold, those it stores for this one, whichever way it rounds
\* (filesystem.rs, timestamp_equal with the quantum of last_write_quantum).
THEOREM ToleranceIsExact ==
  ASSUME NEW fs, NEW t \in Nat, NEW d \in Nat,
         LastWriteQuantum(fs) = 0 \/ d % LastWriteQuantum(fs) = 0
  PROVE  TimestampEqual(t, d, LastWriteQuantum(fs))
            <=> \E up \in BOOLEAN : d = Stored(t, LastWriteQuantum(fs), up)
<1> DEFINE q == LastWriteQuantum(fs)
<1>1. q \in {0, 2, 4}
  BY DEF LastWriteQuantum
<1> HIDE DEF q
<1>2. TimestampEqual(t, d, q) <=> \E up \in BOOLEAN : d = Stored(t, q, up)
  <2>1. CASE q = 0
    BY <2>1, Neighbours DEF TimestampEqual
  <2>2. CASE q # 0
    <3>1. q \in {2, 4} /\ d % q = 0
      BY <1>1, <2>2 DEF q
    <3>2. Distance(t, d) < q => \E up \in BOOLEAN : d = Stored(t, q, up)
      BY <3>1, NoOther
    <3>3. (\E up \in BOOLEAN : d = Stored(t, q, up)) => Distance(t, d) < q
      BY <1>1, <2>2, Neighbours
    <3> QED BY <2>2, <3>2, <3>3 DEF TimestampEqual
  <2> QED BY <2>1, <2>2
<1> QED BY <1>2 DEF q

-----------------------------------------------------------------------------
(* The trees at the beginning.                                               *)

LEMMA Made ==
  ASSUME NEW kind \in {"dir", "file", "link"}, NEW data \in Seq(Nat), NEW streams \in Nat,
         NEW eas \in Nat, NEW t \in Nat
  PROVE  Obj(kind, data, streams, eas, t) \in Objects
BY DEF Obj, Objects

\* An object put into a tree.
LEMMA PutInto ==
  ASSUME NEW t, IsTree(t), NEW x, NEW o, x \in DOMAIN t => o \in Objects
  PROVE  /\ IsTree([t EXCEPT ![x] = o])
         /\ DOMAIN [t EXCEPT ![x] = o] = DOMAIN t
BY DEF IsTree

LEMMA AddedTo ==
  ASSUME NEW t, IsTree(t), NEW x, NEW o \in Objects
  PROVE  IsTree(With(t, x, o))
BY DEF IsTree, With

LEMMA SourceIsTree ==
  ASSUME NEW p \in FilesystemPolicies, NEW t \in Nat
  PROVE  /\ IsTree(SourceTree(p, t))
         /\ <<"a">> \in DOMAIN SourceTree(p, t)
<1> DEFINE s == IF p.srcStreams THEN 1 ELSE 0
           e == IF p.srcEas THEN 1 ELSE 0
           f == [Obj("file", <<1>>, 0, 0, t) EXCEPT !.attrs = {"readonly"}]
           l == [Obj("link", << >>, 0, 0, t) EXCEPT !.link = 1]
<1>1. s \in Nat /\ e \in Nat
  OBVIOUS
<1>2. /\ Obj("dir", << >>, 0, 0, t) \in Objects
      /\ Obj("dir", << >>, s, 0, t) \in Objects
      /\ Obj("link", << >>, 0, 0, t) \in Objects
  <2>1. << >> \in Seq(Nat)
    OBVIOUS
  <2> QED BY <1>1, <2>1, Made
<1>3. Obj("file", <<1, 2>>, s, e, t) \in Objects
  <2>1. <<1, 2>> \in Seq(Nat)
    OBVIOUS
  <2> QED BY <1>1, <2>1, Made
<1>4. f \in Objects
  <2>1. <<1>> \in Seq(Nat)
    OBVIOUS
  <2>2. Obj("file", <<1>>, 0, 0, t) \in Objects
    BY <2>1, Made
  <2> QED BY <2>2 DEF Objects
<1>5. l \in Objects
  BY <1>2 DEF Objects
<1>6. SourceTree(p, t) =
        [path \in {<< >>, <<"a">>, <<"d">>, <<"d", "f">>}
                    \cup IF p.reparse THEN {<<"l">>} ELSE {} |->
            CASE path = << >>       -> Obj("dir", << >>, 0, 0, t)
              [] path = <<"a">>     -> Obj("file", <<1, 2>>, s, e, t)
              [] path = <<"d">>     -> Obj("dir", << >>, s, 0, t)
              [] path = <<"d", "f">> -> f
              [] path = <<"l">>     -> l]
  BY DEF SourceTree
<1> HIDE DEF s, e, f, l
<1> DEFINE root == Obj("dir", << >>, 0, 0, t)
           a == Obj("file", <<1, 2>>, s, e, t)
           d == Obj("dir", << >>, s, 0, t)
<1>7. root \in Objects /\ a \in Objects /\ d \in Objects
  BY <1>2, <1>3
<1> HIDE DEF root, a, d
<1>8. SourceTree(p, t) =
        [path \in {<< >>, <<"a">>, <<"d">>, <<"d", "f">>}
                    \cup IF p.reparse THEN {<<"l">>} ELSE {} |->
            CASE path = << >>       -> root
              [] path = <<"a">>     -> a
              [] path = <<"d">>     -> d
              [] path = <<"d", "f">> -> f
              [] path = <<"l">>     -> l]
  BY <1>6 DEF root, a, d
<1>9. <<"a">> \in DOMAIN SourceTree(p, t)
  BY <1>8
<1>10. \A path \in DOMAIN SourceTree(p, t) : SourceTree(p, t)[path] \in Objects
  BY <1>4, <1>5, <1>7, <1>8
<1>11. SourceTree(p, t) = [path \in DOMAIN SourceTree(p, t) |-> SourceTree(p, t)[path]]
  BY <1>8
<1> QED BY <1>9, <1>10, <1>11 DEF IsTree

\* What a copy leaves at the destination is a tree too.
LEMMA CopyIsObject ==
  ASSUME NEW o \in Objects, NEW p \in FilesystemPolicies, NEW up \in BOOLEAN
  PROVE  CopyOf(o, p, up) \in Objects
<1>1. LastWriteQuantum(p.fs) \in {0, 2, 4} /\ CreationQuantum(p.fs) \in {0, 2, 4}
  BY DEF LastWriteQuantum, CreationQuantum
<1>2. o.mtime \in Nat /\ o.ctime \in Nat
  BY DEF Objects
<1>3. Stored(o.mtime, LastWriteQuantum(p.fs), up) \in Nat
  BY <1>1, <1>2, Neighbours
<1>4. Stored(o.ctime, CreationQuantum(p.fs), up) \in Nat
  BY <1>1, <1>2, Neighbours
<1> DEFINE m == Stored(o.mtime, LastWriteQuantum(p.fs), up)
           c == IF p.srcProjects \/ p.fs \in {"wsl", "remote"} THEN 99
                ELSE Stored(o.ctime, CreationQuantum(p.fs), up)
           attrs == IF p.srcProjects \/ p.fs \in {"wsl", "remote"} THEN {"archive"}
                    ELSE IF p.fs \in Fat THEN o.attrs \ {"not_indexed"} ELSE o.attrs
           streams == IF p.streams THEN o.streams ELSE 0
           eas == IF p.eas THEN o.eas ELSE 0
<1>5. /\ m \in Nat /\ c \in Nat /\ streams \in Nat /\ eas \in Nat
      /\ attrs \subseteq {"not_indexed", "readonly", "archive"}
  BY <1>3, <1>4 DEF Objects
<1>6. CopyOf(o, p, up) =
        [kind |-> o.kind, id |-> o.id, data |-> o.data, streams |-> streams, eas |-> eas,
         link |-> o.link, ctime |-> c, mtime |-> m, attrs |-> attrs]
  <2>1. o = [kind |-> o.kind, id |-> o.id, data |-> o.data, streams |-> o.streams,
             eas |-> o.eas, link |-> o.link, ctime |-> o.ctime, mtime |-> o.mtime,
             attrs |-> o.attrs]
    BY DEF Objects
  <2>2. CopyOf(o, p, up) = [o EXCEPT !.streams = streams, !.eas = eas, !.mtime = m,
                                     !.ctime = c, !.attrs = attrs]
    BY Zenon DEF CopyOf
  <2> HIDE DEF m, c, attrs, streams, eas
  <2> QED BY <2>1, <2>2
<1>7. /\ o.kind \in {"dir", "file", "link"} /\ o.id \in Nat /\ o.data \in Seq(Nat)
      /\ o.link \in Nat
  BY DEF Objects
<1> HIDE DEF m, c, attrs, streams, eas
<1> QED BY <1>5, <1>6, <1>7 DEF Objects

LEMMA CopyIsTree ==
  ASSUME NEW t, IsTree(t), NEW p \in FilesystemPolicies, NEW up \in BOOLEAN
  PROVE  /\ IsTree([x \in DOMAIN t |-> CopyOf(t[x], p, up)])
         /\ DOMAIN [x \in DOMAIN t |-> CopyOf(t[x], p, up)] = DOMAIN t
BY CopyIsObject DEF IsTree

LEMMA DamagedIsTree ==
  ASSUME NEW t, IsTree(t), <<"a">> \in DOMAIN t, NEW d \in Damages, NEW p \in FilesystemPolicies
  PROVE  IsTree(Damaged(t, d, p))
<1> DEFINE a == <<"a">>
           D == <<"d">>
           df == <<"d", "f">>
           L == <<"l">>
           projected == p.srcProjects \/ p.fs \in {"wsl", "remote"}
<1>q. LastWriteQuantum(p.fs) \in Nat /\ CreationQuantum(p.fs) \in Nat
  BY DEF LastWriteQuantum, CreationQuantum
<1>a. \A x \in DOMAIN t : t[x] \in Objects
  BY DEF IsTree
<1> HIDE DEF a, D, df, L
<1>1. CASE d \in {"none", "clash"}
  BY <1>1 DEF Damaged
<1>2. CASE d = "content"
  <2>1. [t[a] EXCEPT !.data = <<1, 9>>] \in Objects
    <3>1. <<1, 9>> \in Seq(Nat)
      OBVIOUS
    <3> QED BY <3>1, <1>a DEF Objects, a
  <2>2. Damaged(t, d, p) = [t EXCEPT ![a] = [t[a] EXCEPT !.data = <<1, 9>>]]
    BY <1>2 DEF Damaged, a, D, df, L
  <2>3. IsTree([t EXCEPT ![a] = [t[a] EXCEPT !.data = <<1, 9>>]])
    BY <2>1, PutInto
  <2> QED BY <2>2, <2>3
<1>3. CASE d = "size"
  <2>1. df \in DOMAIN t => [t[df] EXCEPT !.data = <<1, 1>>] \in Objects
    <3>1. <<1, 1>> \in Seq(Nat)
      OBVIOUS
    <3> QED BY <3>1, <1>a DEF Objects
  <2>2. Damaged(t, d, p) = [t EXCEPT ![df] = [t[df] EXCEPT !.data = <<1, 1>>]]
    BY <1>3 DEF Damaged, a, D, df, L
  <2>3. IsTree([t EXCEPT ![df] = [t[df] EXCEPT !.data = <<1, 1>>]])
    BY <2>1, PutInto
  <2> QED BY <2>2, <2>3
<1>4. CASE d = "mtime"
  <2> DEFINE n == IF p.fs \in Fat THEN LastWriteQuantum(p.fs) ELSE 1
  <2>0. n \in Nat
    BY <1>q
  <2> HIDE DEF n
  <2>1. [t[a] EXCEPT !.mtime = @ + n] \in Objects
    <3>1. t[a].mtime + n \in Nat
      BY <1>a, <2>0 DEF Objects, a
    <3> QED BY <1>a, <3>1 DEF Objects, a
  <2>2. Damaged(t, d, p) = [t EXCEPT ![a] = [t[a] EXCEPT !.mtime = @ + n]]
    BY <1>4 DEF Damaged, n, a, D, df, L
  <2>3. IsTree([t EXCEPT ![a] = [t[a] EXCEPT !.mtime = @ + n]])
    BY <2>1, PutInto
  <2> QED BY <2>2, <2>3
<1>5. CASE d = "ctime"
  <2> DEFINE n == CreationQuantum(p.fs)
  <2>0. n \in Nat
    BY <1>q
  <2> HIDE DEF n
  <2>1. D \in DOMAIN t => [t[D] EXCEPT !.ctime = @ + n + 1] \in Objects
    <3> HAVE D \in DOMAIN t
    <3>1. t[D] \in Objects
      BY <1>a
    <3>2. t[D].ctime + n + 1 \in Nat
      BY <2>0, <3>1 DEF Objects
    <3> QED BY <3>1, <3>2 DEF Objects
  <2>2. Damaged(t, d, p) =
          IF projected THEN t ELSE [t EXCEPT ![D] = [t[D] EXCEPT !.ctime = @ + n + 1]]
    BY <1>5 DEF Damaged, n, a, D, df, L
  <2>3. IsTree([t EXCEPT ![D] = [t[D] EXCEPT !.ctime = @ + n + 1]])
    BY <2>1, PutInto
  <2> QED BY <2>2, <2>3
<1>6. CASE d = "attrs"
  <2>1. df \in DOMAIN t => [t[df] EXCEPT !.attrs = {}] \in Objects
    BY <1>a DEF Objects
  <2>2. Damaged(t, d, p) = IF projected THEN t ELSE [t EXCEPT ![df] = [t[df] EXCEPT !.attrs = {}]]
    BY <1>6 DEF Damaged, a, D, df, L
  <2>3. IsTree([t EXCEPT ![df] = [t[df] EXCEPT !.attrs = {}]])
    BY <2>1, PutInto
  <2> QED BY <2>2, <2>3
<1>7. CASE d = "stream"
  <2>1. [t[a] EXCEPT !.streams = 8] \in Objects
    BY <1>a DEF Objects, a
  <2>2. Damaged(t, d, p) = IF p.streams THEN [t EXCEPT ![a] = [t[a] EXCEPT !.streams = 8]] ELSE t
    BY <1>7 DEF Damaged, a, D, df, L
  <2>3. IsTree([t EXCEPT ![a] = [t[a] EXCEPT !.streams = 8]])
    BY <2>1, PutInto
  <2> QED BY <2>2, <2>3
<1>8. CASE d = "diraux"
  <2>1. D \in DOMAIN t => [t[D] EXCEPT !.streams = 9] \in Objects
    BY <1>a DEF Objects
  <2>2. Damaged(t, d, p) = IF p.streams THEN [t EXCEPT ![D] = [t[D] EXCEPT !.streams = 9]] ELSE t
    BY <1>8 DEF Damaged, a, D, df, L
  <2>3. IsTree([t EXCEPT ![D] = [t[D] EXCEPT !.streams = 9]])
    BY <2>1, PutInto
  <2> QED BY <2>2, <2>3
<1>9. CASE d = "eas"
  <2>1. [t[a] EXCEPT !.eas = 9] \in Objects
    BY <1>a DEF Objects, a
  <2>2. Damaged(t, d, p) = IF p.eas THEN [t EXCEPT ![a] = [t[a] EXCEPT !.eas = 9]] ELSE t
    BY <1>9 DEF Damaged, a, D, df, L
  <2>3. IsTree([t EXCEPT ![a] = [t[a] EXCEPT !.eas = 9]])
    BY <2>1, PutInto
  <2> QED BY <2>2, <2>3
<1>10. CASE d = "link"
  <2>1. L \in DOMAIN t => [t[L] EXCEPT !.link = 9] \in Objects
    BY <1>a DEF Objects
  <2>2. Damaged(t, d, p) = IF p.reparse THEN [t EXCEPT ![L] = [t[L] EXCEPT !.link = 9]] ELSE t
    BY <1>10 DEF Damaged, a, D, df, L
  <2>3. IsTree([t EXCEPT ![L] = [t[L] EXCEPT !.link = 9]])
    BY <2>1, PutInto
  <2> QED BY <2>2, <2>3
<1>11. CASE d = "kind"
  <2>1. df \in DOMAIN t => [t[df] EXCEPT !.kind = "dir"] \in Objects
    BY <1>a DEF Objects
  <2>2. Damaged(t, d, p) = [t EXCEPT ![df] = [t[df] EXCEPT !.kind = "dir"]]
    BY <1>11 DEF Damaged, a, D, df, L
  <2>3. IsTree([t EXCEPT ![df] = [t[df] EXCEPT !.kind = "dir"]])
    BY <2>1, PutInto
  <2> QED BY <2>2, <2>3
<1>12. CASE d = "missing"
  <2>1. Damaged(t, d, p) = [x \in DOMAIN t \ {df} |-> t[x]]
    BY <1>12 DEF Damaged, Restrict, df
  <2> QED BY <2>1, <1>a DEF IsTree
<1>13. CASE d = "extra"
  <2>1. Damaged(t, d, p) = With(t, <<"d", "x">>, t[a])
    BY <1>13 DEF Damaged, a
  <2>2. IsTree(With(t, <<"d", "x">>, t[a]))
    BY <1>a, AddedTo DEF a
  <2> QED BY <2>1, <2>2
<1>14. CASE d = "twin"
  <2>1. Damaged(t, d, p) = With(t, <<"A">>, t[a])
    BY <1>14 DEF Damaged, a
  <2>2. IsTree(With(t, <<"A">>, t[a]))
    BY <1>a, AddedTo DEF a
  <2> QED BY <2>1, <2>2
<1> QED BY <1>1, <1>2, <1>3, <1>4, <1>5, <1>6, <1>7, <1>8, <1>9, <1>10, <1>11, <1>12,
           <1>13, <1>14 DEF Damages

\* A digest is put together from its parts.
LEMMA Digests ==
  ASSUME NEW side, NEW path, NEW at \in DigestPlaces, NEW before, NEW opened,
         NEW data \in Seq(Nat), NEW streams, NEW eas
  PROVE  IsDigest([side |-> side, path |-> path, at |-> at, before |-> before,
                   opened |-> opened, data |-> data, streams |-> streams, eas |-> eas])
BY DEF IsDigest

LEMMA Start == Init => IInv
<1> SUFFICES ASSUME Init PROVE IInv
  OBVIOUS
<1> USE VerifyAssumption
<1>1. policy \in FilesystemPolicies /\ mode \in {"full", "copied"} /\ damage \in Damages
  BY DEF Init
<1>2. /\ tree = [src |-> tree["src"], dst |-> tree["dst"]]
      /\ IsTree(tree["src"]) /\ IsTree(tree["dst"])
  <2>1. PICK t \in Times, up \in BOOLEAN :
          tree = [src |-> IF damage = "clash"
                          THEN With(SourceTree(policy, t), <<"A">>, SourceTree(policy, t)[<<"a">>])
                          ELSE SourceTree(policy, t),
                  dst |-> Damaged([p \in DOMAIN SourceTree(policy, t) |->
                                      CopyOf(SourceTree(policy, t)[p], policy, up)],
                                  damage, policy)]
    BY DEF Init
  <2> DEFINE s == SourceTree(policy, t)
             c == [p \in DOMAIN s |-> CopyOf(s[p], policy, up)]
  <2>2. IsTree(s) /\ <<"a">> \in DOMAIN s
    BY <1>1, SourceIsTree
  <2>3. tree = [src |-> IF damage = "clash" THEN With(s, <<"A">>, s[<<"a">>]) ELSE s,
                dst |-> Damaged(c, damage, policy)]
    BY <2>1
  <2> HIDE DEF s
  <2>4. s[<<"a">>] \in Objects
    BY <2>2 DEF IsTree
  <2>5. IsTree(With(s, <<"A">>, s[<<"a">>]))
    BY <2>2, <2>4, AddedTo
  <2>6. IsTree(c) /\ <<"a">> \in DOMAIN c
    BY <1>1, <2>2, CopyIsTree
  <2> HIDE DEF c
  <2>7. IsTree(Damaged(c, damage, policy))
    BY <1>1, <2>6, DamagedIsTree
  <2> QED BY <2>2, <2>3, <2>5, <2>7
<1>3. Types
  <2>1. \A side \in Sides : IsTree(tree[side])
    BY <1>2 DEF Sides
  <2>2. held \in Objects \cup {None} /\ versions = [src |-> {}, dst |-> {}]
    BY DEF Init
  <2>3. pair = [src |-> << >>, dst |-> << >>, ok |-> None]
    BY DEF Init, NoPair
  <2>4. dg = [side |-> None, path |-> None, at |-> "none", before |-> None,
              opened |-> None, data |-> << >>, streams |-> 0, eas |-> 0]
    BY DEF Init, NoDigest
  <2>5. << >> \in Seq(Nat)
    OBVIOUS
  <2>6. IsDigest(dg)
    BY <2>4, <2>5, Digests DEF DigestPlaces
  <2> QED BY <1>1, <1>2, <2>1, <2>2, <2>3, <2>6 DEF Types
<1>4. Placed
  BY <1>1 DEF Init, Placed
<1>5. DigestInv
  BY <1>1 DEF Init, DigestInv, NoDigest
<1>6. PassIsWhole
  BY DEF Init, NoPair, PassIsWhole
<1> QED BY <1>3, <1>4, <1>5, <1>6 DEF IInv

-----------------------------------------------------------------------------
(* The walk.                                                                 *)

\* What the invariant says of the trees and of the digest, kept by what leaves them
\* alone and does not enter or leave a digest.
LEMMA Walks ==
  ASSUME IInv, st # "digest", st' # "digest",
         UNCHANGED <<fixed, tree, pair, dg, held, sdig, versions>>, Placed'
  PROVE  IInv'
<1>1. Types'
  BY DEF IInv, Types, fixed, IsTree
<1>2. DigestInv'
  BY DEF IInv, DigestInv
<1>3. PassIsWhole'
  BY DEF IInv, PassIsWhole, fixed
<1> QED BY <1>1, <1>2, <1>3 DEF IInv

LEMMA WalkInv == IInv /\ (VerifyRoot \/ Enumerate \/ Extras \/ Finished) => IInv'
<1> SUFFICES ASSUME IInv, VerifyRoot \/ Enumerate \/ Extras \/ Finished PROVE IInv'
  OBVIOUS
<1>p. Placed
  BY DEF IInv
<1>1. CASE VerifyRoot
  <2>1. /\ st = "root" /\ st' \in {"walk", "error"}
        /\ UNCHANGED <<fixed, tree, pair, dg, held, sdig, versions>>
    BY <1>1 DEF VerifyRoot
  <2>2. Placed'
    BY <1>p, <2>1 DEF Placed, fixed
  <2> QED BY <2>1, <2>2, Walks
<1>2. CASE Enumerate
  <2>1. /\ st = "walk" /\ st' \in {"walk", "entries"}
        /\ UNCHANGED <<fixed, tree, pair, dg, held, sdig, versions>>
    BY <1>2 DEF Enumerate
  <2>2. Placed'
    BY <1>p, <2>1 DEF Placed, fixed
  <2> QED BY <2>1, <2>2, Walks
<1>3. CASE Extras
  <2>1. /\ st = "entries" /\ st' = "walk"
        /\ UNCHANGED <<fixed, tree, pair, dg, held, sdig, versions>>
    BY <1>3 DEF Extras
  <2>2. Placed'
    BY <1>p, <2>1 DEF Placed, fixed
  <2> QED BY <2>1, <2>2, Walks
<1>4. CASE Finished
  <2>1. /\ st \in {"walk", "targets"} /\ st' = "done"
        /\ UNCHANGED <<fixed, tree, pair, dg, held, sdig, versions>>
    BY <1>4 DEF Finished
  <2>2. Placed'
    BY <1>p, <2>1 DEF Placed, fixed
  <2> QED BY <2>1, <2>2, Walks
<1> QED BY <1>1, <1>2, <1>3, <1>4

LEMMA StutterInv == IInv /\ UNCHANGED vars => IInv'
<1> SUFFICES ASSUME IInv, UNCHANGED vars PROVE IInv'
  OBVIOUS
<1>1. Types' /\ Placed'
  BY DEF IInv, Types, Placed, vars, fixed, walkVars, IsTree
<1>2. DigestInv'
  BY DEF IInv, DigestInv, Grown, Faithful, Quiet, ReadSoFar, Remembered, OfAVersion, There,
         Named, Object, Digested, Shows, ReadsStreams, ReadsEas, vars, fixed
<1>3. PassIsWhole'
  BY DEF IInv, PassIsWhole, vars, fixed
<1> QED BY <1>1, <1>2, <1>3 DEF IInv

\* A pair is taken up: nothing of it has been digested, and what either side is now
\* is remembered.
LEMMA TakenUp ==
  ASSUME IInv, st # "digest", st' = "digest", NEW s, NEW d, NEW side \in Sides,
         pair' = [src |-> s, dst |-> d, ok |-> None],
         dg' = Digest(side, IF side = "src" THEN s ELSE d),
         versions' = [src |-> Now("src", s), dst |-> Now("dst", d)],
         side = "dst" => \E v \in Now("src", s) : sdig' = Shows(v, "src"),
         UNCHANGED <<fixed, tree, held>>, Placed'
  PROVE  IInv'
<1>0. Types /\ DigestInv
  BY DEF IInv
<1> DEFINE path == IF side = "src" THEN s ELSE d
<1>1. dg' = [side |-> side, path |-> path, at |-> "before",
             before |-> None, opened |-> None, data |-> << >>, streams |-> 0, eas |-> 0]
  BY DEF Digest, NoDigest
<1>2. << >> \in Seq(Nat)
  OBVIOUS
<1> HIDE DEF path
<1>3. Types'
  <2>1. /\ policy' \in FilesystemPolicies /\ mode' \in {"full", "copied"}
        /\ tree' = [src |-> tree'["src"], dst |-> tree'["dst"]]
        /\ \A x \in Sides : IsTree(tree'[x])
        /\ held' \in Objects \cup {None}
    BY <1>0 DEF Types, IsDigest, fixed
  <2>2. /\ pair' = [src |-> pair'.src, dst |-> pair'.dst, ok |-> pair'.ok]
        /\ versions' = [src |-> versions'["src"], dst |-> versions'["dst"]]
    OBVIOUS
  <2>3. IsDigest(dg')
    BY <1>1, <1>2, Digests DEF DigestPlaces
  <2> QED BY <2>1, <2>2, <2>3 DEF Types
<1>4. Remembered'
  BY DEF Remembered, Now, Object, Sides
<1>5. OfAVersion'
  BY <1>1 DEF OfAVersion, Shows, ReadsStreams, ReadsEas, fixed
<1>6. Grown' /\ Faithful'
  BY <1>1 DEF Grown, Faithful
<1>7. held' = None
  BY <1>0 DEF DigestInv
<1>8. dg'.side \in Sides /\ dg'.path = pair'[dg'.side]
  BY <1>1 DEF Sides, path
<1>9. DigestInv'
  BY <1>1, <1>4, <1>5, <1>6, <1>7, <1>8 DEF DigestInv
<1>10. PassIsWhole'
  BY VerifyAssumption DEF PassIsWhole
<1> QED BY <1>3, <1>9, <1>10 DEF IInv

LEMMA MatchEntryInv == ASSUME NEW e \in entries PROVE IInv /\ MatchEntry(e) => IInv'
<1> SUFFICES ASSUME IInv, MatchEntry(e) PROVE IInv'
  OBVIOUS
<1> DEFINE k == Key(Last(e.path))
           s == e.path
           d == dmap[k].path
<1>1. /\ st = "entries"
      /\ UNCHANGED <<fixed, tree, held, sdig>>
      /\ \/ st' = "entries" /\ UNCHANGED <<pair, dg, versions>>
         \/ /\ st' = "digest"
            /\ pair' = [src |-> s, dst |-> d, ok |-> None]
            /\ dg' = Digest("src", s)
            /\ versions' = [src |-> Now("src", s), dst |-> Now("dst", d)]
  BY DEF MatchEntry
<1>2. mode' = "full" /\ Placed'
  BY <1>1 DEF IInv, Placed, fixed
<1>3. CASE st' = "entries" /\ UNCHANGED <<pair, dg, versions>>
  BY <1>1, <1>2, <1>3, Walks
<1>4. CASE st' = "digest" /\ ~ UNCHANGED <<pair, dg, versions>>
  <2> HIDE DEF s, d
  <2>1. /\ pair' = [src |-> s, dst |-> d, ok |-> None]
        /\ dg' = Digest("src", s)
        /\ versions' = [src |-> Now("src", s), dst |-> Now("dst", d)]
    BY <1>1, <1>4
  <2>2. "src" \in Sides /\ dg' = Digest("src", IF "src" = "src" THEN s ELSE d)
    BY <2>1 DEF Sides
  <2> QED BY <1>1, <1>2, <1>4, <2>1, <2>2, TakenUp
<1>5. CASE st' = "digest" /\ UNCHANGED <<pair, dg, versions>>
  <2>1. dg'.at = "before" /\ dg.at = "none"
    BY <1>1, <1>5 DEF Digest, NoDigest, IInv, DigestInv
  <2> QED BY <1>5, <2>1
<1> QED BY <1>1, <1>3, <1>4, <1>5

LEMMA NextTargetInv == ASSUME NEW p \in entries PROVE IInv /\ NextTarget(p) => IInv'
<1> SUFFICES ASSUME IInv, NextTarget(p) PROVE IInv'
  OBVIOUS
<1>1. /\ st = "targets" /\ st' = "digest"
      /\ entries' = entries \ {p}
      /\ UNCHANGED <<fixed, tree, held>>
      /\ pair' = [src |-> p, dst |-> p, ok |-> None]
      /\ dg' = Digest("dst", p)
      /\ versions' = [src |-> Now("src", p), dst |-> Now("dst", p)]
  BY DEF NextTarget
<1>2. mode = "copied" /\ entries \subseteq DOMAIN tree["src"]
  BY <1>1 DEF IInv, Placed
<1>3. Placed'
  BY <1>1, <1>2 DEF IInv, Placed, fixed
<1>4. \E v \in Now("src", p) : sdig' = Shows(v, "src")
  <2>1. Content(Object("src", p)) \in Now("src", p)
    BY <1>2 DEF Now
  <2>2. sdig' = Shows(Content(Object("src", p)), "src")
    BY DEF NextTarget, Shows, Content
  <2> QED BY <2>1, <2>2
<1>5. "dst" \in Sides /\ dg' = Digest("dst", IF "dst" = "src" THEN p ELSE p)
  BY <1>1 DEF Sides
<1> QED BY <1>1, <1>3, <1>4, <1>5, TakenUp

-----------------------------------------------------------------------------
(* The digest of one file.                                                   *)

\* A comparison ends; if it passed, two whole versions were equal.
LEMMA Judged ==
  ASSUME NEW ok, IInv, st = "digest", Judge(ok), UNCHANGED digestOnly, ok = TRUE => Whole
  PROVE  IInv'
<1>0. Types /\ Placed /\ DigestInv
  BY DEF IInv
<1>1. /\ pair' = [pair EXCEPT !.ok = ok]
      /\ dg' = NoDigest /\ held' = None /\ sdig' = None
      /\ st' = (IF mode = "full" THEN "entries" ELSE "targets")
      /\ UNCHANGED <<fixed, tree, walkVars, versions>>
  BY DEF Judge, digestOnly
<1>2. pair' = [src |-> pair.src, dst |-> pair.dst, ok |-> ok]
  BY <1>0, <1>1 DEF Types, IsDigest
<1>3. Types'
  <2>1. << >> \in Seq(Nat)
    OBVIOUS
  <2>2. /\ policy' \in FilesystemPolicies /\ mode' \in {"full", "copied"}
        /\ tree' = [src |-> tree'["src"], dst |-> tree'["dst"]]
        /\ \A x \in Sides : IsTree(tree'[x])
        /\ held' \in Objects \cup {None}
        /\ versions' = [src |-> versions'["src"], dst |-> versions'["dst"]]
    BY <1>0, <1>1 DEF Types, IsDigest, fixed
  <2>3. pair' = [src |-> pair'.src, dst |-> pair'.dst, ok |-> pair'.ok]
    BY <1>2
  <2>4. IsDigest(dg')
    BY <1>1, <2>1, Digests DEF DigestPlaces, NoDigest
  <2> QED BY <2>2, <2>3, <2>4 DEF Types
<1>4. Placed'
  BY <1>0, <1>1 DEF Placed, Types, fixed, walkVars
<1>5. DigestInv'
  BY <1>0, <1>1 DEF DigestInv, NoDigest
<1>6. PassIsWhole'
  <2>1. Whole => Whole'
    BY <1>1 DEF Whole, fixed
  <2>2. pair'.ok = TRUE => Whole'
    BY <1>2, <2>1
  <2> QED BY <2>2 DEF PassIsWhole, Whole
<1> QED BY <1>3, <1>4, <1>5, <1>6 DEF IInv

\* A digest goes on: the trees, the pair and the walk stay.
LEMMA Digesting ==
  ASSUME IInv, st = "digest", UNCHANGED <<digestOnly, st, pair>>,
         held' \in Objects \cup {None}, DigestInv', IsDigest(dg')
  PROVE  IInv'
<1>0. Types /\ Placed /\ DigestInv
  BY DEF IInv
<1>1. UNCHANGED <<fixed, tree, walkVars, versions, pair, st>>
  BY DEF digestOnly
<1>2. Types'
  <2>1. /\ policy' \in FilesystemPolicies /\ mode' \in {"full", "copied"}
        /\ tree' = [src |-> tree'["src"], dst |-> tree'["dst"]]
        /\ \A x \in Sides : IsTree(tree'[x])
        /\ versions' = [src |-> versions'["src"], dst |-> versions'["dst"]]
        /\ pair' = [src |-> pair'.src, dst |-> pair'.dst, ok |-> pair'.ok]
    BY <1>0, <1>1 DEF Types, IsDigest, fixed
  <2> QED BY <2>1 DEF Types
<1>3. Placed'
  BY <1>0, <1>1 DEF Placed, fixed, walkVars
<1>4. PassIsWhole'
  BY <1>1 DEF IInv, PassIsWhole, fixed
<1> QED BY <1>2, <1>3, <1>4 DEF IInv

LEMMA DigestFailsInv == IInv /\ DigestFails => IInv'
<1> SUFFICES ASSUME IInv, DigestFails PROVE IInv'
  OBVIOUS
<1>1. st = "digest" /\ Judge(FALSE) /\ UNCHANGED digestOnly
  BY DEF DigestFails
<1> QED BY <1>1, Judged

\* The object under the name of a file being digested.
LEMMA NamedObject ==
  ASSUME IInv, st = "digest", There
  PROVE  /\ Named \in Objects
         /\ Named.id \in Nat /\ Named.mtime \in Nat /\ Named.data \in Seq(Nat)
BY DEF IInv, Types, DigestInv, IsTree, There, Named, Object, Objects

LEMMA DigestOpensInv == IInv /\ DigestOpens => IInv'
<1> SUFFICES ASSUME IInv, DigestOpens PROVE IInv'
  OBVIOUS
<1>0. Types /\ Placed /\ DigestInv
  BY DEF IInv
<1>1. st = "digest" /\ dg.at \in {"before", "open"} /\ UNCHANGED digestOnly
  BY DEF DigestOpens
<1>2. CASE Judge(FALSE)
  BY <1>1, <1>2, Judged
<1>3. CASE There /\ dg.at = "before" /\ UNCHANGED <<st, pair, held, sdig>>
           /\ dg' = [dg EXCEPT !.before = Stat(Named), !.at = "open"]
  <2>1. dg' = [side |-> dg.side, path |-> dg.path, at |-> "open", before |-> Stat(Named),
               opened |-> dg.opened, data |-> dg.data, streams |-> dg.streams, eas |-> dg.eas]
    BY <1>0, <1>3 DEF Types, IsDigest
  <2>2. /\ UNCHANGED <<tree, versions, policy, pair, st, sdig, held>>
    BY <1>1, <1>3 DEF digestOnly, fixed
  <2>3. dg.data = << >> /\ dg.data \in Seq(Nat) /\ held = None
    BY <1>0, <1>1, <1>3 DEF DigestInv, Types, IsDigest
  <2>4. There' /\ Named' = Named
    BY <1>3, <2>1, <2>2 DEF There, Named, Object
  <2>5. Grown'
    BY <1>1, <1>3, <2>1, <2>4, NamedObject DEF Grown, Stat
  <2>6. Faithful'
    BY <1>1, <1>3, <2>1, <2>3, <2>4, NamedObject DEF Faithful, ReadSoFar
  <2>7. Remembered' /\ OfAVersion'
    BY <1>0, <1>1, <2>1, <2>2
    DEF DigestInv, Remembered, OfAVersion, Object, Shows, ReadsStreams, ReadsEas
  <2>8. DigestInv'
    BY <1>0, <1>1, <2>1, <2>2, <2>3, <2>5, <2>6, <2>7 DEF DigestInv
  <2>d. IsDigest(dg')
    BY <2>1, <2>3, Digests DEF DigestPlaces
  <2> QED BY <1>1, <1>3, <2>1, <2>2, <2>3, <2>8, <2>d, Digesting
<1>4. CASE There /\ dg.at = "open" /\ UNCHANGED <<st, pair, held, sdig>>
           /\ dg' = [dg EXCEPT !.opened = Stat(Named), !.at = "read"]
  <2>1. dg' = [side |-> dg.side, path |-> dg.path, at |-> "read", before |-> dg.before,
               opened |-> Stat(Named), data |-> dg.data, streams |-> dg.streams, eas |-> dg.eas]
    BY <1>0, <1>4 DEF Types, IsDigest
  <2>2. /\ UNCHANGED <<tree, versions, policy, pair, st, sdig, held>>
    BY <1>1, <1>4 DEF digestOnly, fixed
  <2>3. dg.data \in Seq(Nat) /\ held = None
    BY <1>0, <1>1, <1>4 DEF DigestInv, Types, IsDigest
  <2>4. (There' <=> There) /\ Named' = Named /\ (Quiet' <=> Quiet)
    BY <2>1, <2>2 DEF There, Named, Object, Quiet, Stat
  <2>5. Grown'
    BY <1>0, <1>1, <1>4, <2>1, <2>4 DEF DigestInv, Grown
  <2>6. Faithful'
    BY <1>0, <1>1, <1>4, <2>1, <2>2, <2>3, <2>4 DEF DigestInv, Faithful, ReadSoFar
  <2>7. Remembered' /\ OfAVersion'
    BY <1>0, <1>1, <2>1, <2>2
    DEF DigestInv, Remembered, OfAVersion, Object, Shows, ReadsStreams, ReadsEas
  <2>8. DigestInv'
    BY <1>0, <1>1, <2>1, <2>2, <2>3, <2>5, <2>6, <2>7 DEF DigestInv
  <2>d. IsDigest(dg')
    BY <2>1, <2>3, Digests DEF DigestPlaces
  <2> QED BY <1>1, <1>4, <2>1, <2>2, <2>3, <2>8, <2>d, Digesting
<1> QED BY <1>1, <1>2, <1>3, <1>4 DEF DigestOpens

\* A step of a digest that leaves the trees alone shows the same object.
LEMMA SameObject ==
  ASSUME UNCHANGED <<tree, policy>>, dg'.side = dg.side, dg'.path = dg.path, dg'.before = dg.before
  PROVE  /\ There' <=> There
         /\ Named' = Named
         /\ Quiet' <=> Quiet
BY DEF There, Named, Object, Quiet, Stat

\* What does not depend on how far a digest is.
LEMMA DigestKeeps ==
  ASSUME Types, DigestInv, st = "digest", UNCHANGED <<digestOnly, st, pair, sdig>>,
         held' # None => dg'.at = "read",
         dg'.side = dg.side, dg'.path = dg.path, dg'.before = dg.before,
         dg.at \notin {"none", "before"}, dg'.at \notin {"none", "before", "done"},
         Faithful'
  PROVE  DigestInv'
<1>1. UNCHANGED <<tree, policy, versions>>
  BY DEF digestOnly, fixed
<1>2. Grown'
  BY <1>1, SameObject DEF DigestInv, Grown
<1>3. Remembered' /\ OfAVersion'
  BY <1>1 DEF DigestInv, Remembered, OfAVersion, Object, Shows, ReadsStreams, ReadsEas
<1> QED BY <1>2, <1>3 DEF DigestInv

LEMMA DigestReadsInv == IInv /\ DigestReads => IInv'
<1> SUFFICES ASSUME IInv, DigestReads PROVE IInv'
  OBVIOUS
<1>0. Types /\ DigestInv
  BY DEF IInv
<1>1. /\ st = "digest" /\ dg.at = "read" /\ (held # None \/ There)
      /\ Len(dg.data) < Len(Handle.data)
      /\ dg' = [dg EXCEPT !.data = Append(@, Handle.data[Len(@) + 1])]
      /\ UNCHANGED <<digestOnly, st, pair, held, sdig>>
  BY DEF DigestReads
<1>2. Handle \in Objects /\ Handle.data \in Seq(Nat)
  BY <1>0, <1>1, NamedObject DEF Types, IsDigest, Handle, Objects
<1> DEFINE n == Len(dg.data) + 1
           next == Append(dg.data, Handle.data[n])
<1>3. /\ n \in 1 .. Len(Handle.data)
      /\ next \in Seq(Nat) /\ Len(next) = n /\ next[n] = Handle.data[n]
      /\ \A i \in 1 .. Len(dg.data) : next[i] = dg.data[i]
  BY <1>0, <1>1, <1>2 DEF Types, IsDigest
<1>4. dg' = [side |-> dg.side, path |-> dg.path, at |-> "read", before |-> dg.before,
             opened |-> dg.opened, data |-> next, streams |-> dg.streams, eas |-> dg.eas]
  BY <1>0, <1>1 DEF Types, IsDigest
<1> HIDE DEF next
<1>5. Faithful'
  <2> SUFFICES ASSUME Quiet' PROVE ReadSoFar' /\ held' = None
    BY <1>4 DEF Faithful
  <2>1. UNCHANGED <<tree, policy>>
    BY <1>1 DEF digestOnly, fixed
  <2>2. Quiet /\ Named' = Named
    BY <1>4, <2>1, SameObject
  <2>3. held = None /\ Handle = Named /\ ReadSoFar
    BY <1>0, <1>1, <2>2 DEF DigestInv, Faithful, Handle
  <2>4. ReadSoFar'
    <3>1. n <= Len(Named.data)
      BY <1>3, <2>3
    <3>2. \A i \in 1 .. n : next[i] = Named.data[i]
      <4>1. \A i \in 1 .. n : i \in 1 .. Len(dg.data) \/ i = n
        BY <1>0 DEF Types, IsDigest
      <4> QED BY <1>3, <2>3, <4>1 DEF ReadSoFar
    <3> QED BY <1>3, <1>4, <2>2, <3>1, <3>2 DEF ReadSoFar
  <2> QED BY <1>1, <2>3, <2>4
<1>6. DigestInv'
  BY <1>0, <1>1, <1>4, <1>5, DigestKeeps
<1>7. held' \in Objects \cup {None}
  BY <1>0, <1>1 DEF Types, IsDigest
<1>d. IsDigest(dg')
  BY <1>3, <1>4, Digests DEF DigestPlaces
<1> QED BY <1>1, <1>3, <1>4, <1>6, <1>7, <1>d, Digesting

LEMMA DigestChecksInv == IInv /\ DigestChecks => IInv'
<1> SUFFICES ASSUME IInv, DigestChecks PROVE IInv'
  OBVIOUS
<1>0. Types /\ DigestInv
  BY DEF IInv
<1>1. /\ st = "digest" /\ dg.at = "read" /\ (held # None \/ There)
      /\ UNCHANGED digestOnly
  BY DEF DigestChecks
<1>2. CASE Judge(FALSE)
  BY <1>1, <1>2, Judged
<1>3. CASE /\ Len(dg.data) = Len(Handle.data)
           /\ dg' = [dg EXCEPT !.at = "streams"]
           /\ held' = None
           /\ UNCHANGED <<st, pair, sdig>>
  <2>1. dg' = [side |-> dg.side, path |-> dg.path, at |-> "streams", before |-> dg.before,
               opened |-> dg.opened, data |-> dg.data, streams |-> dg.streams, eas |-> dg.eas]
    BY <1>0, <1>3 DEF Types, IsDigest
  <2>2. dg.data \in Seq(Nat)
    BY <1>0 DEF Types, IsDigest
  <2>3. Faithful'
    <3> SUFFICES ASSUME Quiet' PROVE dg'.data = Named'.data
      BY <2>1 DEF Faithful
    <3>1. UNCHANGED <<tree, policy>>
      BY <1>1 DEF digestOnly, fixed
    <3>2. Quiet /\ Named' = Named
      BY <2>1, <3>1, SameObject
    <3>3. Handle = Named /\ ReadSoFar
      BY <1>0, <1>1, <3>2 DEF DigestInv, Faithful, Handle
    <3>4. Named.data \in Seq(Nat)
      BY <1>1, <3>2, NamedObject DEF Quiet
    <3>5. dg.data = Named.data
      BY <1>3, <2>2, <3>3, <3>4, SeqEqual DEF ReadSoFar
    <3> QED BY <2>1, <3>2, <3>5
  <2>4. DigestInv'
    BY <1>0, <1>1, <1>3, <2>1, <2>3, DigestKeeps
  <2>d. IsDigest(dg')
    BY <2>1, <2>2, Digests DEF DigestPlaces
  <2> QED BY <1>1, <1>3, <2>1, <2>2, <2>4, <2>d, Digesting
<1> QED BY <1>1, <1>2, <1>3 DEF DigestChecks

LEMMA DigestAuxInv == IInv /\ DigestAux => IInv'
<1> SUFFICES ASSUME IInv, DigestAux PROVE IInv'
  OBVIOUS
<1>0. Types /\ DigestInv
  BY DEF IInv
<1>1. /\ st = "digest" /\ dg.at \in {"streams", "eas"} /\ UNCHANGED digestOnly
  BY DEF DigestAux
<1>a. UNCHANGED <<tree, policy>>
  BY <1>1 DEF digestOnly, fixed
<1>b. held \in Objects \cup {None} /\ held = None /\ dg.data \in Seq(Nat)
  BY <1>0, <1>1 DEF Types, IsDigest, DigestInv
<1>2. CASE Judge(FALSE)
  BY <1>1, <1>2, Judged
<1>3. CASE /\ dg.at = "streams" /\ UNCHANGED <<st, pair, held, sdig>>
           /\ dg' = [dg EXCEPT !.at = "eas",
                        !.streams = IF ReadsStreams(dg.side) THEN Named.streams ELSE 0]
  <2> DEFINE v == IF ReadsStreams(dg.side) THEN Named.streams ELSE 0
  <2>1. dg' = [side |-> dg.side, path |-> dg.path, at |-> "eas", before |-> dg.before,
               opened |-> dg.opened, data |-> dg.data, streams |-> v, eas |-> dg.eas]
    BY <1>0, <1>3 DEF Types, IsDigest
  <2> HIDE DEF v
  <2>2. Faithful'
    <3> SUFFICES ASSUME Quiet' PROVE dg'.data = Named'.data /\ dg'.streams = v'
      BY <2>1 DEF Faithful, v
    <3>1. Quiet /\ Named' = Named
      BY <1>a, <2>1, SameObject
    <3>2. v' = v
      BY <1>a, <2>1, <3>1 DEF v, ReadsStreams
    <3>3. dg.data = Named.data
      BY <1>0, <1>1, <1>3, <3>1 DEF DigestInv, Faithful
    <3> QED BY <2>1, <3>1, <3>2, <3>3
  <2>3. DigestInv'
    BY <1>0, <1>1, <1>b, <1>3, <2>1, <2>2, DigestKeeps
  <2>d. IsDigest(dg')
    BY <1>b, <2>1, Digests DEF DigestPlaces
  <2> QED BY <1>1, <1>b, <1>3, <2>1, <2>3, <2>d, Digesting
<1>4. CASE /\ dg.at = "eas" /\ UNCHANGED <<st, pair, held, sdig>>
           /\ dg' = [dg EXCEPT !.at = "after",
                        !.eas = IF ReadsEas(dg.side) THEN Named.eas ELSE 0]
  <2> DEFINE v == IF ReadsEas(dg.side) THEN Named.eas ELSE 0
             w == IF ReadsStreams(dg.side) THEN Named.streams ELSE 0
  <2>1. dg' = [side |-> dg.side, path |-> dg.path, at |-> "after", before |-> dg.before,
               opened |-> dg.opened, data |-> dg.data, streams |-> dg.streams, eas |-> v]
    BY <1>0, <1>4 DEF Types, IsDigest
  <2> HIDE DEF v, w
  <2>2. Faithful'
    <3> SUFFICES ASSUME Quiet'
                 PROVE  dg'.data = Named'.data /\ dg'.streams = w' /\ dg'.eas = v'
      BY <2>1 DEF Faithful, v, w
    <3>1. Quiet /\ Named' = Named
      BY <1>a, <2>1, SameObject
    <3>2. v' = v /\ w' = w
      BY <1>a, <2>1, <3>1 DEF v, w, ReadsStreams, ReadsEas
    <3>3. dg.data = Named.data /\ dg.streams = w
      BY <1>0, <1>1, <1>4, <3>1 DEF DigestInv, Faithful, w
    <3> QED BY <2>1, <3>1, <3>2, <3>3
  <2>3. DigestInv'
    BY <1>0, <1>1, <1>b, <1>4, <2>1, <2>2, DigestKeeps
  <2>d. IsDigest(dg')
    BY <1>b, <2>1, Digests DEF DigestPlaces
  <2> QED BY <1>1, <1>b, <1>4, <2>1, <2>3, <2>d, Digesting
<1> QED BY <1>1, <1>2, <1>3, <1>4 DEF DigestAux

\* What a digest shows at its end, if nothing has changed, is what is there, which is
\* a version that is remembered.
LEMMA EndShows ==
  ASSUME IInv, st = "digest", dg.at = "after", NameUnchanged
  PROVE  \E v \in versions[dg.side] : Digested = Shows(v, dg.side)
<1>1. DigestInv /\ Quiet
  BY DEF IInv, Quiet, NameUnchanged
<1>2. Content(Named) \in versions[dg.side]
  BY <1>1 DEF DigestInv, Remembered, Quiet, There, Named
<1>3. Digested = Shows(Content(Named), dg.side)
  BY <1>1 DEF DigestInv, Faithful, Digested, Shows, Content
<1> QED BY <1>2, <1>3

LEMMA DigestEndsInv == IInv /\ DigestEnds => IInv'
<1> SUFFICES ASSUME IInv, DigestEnds PROVE IInv'
  OBVIOUS
<1>0. Types /\ DigestInv
  BY DEF IInv
<1>1. st = "digest" /\ dg.at = "after" /\ UNCHANGED digestOnly
  BY DEF DigestEnds
<1>a. UNCHANGED <<tree, policy, versions>>
  BY <1>1 DEF digestOnly, fixed
<1>b. held \in Objects \cup {None} /\ held = None
  BY <1>0, <1>1 DEF Types, IsDigest, DigestInv
<1>2. CASE Judge(FALSE)
  BY <1>1, <1>2, Judged
<1>3. CASE /\ NameUnchanged /\ dg.side = "src"
           /\ sdig' = Digested
           /\ dg' = Digest("dst", pair.dst)
           /\ UNCHANGED <<st, pair, held>>
  <2>1. dg' = [side |-> "dst", path |-> pair.dst, at |-> "before", before |-> None,
               opened |-> None, data |-> << >>, streams |-> 0, eas |-> 0]
    BY <1>3 DEF Digest, NoDigest
  <2>2. << >> \in Seq(Nat)
    OBVIOUS
  <2>3. Grown' /\ Faithful'
    BY <2>1 DEF Grown, Faithful
  <2>4. Remembered'
    BY <1>0, <1>1, <1>3, <1>a DEF DigestInv, Remembered, Object
  <2>5. OfAVersion'
    BY <1>1, <1>3, <1>a, <2>1, EndShows DEF OfAVersion, Shows, ReadsStreams, ReadsEas
  <2>6. dg'.side \in Sides /\ dg'.path = pair'[dg'.side]
    BY <1>0, <1>3, <2>1 DEF Sides, Types
  <2>7. DigestInv'
    BY <1>0, <1>1, <1>3, <1>b, <2>1, <2>3, <2>4, <2>5, <2>6 DEF DigestInv
  <2>d. IsDigest(dg')
    BY <1>1, <1>3, <1>b, <2>1, <2>2, <2>7, Digests DEF DigestPlaces
  <2> QED BY <1>1, <1>3, <1>b, <2>1, <2>2, <2>7, <2>d, Digesting
<1>4. CASE /\ NameUnchanged /\ dg.side # "src"
           /\ dg' = [dg EXCEPT !.at = "done"]
           /\ UNCHANGED <<st, pair, held, sdig>>
  <2>1. dg' = [side |-> dg.side, path |-> dg.path, at |-> "done", before |-> dg.before,
               opened |-> dg.opened, data |-> dg.data, streams |-> dg.streams, eas |-> dg.eas]
    BY <1>0, <1>4 DEF Types, IsDigest
  <2>2. dg.data \in Seq(Nat) /\ dg.side = "dst"
    BY <1>0, <1>1, <1>4 DEF Types, IsDigest, DigestInv, Sides
  <2>3. Grown' /\ Faithful'
    <3>1. Grown'
      BY <1>0, <1>1, <1>a, <2>1, SameObject DEF DigestInv, Grown
    <3> QED BY <2>1, <3>1 DEF Faithful
  <2>4. Remembered'
    BY <1>0, <1>1, <1>4, <1>a DEF DigestInv, Remembered, Object
  <2>5. OfAVersion'
    <3>1. \E w \in versions["dst"] : Digested = Shows(w, "dst")
      BY <1>1, <1>4, <2>2, EndShows
    <3>2. Digested' = Digested
      BY <2>1 DEF Digested
    <3>3. \E v \in versions["src"] : sdig = Shows(v, "src")
      BY <1>0, <1>1, <2>2 DEF DigestInv, OfAVersion
    <3> QED BY <1>4, <1>a, <2>1, <2>2, <3>1, <3>2, <3>3
         DEF OfAVersion, Shows, ReadsStreams, ReadsEas
  <2>6. DigestInv'
    BY <1>0, <1>1, <1>4, <1>b, <2>1, <2>3, <2>4, <2>5 DEF DigestInv
  <2>d. IsDigest(dg')
    BY <2>1, <2>2, Digests DEF DigestPlaces
  <2> QED BY <1>1, <1>4, <1>b, <2>1, <2>2, <2>6, <2>d, Digesting
<1> QED BY <1>1, <1>2, <1>3, <1>4 DEF DigestEnds

LEMMA CompareInv == IInv /\ Compare => IInv'
<1> SUFFICES ASSUME IInv, Compare PROVE IInv'
  OBVIOUS
<1> DEFINE ok == /\ Digested = sdig
                 /\ mode = "copied" => /\ There
                                       /\ MetadataEqual(Object("src", pair.src), Named)
<1>1. st = "digest" /\ dg.at = "done" /\ Judge(ok) /\ UNCHANGED digestOnly
  BY DEF Compare
<1>2. ok = TRUE => Whole
  <2> SUFFICES ASSUME Digested = sdig PROVE Whole
    OBVIOUS
  <2>1. OfAVersion /\ dg.side = "dst"
    BY <1>1 DEF IInv, DigestInv, OfAVersion
  <2>2. PICK v \in versions["src"] : sdig = Shows(v, "src")
    BY <2>1 DEF OfAVersion
  <2>3. PICK w \in versions["dst"] : Digested = Shows(w, "dst")
    BY <1>1, <2>1 DEF OfAVersion
  <2>4. Shows(v, "src") = Shows(w, "dst")
    BY <2>2, <2>3
  <2>5. policy \in FilesystemPolicies
    BY DEF IInv, Types
  <2>6. /\ v.data = w.data
        /\ policy.streams => w.streams = (IF policy.srcStreams THEN v.streams ELSE 0)
        /\ policy.eas => w.eas = (IF policy.srcEas THEN v.eas ELSE 0)
    BY <2>4, <2>5 DEF Shows, ReadsStreams, ReadsEas, FilesystemPolicies
  <2> QED BY <2>6 DEF Whole
<1> HIDE DEF ok
<1> QED BY <1>1, <1>2, Judged

-----------------------------------------------------------------------------
(* Other programs.                                                           *)

\* An open handle goes on with the object whose name was taken.
Kept(side, path) ==
    IF dg.side = side /\ dg.path = path /\ dg.at = "read" THEN Object(side, path) ELSE held

\* A file changes into an object that is newer: a digest that has begun will see it.
LEMMA Changed ==
  ASSUME IInv, NEW side \in Sides, NEW path \in DOMAIN tree[side], NEW o \in Objects,
         Becomes(side, path, o),
         o.id >= Object(side, path).id, o.mtime >= Object(side, path).mtime,
         o.id # Object(side, path).id \/ o.mtime # Object(side, path).mtime,
         mode = "copied" => side = "dst",
         held' \in {held, Kept(side, path)}
  PROVE  IInv'
<1>0. Types /\ Placed /\ DigestInv
  BY DEF IInv
<1>1. /\ tree' = [tree EXCEPT ![side][path] = o]
      /\ versions' = (IF pair[side] = path
                      THEN [versions EXCEPT ![side] = @ \cup {Content(o)}] ELSE versions)
      /\ UNCHANGED <<policy, mode, st, entries, pair, dg, sdig>>
  BY DEF Becomes, fixed, walkVars
<1>2. DOMAIN tree = Sides /\ DOMAIN versions = Sides
  BY <1>0 DEF Types, Sides
<1>3. \A x \in Sides : tree'[x] = IF x = side THEN [tree[side] EXCEPT ![path] = o] ELSE tree[x]
  BY <1>1, <1>2
<1>4. \A x \in Sides : DOMAIN tree'[x] = DOMAIN tree[x]
  BY <1>0, <1>3 DEF Types, IsTree
<1>5. \A x \in Sides : \A y \in DOMAIN tree[x] :
        tree'[x][y] = IF x = side /\ y = path THEN o ELSE tree[x][y]
  BY <1>0, <1>3 DEF Types, IsTree
<1>6. Object(side, path) \in Objects
  BY <1>0 DEF Types, IsTree, Object
<1>7. /\ o.id \in Nat /\ o.mtime \in Nat
      /\ Object(side, path).id \in Nat /\ Object(side, path).mtime \in Nat
  BY <1>6 DEF Objects
<1>8. Types'
  <2>1. tree' = [src |-> tree'["src"], dst |-> tree'["dst"]]
    BY <1>0, <1>1 DEF Types, Sides
  <2>2. \A x \in Sides : IsTree(tree'[x])
    BY <1>0, <1>3 DEF Types, IsTree
  <2>3. versions' = [src |-> versions'["src"], dst |-> versions'["dst"]]
    BY <1>0, <1>1 DEF Types, Sides
  <2>4. held' \in Objects \cup {None}
    BY <1>0, <1>6 DEF Types, Kept
  <2>5. /\ policy' \in FilesystemPolicies /\ mode' \in {"full", "copied"}
        /\ pair' = [src |-> pair'.src, dst |-> pair'.dst, ok |-> pair'.ok]
        /\ IsDigest(dg)'
    BY <1>0, <1>1 DEF Types, IsDigest
  <2> QED BY <2>1, <2>2, <2>3, <2>4, <2>5 DEF Types
<1>9. Placed'
  BY <1>0, <1>1, <1>4 DEF Placed, Sides
<1>10. \A x \in Sides : versions[x] \subseteq versions'[x]
  BY <1>1, <1>2
<1>11. PassIsWhole'
  <2>1. "src" \in Sides /\ "dst" \in Sides
    BY DEF Sides
  <2> QED BY <1>1, <1>10, <2>1 DEF IInv, PassIsWhole
<1>12. DigestInv'
  <2>1. held' # None => held # None \/ dg.at = "read"
    BY DEF Kept
  <2>2. CASE st # "digest"
    BY <1>0, <1>1, <2>1, <2>2 DEF DigestInv
  <2>3. CASE st = "digest"
    <3>1. dg.side \in Sides /\ dg.path = pair[dg.side] /\ (There' <=> There)
      BY <1>0, <1>1, <1>4, <2>3 DEF DigestInv, There
    <3>2. Grown' /\ Faithful'
      <4>1. CASE dg.side = side /\ dg.path = path
        <5>1. There /\ There' /\ Named = Object(side, path) /\ Named' = o
          BY <1>1, <1>5, <3>1, <4>1 DEF There, Named, Object
        <5>2. Grown'
          BY <1>0, <1>1, <1>7, <2>3, <5>1 DEF DigestInv, Grown
        <5>3. dg.at \notin {"none", "before"} => ~Quiet'
          BY <1>0, <1>1, <1>7, <2>3, <5>1 DEF DigestInv, Grown, Quiet, Stat
        <5>4. Faithful'
          BY <1>1, <5>3 DEF Faithful
        <5> QED BY <5>2, <5>4
      <4>2. CASE ~(dg.side = side /\ dg.path = path)
        <5>1. There => Named' = Named
          BY <1>1, <1>5, <3>1, <4>2 DEF There, Named, Object
        <5>2. held' = held
          BY <4>2 DEF Kept
        <5>3. Grown'
          BY <1>0, <1>1, <2>3, <3>1, <5>1 DEF DigestInv, Grown
        <5>4. Quiet' => Quiet /\ Named' = Named
          BY <1>1, <3>1, <5>1 DEF Quiet, Stat
        <5>5. Faithful'
          BY <1>0, <1>1, <2>3, <5>2, <5>4 DEF DigestInv, Faithful, ReadSoFar, ReadsStreams, ReadsEas
        <5> QED BY <5>3, <5>5
      <4> QED BY <4>1, <4>2
    <3>3. Remembered'
      <4> SUFFICES ASSUME NEW x \in Sides, pair[x] \in DOMAIN tree[x]
                   PROVE  Content(tree'[x][pair[x]]) \in versions'[x]
        BY <1>1, <1>4 DEF Remembered, Object
      <4>1. CASE x = side /\ pair[x] = path
        BY <1>1, <1>2, <1>5, <4>1
      <4>2. CASE ~(x = side /\ pair[x] = path)
        BY <1>0, <1>5, <1>10, <2>3, <4>2 DEF DigestInv, Remembered, Object
      <4> QED BY <4>1, <4>2
    <3>4. OfAVersion'
      <4>1. "src" \in Sides /\ "dst" \in Sides
        BY DEF Sides
      <4>2. /\ dg.side = "dst" => \E v \in versions["src"] : sdig = Shows(v, "src")
            /\ dg.at = "done" =>
                 dg.side = "dst" /\ \E w \in versions["dst"] : Digested = Shows(w, "dst")
        BY <1>0, <2>3 DEF DigestInv, OfAVersion
      <4> QED BY <1>1, <1>10, <4>1, <4>2 DEF OfAVersion, Digested, Shows, ReadsStreams, ReadsEas
    <3> QED BY <1>0, <1>1, <2>1, <2>3, <3>2, <3>3, <3>4 DEF DigestInv
  <2> QED BY <2>2, <2>3
<1> QED BY <1>8, <1>9, <1>11, <1>12 DEF IInv

LEMMA WriteFileInv ==
  ASSUME NEW side \in Sides, NEW path \in DOMAIN tree[side]
  PROVE  IInv /\ WriteFile(side, path) => IInv'
<1> SUFFICES ASSUME IInv, WriteFile(side, path) PROVE IInv'
  OBVIOUS
<1> DEFINE old == Object(side, path)
<1>1. (mode = "copied" => side = "dst") /\ held' = held
  BY DEF WriteFile, Changing
<1>2. old \in Objects
  BY DEF IInv, Types, IsTree, Object
<1>3. old.mtime \in Nat /\ old.mtime + 5 \in Nat /\ old.id \in Nat /\ old.data \in Seq(Nat)
  BY <1>2 DEF Objects
<1>4. ASSUME NEW o \in Objects, Becomes(side, path, o), o.id = old.id, o.mtime = old.mtime + 5
      PROVE  IInv'
  BY <1>1, <1>3, <1>4, Changed
<1>5. ASSUME NEW i \in DOMAIN old.data,
             Becomes(side, path, [old EXCEPT !.data[i] = 7, !.mtime = @ + 5])
      PROVE  IInv'
  <2> DEFINE data == [old.data EXCEPT ![i] = 7]
             o == [old EXCEPT !.data = data, !.mtime = @ + 5]
  <2>1. data \in Seq(Nat)
    BY <1>3
  <2> HIDE DEF data
  <2>2. o \in Objects /\ o.id = old.id /\ o.mtime = old.mtime + 5
    BY <1>2, <1>3, <2>1 DEF Objects
  <2>3. [old EXCEPT !.data[i] = 7, !.mtime = @ + 5] = o
    BY <1>2 DEF Objects, data
  <2> HIDE DEF o, old
  <2> QED BY <1>4, <1>5, <2>2, <2>3
<1>6. CASE Becomes(side, path, [old EXCEPT !.streams = 7, !.mtime = @ + 5])
  <2> DEFINE o == [old EXCEPT !.streams = 7, !.mtime = @ + 5]
  <2>1. o \in Objects /\ o.id = old.id /\ o.mtime = old.mtime + 5
    BY <1>2, <1>3 DEF Objects
  <2> HIDE DEF old
  <2> QED BY <1>4, <1>6, <2>1
<1>7. \/ \E i \in DOMAIN old.data : Becomes(side, path, [old EXCEPT !.data[i] = 7, !.mtime = @ + 5])
      \/ Becomes(side, path, [old EXCEPT !.streams = 7, !.mtime = @ + 5])
  BY DEF WriteFile
<1> HIDE DEF old
<1> QED BY <1>5, <1>6, <1>7

LEMMA SwapFileInv ==
  ASSUME NEW side \in Sides, NEW path \in DOMAIN tree[side]
  PROVE  IInv /\ SwapFile(side, path) => IInv'
<1> SUFFICES ASSUME IInv, SwapFile(side, path) PROVE IInv'
  OBVIOUS
<1> DEFINE old == Object(side, path)
           data == [i \in DOMAIN old.data |-> 8]
           o == [old EXCEPT !.id = @ + 1, !.streams = 8, !.data = data]
<1>1. /\ mode = "copied" => side = "dst"
      /\ held' = Kept(side, path)
      /\ Becomes(side, path, o)
  BY DEF SwapFile, Changing, Kept
<1>2. old \in Objects
  BY DEF IInv, Types, IsTree, Object
<1>3. old.mtime \in Nat /\ old.id \in Nat /\ old.id + 1 \in Nat /\ old.data \in Seq(Nat)
  BY <1>2 DEF Objects
<1>4. data \in Seq(Nat)
  BY <1>3
<1> HIDE DEF data
<1>5. o \in Objects /\ o.id = old.id + 1 /\ o.mtime = old.mtime
  BY <1>2, <1>3, <1>4 DEF Objects
<1> HIDE DEF o
<1> QED BY <1>1, <1>3, <1>5, Changed

LEMMA RemoveFileInv ==
  ASSUME NEW side \in Sides, NEW path \in DOMAIN tree[side]
  PROVE  IInv /\ RemoveFile(side, path) => IInv'
<1> SUFFICES ASSUME IInv, RemoveFile(side, path) PROVE IInv'
  OBVIOUS
<1>0. Types /\ Placed /\ DigestInv
  BY DEF IInv
<1>1. /\ tree' = [tree EXCEPT ![side] = Restrict(@, DOMAIN @ \ {path})]
      /\ held' = Kept(side, path)
      /\ mode = "copied" => side = "dst"
      /\ UNCHANGED <<policy, mode, st, entries, pair, dg, sdig, versions>>
  BY DEF RemoveFile, Changing, Kept, fixed, walkVars
<1>2. DOMAIN tree = Sides
  BY <1>0 DEF Types, Sides
<1>3. \A x \in Sides : tree'[x] =
        IF x = side THEN [y \in DOMAIN tree[side] \ {path} |-> tree[side][y]] ELSE tree[x]
  BY <1>1, <1>2 DEF Restrict
<1>4. \A x \in Sides : \A y \in DOMAIN tree'[x] : y \in DOMAIN tree[x] /\ tree'[x][y] = tree[x][y]
  BY <1>3
<1>5. Object(side, path) \in Objects
  BY <1>0 DEF Types, IsTree, Object
<1>6. Types'
  <2>1. tree' = [src |-> tree'["src"], dst |-> tree'["dst"]]
    BY <1>0, <1>1 DEF Types, Sides
  <2>2. \A x \in Sides : IsTree(tree'[x])
    BY <1>0, <1>3 DEF Types, IsTree
  <2>3. held' \in Objects \cup {None}
    BY <1>0, <1>1, <1>5 DEF Types, Kept
  <2>4. /\ policy' \in FilesystemPolicies /\ mode' \in {"full", "copied"}
        /\ pair' = [src |-> pair'.src, dst |-> pair'.dst, ok |-> pair'.ok]
        /\ versions' = [src |-> versions'["src"], dst |-> versions'["dst"]]
        /\ IsDigest(dg)'
    BY <1>0, <1>1 DEF Types, IsDigest
  <2> QED BY <2>1, <2>2, <2>3, <2>4 DEF Types
<1>7. Placed'
  BY <1>0, <1>1, <1>3 DEF Placed, Sides
<1>8. PassIsWhole'
  BY <1>1 DEF IInv, PassIsWhole
<1>9. DigestInv'
  <2>1. held' # None => held # None \/ dg.at = "read"
    BY <1>1 DEF Kept
  <2>2. CASE st # "digest"
    BY <1>0, <1>1, <2>1, <2>2 DEF DigestInv
  <2>3. CASE st = "digest"
    <3>0. dg.side \in Sides
      BY <1>0, <2>3 DEF DigestInv
    <3>1. There' => There /\ Named' = Named /\ held' = held
      <4>1. There' => dg.path \in DOMAIN tree'[dg.side]
        BY <1>1 DEF There
      <4>2. There' => ~(dg.side = side /\ dg.path = path)
        BY <1>3, <3>0, <4>1
      <4> QED BY <1>1, <1>4, <3>0, <4>1, <4>2 DEF There, Named, Object, Kept
    <3>2. Grown'
      BY <1>0, <1>1, <2>3, <3>1 DEF DigestInv, Grown
    <3>3. Quiet' => Quiet /\ Named' = Named /\ held' = held
      BY <1>1, <3>1 DEF Quiet, Stat
    <3>4. Faithful'
      BY <1>0, <1>1, <2>3, <3>3 DEF DigestInv, Faithful, ReadSoFar, ReadsStreams, ReadsEas
    <3>5. Remembered'
      <4> SUFFICES ASSUME NEW x \in Sides, pair[x] \in DOMAIN tree'[x]
                   PROVE  Content(tree'[x][pair[x]]) \in versions[x]
        BY <1>1 DEF Remembered, Object
      <4>1. pair[x] \in DOMAIN tree[x] /\ tree'[x][pair[x]] = tree[x][pair[x]]
        BY <1>4
      <4> QED BY <1>0, <2>3, <4>1 DEF DigestInv, Remembered, Object
    <3>6. OfAVersion'
      BY <1>0, <1>1, <2>3 DEF DigestInv, OfAVersion, Digested, Shows, ReadsStreams, ReadsEas
    <3> QED BY <1>0, <1>1, <2>1, <2>3, <3>2, <3>4, <3>5, <3>6 DEF DigestInv
  <2> QED BY <2>2, <2>3
<1> QED BY <1>6, <1>7, <1>8, <1>9 DEF IInv

-----------------------------------------------------------------------------
(* The theorems. *)

\* The inductive invariant holds in every run, whatever other programs write, swap or
\* remove between two reads of a digest.
THEOREM Invariance == Spec => []IInv
<1>1. IInv /\ [Next]_vars => IInv'
  <2> SUFFICES ASSUME IInv, [Next]_vars PROVE IInv'
    OBVIOUS
  <2>1. CASE VerifyRoot \/ Enumerate \/ Extras \/ Finished
    BY <2>1, WalkInv
  <2>2. CASE Ended \/ UNCHANGED vars
    BY <2>2, StutterInv DEF Ended
  <2>3. CASE \E e \in entries : MatchEntry(e) \/ NextTarget(e)
    BY <2>3, MatchEntryInv, NextTargetInv
  <2>4. CASE \/ DigestFails \/ DigestOpens \/ DigestReads \/ DigestChecks \/ DigestAux
             \/ DigestEnds \/ Compare
    BY <2>4, DigestFailsInv, DigestOpensInv, DigestReadsInv, DigestChecksInv, DigestAuxInv,
       DigestEndsInv, CompareInv
  <2>5. CASE \E side \in Sides : \E path \in DOMAIN tree[side] :
               WriteFile(side, path) \/ SwapFile(side, path) \/ RemoveFile(side, path)
    BY <2>5, WriteFileInv, SwapFileInv, RemoveFileInv
  <2> QED BY <2>1, <2>2, <2>3, <2>4, <2>5 DEF Next
<1> QED BY <1>1, Start, PTL DEF Spec

\* A file that passes was a whole version of the source and a whole version of the
\* destination while it was compared, and never a mixture of several, for any number
\* of writes, swaps and removals (revalidation of handle and name in digest_file and
\* digest_file_streams_and_eas).
THEOREM PassedWhole == Spec => []PassIsWhole
<1>1. IInv => PassIsWhole
  BY DEF IInv
<1> QED BY <1>1, Invariance, PTL

-----------------------------------------------------------------------------
(* The walk of a tree nobody changes.                                        *)

Root == << >>
Dir == <<"d">>

\* The names a tree may have in a directory, and those above them.
Below(c) == IF c = Root THEN {<<"a">>, <<"A">>, Dir, <<"l">>} ELSE {<<"d", "f">>, <<"d", "x">>}
Above(c) == IF c = Root THEN {Root} ELSE {Root} \cup Below(Root)
Paths == Above(Dir) \cup Below(Dir)
TwoCases == {<<"a">>, <<"A">>}

InSource == DOMAIN tree["src"]
InDest == DOMAIN tree["dst"]
Files == {p \in InSource : Object("src", p).kind = "file"}
Wanted == IF mode = "full" THEN InSource ELSE Files

\* What VerdictIsRight calls right.
Right ==
    /\ \A p \in Wanted : Sound(p)
    /\ mode = "full" => InDest = InSource

KeyOf(p) == Key(Last(p))

\* Two names with one key on one side; then the sides differ.
Aliased ==
    /\ mode = "full" /\ ~policy.caseSensitive
    /\ TwoCases \subseteq InSource \/ TwoCases \subseteq InDest

\* Outside of what it compares, a pair of objects is the same; and the
\* destination's times are times its file system can hold.
Comparable(s, d) ==
    /\ s.kind # "file" => s.data = d.data
    /\ s.kind # "link" => s.link = d.link
    /\ ~policy.srcStreams => s.streams = 0
    /\ ~policy.srcEas => s.eas = 0
    /\ LastWriteQuantum(policy.fs) = 0 \/ d.mtime % LastWriteQuantum(policy.fs) = 0
    /\ BasicIsProjected \/
         (CreationEqual(s.ctime, d.ctime) <=>
            \E up \in BOOLEAN : d.ctime = Stored(s.ctime, CreationQuantum(policy.fs), up))

\* The trees, as long as no other program has changed them.
Shape ==
    /\ InSource \subseteq Paths /\ InDest \subseteq Paths
    /\ {Root, Dir, <<"a">>} \subseteq InSource /\ {Root, Dir, <<"a">>} \subseteq InDest
    /\ \A p \in InSource : Object("src", p).kind = "dir" <=> p \in {Root, Dir}
    /\ Object("dst", Root).kind = "dir" /\ Object("dst", Dir).kind = "dir"
    /\ Aliased => InSource # InDest
    /\ \A p \in InSource \cap InDest : Comparable(Object("src", p), Object("dst", p))

Task(c) == [src |-> c, dst |-> c]
At == cur.src
EntryPaths == {e.path : e \in entries}
Matched == Children("src", At) \ EntryPaths
InPair == IF st = "digest" THEN {pair.src} ELSE {}
InDir == mode = "full" /\ st \in {"entries", "digest"}

\* The directories still to come.
StackInv ==
    /\ st = "root" => tasks = << >>
    /\ st = "walk" => tasks \in {<< >>, <<Task(Root)>>, <<Task(Dir)>>}
    /\ InDir =>
        /\ cur \in {Task(Root), Task(Dir)}
        /\ tasks = IF At = Root /\ Dir \in Matched THEN <<Task(Dir)>> ELSE << >>

\* A source entry matched has given its key to keys and taken it from the map.
EntryInv ==
    InDir =>
        /\ \A e \in entries : e.path \in Children("src", At) /\ e = Entry("src", e.path)
        /\ keys = {KeyOf(p) : p \in Matched}
        /\ DOMAIN dmap = {KeyOf(q) : q \in Children("dst", At)} \ keys
        /\ \A k \in DOMAIN dmap :
            \E q \in Children("dst", At) : KeyOf(q) = k /\ dmap[k] = Entry("dst", q)

TargetInv ==
    mode = "copied" =>
        /\ st \in {"targets", "digest", "done"}
        /\ entries \subseteq Files
        /\ st = "digest" => pair.src \notin entries
        /\ st = "done" => entries = {}

\* The pair being digested.
PairInv ==
    st = "digest" =>
        /\ versions = [src |-> Now("src", pair.src), dst |-> Now("dst", pair.dst)]
        /\ pair.src \in Files
        /\ mode = "full" =>
            /\ pair.src \in Matched
            /\ pair.dst \in Children("dst", At) /\ KeyOf(pair.dst) = KeyOf(pair.src)
            /\ Object("dst", pair.dst).kind = "file"
            /\ MetadataEqual(Object("src", pair.src), Object("dst", pair.dst))
        /\ mode = "copied" => pair.dst = pair.src
        /\ dg.at \notin {"none", "before"} => Quiet /\ Named.kind = "file"
        /\ dg.at = "read" => dg.opened = Stat(Named)

\* The objects that have their verdict, and the names compared with the source's.
Settled ==
    IF mode = "copied" THEN Files \ (entries \cup InPair)
    ELSE IF st = "root" THEN {}
    ELSE IF st = "walk" /\ tasks # << >> THEN InSource \cap Above(Last(tasks).src)
    ELSE IF st \in {"entries", "digest"} THEN (InSource \cap Above(At)) \cup (Matched \ InPair)
    ELSE InSource

Compared ==
    IF st = "root" THEN {}
    ELSE IF st = "walk" /\ tasks # << >> THEN Above(Last(tasks).src)
    ELSE IF st \in {"entries", "digest"} THEN Above(At)
    ELSE Paths

\* Two names with one key have not been met yet.
NotYetMet ==
    \/ st = "root"
    \/ st = "walk" /\ tasks = <<Task(Root)>>
    \/ InDir /\ At = Root /\ TwoCases \subseteq InSource /\ TwoCases \cap EntryPaths # {}

SumInv ==
    /\ sum = [passed |-> sum.passed, failed |-> sum.failed]
    /\ sum.passed \in Nat /\ sum.failed \in Nat
    /\ Right => sum.failed = 0 /\ sum.passed = Cardinality(Settled)
    /\ sum.failed = 0 =>
        /\ Aliased => NotYetMet
        /\ ~Aliased => \A p \in Settled : Sound(p)
        /\ ~Aliased /\ mode = "full" => InDest \cap Compared \subseteq InSource

\* Without changes and failed reads.
VInv ==
    /\ events \in Nat
    /\ events = 0 =>
        /\ st # "error"
        /\ Shape /\ StackInv /\ EntryInv /\ TargetInv /\ PairInv /\ SumInv

-----------------------------------------------------------------------------
(* Paths and keys.                                                           *)

\* The parents of short paths.
LEMMA FrontOfShort ==
  ASSUME NEW T, NEW x \in T, NEW y \in T
  PROVE  /\ Len(<<x>>) = 1 /\ Front(<<x>>) = << >>
         /\ Len(<<x, y>>) = 2 /\ Front(<<x, y>>) = <<x>>
<1>1. Len(<<x>>) = 1 /\ Len(<<x, y>>) = 2
  OBVIOUS
<1>2. Front(<<x>>) = << >>
  BY <1>1, SubSeqEmpty DEF Front
<1>3. PICK s : s = <<x, y>>
  OBVIOUS
<1>4. s[1] = x /\ s[1] \in T
  BY <1>3
<1>5. \A i \in 1 .. 1 : s[i] \in T
  BY <1>4
<1>6. PICK u : u = SubSeq(s, 1, 1)
  OBVIOUS
<1>7. u \in Seq(T) /\ Len(u) = 1 /\ \A i \in 1 .. 1 : u[i] = s[i]
  BY <1>5, <1>6, SubSeqProperties
<1>8. PICK v : v = <<x>>
  OBVIOUS
<1>9. v \in Seq(T) /\ Len(v) = 1 /\ v[1] = x
  BY <1>8
<1>10. Len(u) = Len(v) /\ \A i \in 1 .. Len(u) : u[i] = v[i]
  BY <1>4, <1>7, <1>9
<1>11. u = v
  BY <1>7, <1>9, <1>10, SeqEqual
<1>12. Front(s) = u
  <2>1. Len(s) - 1 = 1
    BY <1>1, <1>3
  <2> QED BY <1>6, <2>1 DEF Front
<1>13. Front(<<x, y>>) = <<x>>
  BY <1>3, <1>8, <1>11, <1>12, Zenon
<1> QED BY <1>1, <1>2, <1>13

\* The paths are told apart by length and last name.
LEMMA PathFacts ==
  /\ \A c \in {Root, Dir} : \A p \in Below(c) :
        p # << >> /\ Len(p) = Len(c) + 1 /\ Front(p) = c /\ p \notin Above(c)
  /\ Above(Dir) = Above(Root) \cup Below(Root)
  /\ Paths = Above(Dir) \cup Below(Dir)
  /\ Below(Root) \cap Below(Dir) = {}
  /\ Above(Root) = {Root}
  /\ Root # Dir
  /\ Dir \in Below(Root)
  /\ TwoCases \subseteq Below(Root)
  /\ Dir \notin TwoCases
<1>1. Root # Dir /\ Len(Root) = 0 /\ Len(Dir) = 1
  BY DEF Root, Dir
<1>2. \A x \in {"a", "A", "d", "l"} : Len(<<x>>) = 1 /\ Front(<<x>>) = << >>
  BY FrontOfShort
<1>3. \A x, y \in {"d", "f", "x"} : Len(<<x, y>>) = 2 /\ Front(<<x, y>>) = <<x>>
  BY FrontOfShort
<1>4. \A p \in Below(Root) : Len(p) = 1 /\ Front(p) = Root
  <2>1. Below(Root) = {<<"a">>, <<"A">>, <<"d">>, <<"l">>}
    BY DEF Below, Dir
  <2>2. SUFFICES ASSUME NEW p \in {<<"a">>, <<"A">>, <<"d">>, <<"l">>}
                 PROVE  Len(p) = 1 /\ Front(p) = Root
    BY <2>1
  <2>3. PICK x \in {"a", "A", "d", "l"} : p = <<x>>
    OBVIOUS
  <2> QED BY <1>2, <2>3 DEF Root
<1>5. \A p \in Below(Dir) : Len(p) = 2 /\ Front(p) = Dir
  <2>1. Below(Dir) = {<<"d", "f">>, <<"d", "x">>}
    BY <1>1 DEF Below
  <2>2. SUFFICES ASSUME NEW p \in {<<"d", "f">>, <<"d", "x">>}
                 PROVE  Len(p) = 2 /\ Front(p) = Dir
    BY <2>1
  <2>3. PICK x \in {"f", "x"} : p = <<"d", x>>
    OBVIOUS
  <2> QED BY <1>3, <2>3 DEF Dir
<1>6. Above(Root) = {Root} /\ Above(Dir) = {Root} \cup Below(Root)
  BY <1>1 DEF Above
<1>7. TwoCases \subseteq Below(Root) /\ Dir \in Below(Root)
  BY DEF TwoCases, Below
<1>8. Dir \notin TwoCases
  BY DEF Dir, TwoCases
<1>9. \A p \in Above(Root) : Len(p) = 0
  BY <1>1, <1>6
<1>10. \A p \in Above(Dir) : Len(p) \in {0, 1}
  BY <1>4, <1>6, <1>9
<1>11. \A p : Len(p) \in {1, 2} => p # << >>
  OBVIOUS
<1>12. ASSUME NEW p \in Below(Root)
       PROVE  p # << >> /\ Len(p) = Len(Root) + 1 /\ Front(p) = Root /\ p \notin Above(Root)
  <2>1. Len(p) = 1 /\ Front(p) = Root
    BY <1>4, <1>12
  <2> QED BY <1>1, <1>9, <1>11, <2>1
<1>14. ASSUME NEW p \in Below(Dir)
       PROVE  p # << >> /\ Len(p) = Len(Dir) + 1 /\ Front(p) = Dir /\ p \notin Above(Dir)
  <2>1. Len(p) = 2 /\ Front(p) = Dir
    BY <1>5, <1>14
  <2>2. Len(p) = Len(Dir) + 1
    BY <1>1, <2>1
  <2>3. p \notin Above(Dir)
    BY <1>10, <2>1
  <2>4. p # << >>
    BY <1>11, <2>1
  <2> QED BY <2>1, <2>2, <2>3, <2>4
<1>15. \A c \in {Root, Dir} : \A p \in Below(c) :
         p # << >> /\ Len(p) = Len(c) + 1 /\ Front(p) = c /\ p \notin Above(c)
  BY <1>12, <1>14, Zenon
<1>13. Below(Root) \cap Below(Dir) = {}
  BY <1>4, <1>5
<1> QED BY <1>1, <1>6, <1>7, <1>8, <1>13, <1>15 DEF Paths

\* Two names of a directory have one key only if they differ in nothing but case.
LEMMA KeyFacts ==
  ASSUME NEW c \in {Root, Dir}, NEW p \in Below(c), NEW q \in Below(c)
  PROVE  /\ KeyOf(p) = KeyOf(q) /\ p # q =>
                ~policy.caseSensitive /\ {p, q} = TwoCases
         /\ ~policy.caseSensitive /\ p \in TwoCases /\ q \in TwoCases => KeyOf(p) = KeyOf(q)
<1>1. /\ Last(<<"a">>) = "a" /\ Last(<<"A">>) = "A" /\ Last(<<"d">>) = "d"
      /\ Last(<<"l">>) = "l" /\ Last(<<"d", "f">>) = "f" /\ Last(<<"d", "x">>) = "x"
  BY DEF Last
<1>2. /\ KeyOf(<<"a">>) = "a" /\ KeyOf(<<"d">>) = "d" /\ KeyOf(<<"l">>) = "l"
      /\ KeyOf(<<"d", "f">>) = "f" /\ KeyOf(<<"d", "x">>) = "x"
      /\ KeyOf(<<"A">>) = IF policy.caseSensitive THEN "A" ELSE "a"
  BY <1>1 DEF KeyOf, Key
<1>3. CASE c = Root
  <2>1. p \in {<<"a">>, <<"A">>, <<"d">>, <<"l">>} /\ q \in {<<"a">>, <<"A">>, <<"d">>, <<"l">>}
    BY <1>3 DEF Below, Dir
  <2>2. <<"d">> \notin TwoCases /\ <<"l">> \notin TwoCases
    BY DEF TwoCases
  <2>3. TwoCases = {<<"a">>, <<"A">>}
    BY DEF TwoCases
  <2> QED BY <1>2, <2>1, <2>2, <2>3
<1>4. CASE c = Dir
  <2>1. p \in {<<"d", "f">>, <<"d", "x">>} /\ q \in {<<"d", "f">>, <<"d", "x">>}
    BY <1>4, PathFacts DEF Below
  <2>2. <<"d", "f">> \notin TwoCases /\ <<"d", "x">> \notin TwoCases
    BY DEF TwoCases
  <2> QED BY <1>2, <2>1, <2>2
<1> QED BY <1>3, <1>4

\* The children of a directory are the names below it.
LEMMA ChildrenAre ==
  ASSUME Shape, NEW c \in {Root, Dir}
  PROVE  /\ Children("src", c) = InSource \cap Below(c)
         /\ Children("dst", c) = InDest \cap Below(c)
<1>1. ASSUME NEW T, T \subseteq Paths
      PROVE  {q \in T : Len(q) = Len(c) + 1 /\ Front(q) = c} = T \cap Below(c)
  <2>1. \A q \in Below(c) : Len(q) = Len(c) + 1 /\ Front(q) = c
    BY PathFacts
  <2>2. \A q \in T : Len(q) = Len(c) + 1 /\ Front(q) = c => q \in Below(c)
    <3>1. SUFFICES ASSUME NEW q \in T, Len(q) = Len(c) + 1, Front(q) = c, q \notin Below(c)
                   PROVE  FALSE
      OBVIOUS
    <3>2. Len(Root) = 0 /\ Len(Dir) = 1
      BY DEF Root, Dir
    <3>3. q \in {Root} \cup Below(Root) \cup Below(Dir)
      BY <1>1, PathFacts
    <3>4. q # Root
      BY <3>1, <3>2
    <3>5. CASE q \in Below(Root) /\ c = Dir
      BY <3>1, <3>2, <3>5, PathFacts
    <3>6. CASE q \in Below(Dir) /\ c = Root
      BY <3>1, <3>2, <3>6, PathFacts
    <3> QED BY <3>1, <3>3, <3>4, <3>5, <3>6
  <2> QED BY <2>1, <2>2
<1>2. InSource \subseteq Paths /\ InDest \subseteq Paths
  BY DEF Shape
<1>3. /\ Children("src", c) = {q \in InSource : Len(q) = Len(c) + 1 /\ Front(q) = c}
      /\ Children("dst", c) = {q \in InDest : Len(q) = Len(c) + 1 /\ Front(q) = c}
  BY DEF Children, InSource, InDest
<1> QED BY <1>1, <1>2, <1>3

\* The trees are finite.
LEMMA FiniteTrees ==
  ASSUME Shape
  PROVE  \A T : T \subseteq InSource \/ T \subseteq InDest => IsFiniteSet(T)
<1>1. IsFiniteSet(Paths)
  <2>1. IsFiniteSet({Root, <<"a">>, <<"A">>, Dir, <<"l">>, <<"d", "f">>, <<"d", "x">>})
    <3>1. IsFiniteSet({}) /\ \A T, x : IsFiniteSet(T) => IsFiniteSet(T \cup {x})
      BY FS_EmptySet, FS_AddElement
    <3>2. IsFiniteSet({Root, <<"a">>, <<"A">>})
      <4>1. IsFiniteSet({} \cup {Root} \cup {<<"a">>} \cup {<<"A">>})
        BY <3>1, Zenon
      <4>2. {} \cup {Root} \cup {<<"a">>} \cup {<<"A">>} = {Root, <<"a">>, <<"A">>}
        OBVIOUS
      <4> QED BY <4>1, <4>2
    <3> DEFINE X == {Root, <<"a">>, <<"A">>}
    <3>3. IsFiniteSet(X \cup {Dir} \cup {<<"l">>} \cup {<<"d", "f">>} \cup {<<"d", "x">>})
      <4>1. IsFiniteSet(X)
        BY <3>2
      <4> HIDE DEF X
      <4> QED BY <3>1, <4>1, Zenon
    <3>4. X \cup {Dir} \cup {<<"l">>} \cup {<<"d", "f">>} \cup {<<"d", "x">>}
            = {Root, <<"a">>, <<"A">>, Dir, <<"l">>, <<"d", "f">>, <<"d", "x">>}
      OBVIOUS
    <3> QED BY <3>3, <3>4
  <2>2. Paths = {Root, <<"a">>, <<"A">>, Dir, <<"l">>, <<"d", "f">>, <<"d", "x">>}
    BY PathFacts DEF Below
  <2> QED BY <2>1, <2>2
<1>2. \A T : T \subseteq Paths => IsFiniteSet(T)
  BY <1>1, FS_Subset
<1> QED BY <1>2 DEF Shape

-----------------------------------------------------------------------------
(* What is compared of two objects is what counts.                           *)

\* Streams and EAs.
LEMMA AuxAgree ==
  ASSUME NEW s, NEW d, ~policy.srcStreams => s.streams = 0, ~policy.srcEas => s.eas = 0
  PROVE  AuxEqual(s, d) <=> /\ policy.streams => d.streams = s.streams
                            /\ policy.eas => d.eas = s.eas
<1>1. ReadsStreams("dst") <=> policy.streams
  BY DEF ReadsStreams
<1>2. ReadsStreams("src") <=> policy.streams /\ policy.srcStreams
  BY DEF ReadsStreams
<1>3. ReadsEas("dst") <=> policy.eas
  BY DEF ReadsEas
<1>4. ReadsEas("src") <=> policy.eas /\ policy.srcEas
  BY DEF ReadsEas
<1> DEFINE x == IF ReadsStreams("src") THEN s.streams ELSE 0
           y == IF ReadsStreams("dst") THEN d.streams ELSE 0
           u == IF ReadsEas("src") THEN s.eas ELSE 0
           v == IF ReadsEas("dst") THEN d.eas ELSE 0
<1>5. policy.streams => x = s.streams /\ y = d.streams
  BY <1>1, <1>2, Zenon
<1>6. ~policy.streams => x = 0 /\ y = 0
  BY <1>1, <1>2, Zenon
<1>7. policy.eas => u = s.eas /\ v = d.eas
  BY <1>3, <1>4, Zenon
<1>8. ~policy.eas => u = 0 /\ v = 0
  BY <1>3, <1>4, Zenon
<1>9. AuxEqual(s, d) <=> x = y /\ u = v
  BY Zenon DEF AuxEqual
<1> HIDE DEF x, y, u, v
<1> QED BY <1>5, <1>6, <1>7, <1>8, <1>9, Zenon

\* On a tree nobody has changed, the comparison of two objects under one name is
\* the reference's.
LEMMA Agree ==
  ASSUME IInv, Shape, NEW p \in InSource, p \in InDest,
         NEW s, s = Object("src", p), NEW d, d = Object("dst", p)
  PROVE  Sound(p) <=> /\ s.kind = d.kind /\ s.data = d.data /\ s.link = d.link
                      /\ MetadataEqual(s, d) /\ AuxEqual(s, d)
<1>1. s \in Objects /\ d \in Objects
  <2>1. IsTree(tree["src"]) /\ IsTree(tree["dst"])
    BY DEF IInv, Types, Sides
  <2> QED BY <2>1 DEF IsTree, Object, InSource, InDest
<1>2. Comparable(s, d)
  BY DEF Shape
<1>3. s.mtime \in Nat /\ d.mtime \in Nat
  BY <1>1 DEF Objects
<1> DEFINE q == LastWriteQuantum(policy.fs)
           c == CreationQuantum(policy.fs)
<1>4. LastWriteEqual(s.mtime, d.mtime) <=> d.mtime \in {Stored(s.mtime, q, up) : up \in BOOLEAN}
  <2>1. LastWriteEqual(s.mtime, d.mtime) <=> \E up \in BOOLEAN : d.mtime = Stored(s.mtime, q, up)
    BY <1>2, <1>3, ToleranceIsExact DEF LastWriteEqual, Comparable
  <2> HIDE DEF q
  <2> QED BY <2>1
<1>5. BasicIsProjected \/
        (CreationEqual(s.ctime, d.ctime) <=> d.ctime \in {Stored(s.ctime, c, up) : up \in BOOLEAN})
  <2>1. BasicIsProjected \/
          (CreationEqual(s.ctime, d.ctime) <=> \E up \in BOOLEAN : d.ctime = Stored(s.ctime, c, up))
    BY <1>2 DEF Comparable
  <2> HIDE DEF c
  <2> QED BY <2>1
<1>6. BasicIsProjected => CreationEqual(s.ctime, d.ctime) /\ AttributesEqual(s.attrs, d.attrs)
  BY DEF CreationEqual, AttributesEqual, AttributeMask
<1>7. AuxEqual(s, d) <=> /\ policy.streams => d.streams = s.streams
                         /\ policy.eas => d.eas = s.eas
  BY <1>2, AuxAgree DEF Comparable
<1>8. Sound(p) <=>
        /\ s.kind = d.kind /\ s.data = d.data /\ s.link = d.link
        /\ policy.streams => d.streams = s.streams
        /\ policy.eas => d.eas = s.eas
        /\ d.mtime \in {Stored(s.mtime, q, up) : up \in BOOLEAN}
        /\ BasicIsProjected \/
            /\ d.ctime \in {Stored(s.ctime, c, up) : up \in BOOLEAN}
            /\ s.attrs \intersect AttributeMask = d.attrs \intersect AttributeMask
  BY Zenon DEF Sound, Object, InDest
<1>9. AttributesEqual(s.attrs, d.attrs)
        <=> s.attrs \intersect AttributeMask = d.attrs \intersect AttributeMask
  BY DEF AttributesEqual
<1>10. MetadataEqual(s, d) <=> /\ CreationEqual(s.ctime, d.ctime)
                               /\ LastWriteEqual(s.mtime, d.mtime)
                               /\ AttributesEqual(s.attrs, d.attrs)
  BY DEF MetadataEqual
<1> DEFINE times == d.mtime \in {Stored(s.mtime, q, up) : up \in BOOLEAN}
           births == d.ctime \in {Stored(s.ctime, c, up) : up \in BOOLEAN}
<1> HIDE DEF times, births, q, c
<1>11. LastWriteEqual(s.mtime, d.mtime) <=> times
  BY <1>4 DEF times
<1>12. BasicIsProjected \/ (CreationEqual(s.ctime, d.ctime) <=> births)
  BY <1>5 DEF births
<1>13. Sound(p) <=>
        /\ s.kind = d.kind /\ s.data = d.data /\ s.link = d.link
        /\ policy.streams => d.streams = s.streams
        /\ policy.eas => d.eas = s.eas
        /\ times
        /\ BasicIsProjected \/ (births /\ AttributesEqual(s.attrs, d.attrs))
  BY <1>8, <1>9, Zenon DEF times, births
<1> QED BY <1>6, <1>7, <1>10, <1>11, <1>12, <1>13, Zenon

\* A directory or a link: its data needs no comparison.
LEMMA AgreeUnread ==
  ASSUME IInv, Shape, NEW p \in InSource, p \in InDest,
         NEW s, s = Object("src", p), NEW d, d = Object("dst", p),
         s.kind = d.kind, s.kind # "file"
  PROVE  Sound(p) <=> MetadataEqual(s, d) /\ AuxEqual(s, d) /\ s.link = d.link
<1>1. s.data = d.data
  BY DEF Shape, Comparable
<1> QED BY <1>1, Agree, Zenon

\* A file: its link needs no comparison; a digest shows the rest.
LEMMA AgreeFile ==
  ASSUME IInv, Shape, NEW p \in InSource, p \in InDest,
         NEW s, s = Object("src", p), NEW d, d = Object("dst", p),
         s.kind = "file", d.kind = "file"
  PROVE  Sound(p) <=> /\ MetadataEqual(s, d)
                      /\ Shows(Content(s), "src") = Shows(Content(d), "dst")
<1>1. s.link = d.link /\ s.kind = d.kind
  BY DEF Shape, Comparable
<1>2. Shows(Content(s), "src") = Shows(Content(d), "dst") <=> s.data = d.data /\ AuxEqual(s, d)
  BY DEF Shows, Content, AuxEqual
<1> QED BY <1>1, <1>2, Agree, Zenon

\* The roots and their directory are directories on both sides.
LEMMA DirsAgree ==
  ASSUME IInv, Shape, NEW p \in {Root, Dir}
  PROVE  /\ p \in InSource /\ p \in InDest
         /\ Object("src", p).kind = "dir" /\ Object("dst", p).kind = "dir"
BY DEF Shape

-----------------------------------------------------------------------------
(* A step that leaves the trees alone.                                       *)

\* What the two trees and the policy say does not change where they do not.
LEMMA Still ==
  ASSUME UNCHANGED fixed, UNCHANGED tree
  PROVE  /\ InSource' = InSource /\ InDest' = InDest
         /\ \A side, p : Object(side, p)' = Object(side, p)
         /\ \A side, p : Children(side, p)' = Children(side, p)
         /\ \A side, p : Entry(side, p)' = Entry(side, p)
         /\ \A side, p : Now(side, p)' = Now(side, p)
         /\ \A p : KeyOf(p)' = KeyOf(p)
         /\ \A s, d : MetadataEqual(s, d)' <=> MetadataEqual(s, d)
         /\ \A p : Sound(p)' <=> Sound(p)
         /\ Files' = Files /\ Wanted' = Wanted
         /\ (Aliased' <=> Aliased) /\ (Right' <=> Right) /\ (Shape' <=> Shape)
<1>0. UNCHANGED <<policy, damage, mode, tree>>
  BY DEF fixed
<1>1. InSource' = InSource /\ InDest' = InDest
  BY <1>0 DEF InSource, InDest
<1>2. \A side, p : Object(side, p)' = Object(side, p)
  BY <1>0 DEF Object
<1>3. \A side, p : Children(side, p)' = Children(side, p)
  BY <1>0 DEF Children
<1>4. \A side, p : Entry(side, p)' = Entry(side, p)
  BY <1>2 DEF Entry
<1>5. \A side, p : Now(side, p)' = Now(side, p)
  BY <1>0, <1>2 DEF Now
<1>6. \A p : KeyOf(p)' = KeyOf(p)
  BY <1>0 DEF KeyOf, Key
<1>7. BasicIsProjected' <=> BasicIsProjected
  BY <1>0 DEF BasicIsProjected
<1>8. AttributeMask' = AttributeMask
  BY <1>0, <1>7 DEF AttributeMask
<1>9. \A a, b : CreationEqual(a, b)' <=> CreationEqual(a, b)
  BY <1>0, <1>7 DEF CreationEqual
<1>10. \A s, d : MetadataEqual(s, d)' <=> MetadataEqual(s, d)
  BY <1>0, <1>8, <1>9 DEF MetadataEqual, LastWriteEqual, AttributesEqual
<1>11. \A p : Sound(p)' <=> Sound(p)
  BY <1>0, <1>7, <1>8, Zenon DEF Sound
<1>12. Files' = Files /\ Wanted' = Wanted
  BY <1>0, <1>1, <1>2 DEF Files, Wanted
<1>13. Aliased' <=> Aliased
  BY <1>0, <1>1 DEF Aliased
<1>14. Right' <=> Right
  BY <1>0, <1>1, <1>11, <1>12 DEF Right
<1>15. \A s, d : Comparable(s, d)' <=> Comparable(s, d)
  <2> TAKE s, d
  <2>1. policy' = policy /\ LastWriteQuantum(policy.fs)' = LastWriteQuantum(policy.fs)
        /\ CreationQuantum(policy.fs)' = CreationQuantum(policy.fs)
    BY <1>0
  <2>2. CreationEqual(s.ctime, d.ctime)' <=> CreationEqual(s.ctime, d.ctime)
    BY <1>9
  <2> QED BY <1>7, <2>1, <2>2, Zenon DEF Comparable
<1>16. Shape' <=> Shape
  BY <1>1, <1>2, <1>13, <1>15 DEF Shape
<1> QED BY <1>1, <1>2, <1>3, <1>4, <1>5, <1>6, <1>10, <1>11, <1>12, <1>13, <1>14, <1>16

-----------------------------------------------------------------------------
(* The trees at the beginning, as the walk relies on them.                   *)

Projects(p) == p.srcProjects \/ p.fs \in {"wsl", "remote"}

\* How far a damage may reach: o is the copy of the object at x, w what is there.
Touched(o, w, x, p) ==
    /\ w.data = o.data \/ x \in {<<"a">>, <<"d", "f">>}
    /\ w.link = o.link \/ x = <<"l">>
    /\ w.kind = o.kind \/ x = <<"d", "f">>
    /\ w.mtime = o.mtime \/ w.mtime = o.mtime + IF p.fs \in Fat THEN LastWriteQuantum(p.fs) ELSE 1
    /\ w.ctime = o.ctime \/ (~Projects(p) /\ w.ctime = o.ctime + CreationQuantum(p.fs) + 1)

\* One object of a tree changes.
LEMMA OneTouched ==
  ASSUME NEW t, IsTree(t), NEW y, NEW v, NEW p, y \in DOMAIN t => Touched(t[y], v, y, p)
  PROVE  /\ DOMAIN [t EXCEPT ![y] = v] = DOMAIN t
         /\ \A x \in DOMAIN t : Touched(t[x], [t EXCEPT ![y] = v][x], x, p)
<1>1. \A o, x : Touched(o, o, x, p)
  BY DEF Touched
<1>2. \A x \in DOMAIN t : [t EXCEPT ![y] = v][x] = IF x = y THEN v ELSE t[x]
  BY DEF IsTree
<1>3. DOMAIN [t EXCEPT ![y] = v] = DOMAIN t
  BY DEF IsTree
<1> QED BY <1>1, <1>2, <1>3, Zenon

\* A damage touches one object, or takes or adds one name.
LEMMA DamagedFacts ==
  ASSUME NEW t, IsTree(t), NEW d \in Damages, NEW p \in FilesystemPolicies,
         <<"d", "x">> \notin DOMAIN t, <<"A">> \notin DOMAIN t
  PROVE  /\ DOMAIN Damaged(t, d, p) =
              CASE d = "missing" -> DOMAIN t \ {<<"d", "f">>}
                [] d = "extra"   -> DOMAIN t \cup {<<"d", "x">>}
                [] d = "twin"    -> DOMAIN t \cup {<<"A">>}
                [] OTHER         -> DOMAIN t
         /\ \A x \in DOMAIN t \cap DOMAIN Damaged(t, d, p) :
              Touched(t[x], Damaged(t, d, p)[x], x, p)
<1> DEFINE a == <<"a">>
           D == <<"d">>
           df == <<"d", "f">>
           L == <<"l">>
           projected == p.srcProjects \/ p.fs \in {"wsl", "remote"}
           w == Damaged(t, d, p)
<1>q. LastWriteQuantum(p.fs) \in Nat /\ CreationQuantum(p.fs) \in Nat
  BY DEF LastWriteQuantum, CreationQuantum
<1>a. \A x \in DOMAIN t : t[x] \in Objects
  BY DEF IsTree
<1>s. \A o, x : Touched(o, o, x, p)
  BY DEF Touched
<1> HIDE DEF a, D, df, L
<1>0. ASSUME w = t, d \notin {"missing", "extra", "twin"}
      PROVE  DOMAIN w = DOMAIN t /\ \A x \in DOMAIN t : Touched(t[x], w[x], x, p)
  <2> HIDE DEF w
  <2> QED BY <1>0, <1>s, Zenon
<1>1. CASE d \in {"none", "clash"}
  <2>1. w = t
    BY <1>1 DEF Damaged
  <2> QED BY <1>0, <1>1, <2>1
<1>2. CASE d = "content"
  <2> DEFINE v == [t[a] EXCEPT !.data = <<1, 9>>]
  <2>1. a \in DOMAIN t => Touched(t[a], v, a, p)
    <3> HAVE a \in DOMAIN t
    <3>1. t[a] \in Objects
      BY <1>a
    <3> QED BY <3>1 DEF Touched, Objects, Projects, a
  <2>2. w = [t EXCEPT ![a] = v]
    BY <1>2 DEF Damaged, a, D, df, L
  <2> HIDE DEF v, w
  <2>3. DOMAIN w = DOMAIN t /\ \A x \in DOMAIN t : Touched(t[x], w[x], x, p)
    BY <2>1, <2>2, OneTouched
  <2> QED BY <1>2, <2>3 DEF w
<1>3. CASE d = "size"
  <2> DEFINE v == [t[df] EXCEPT !.data = <<1, 1>>]
  <2>1. df \in DOMAIN t => Touched(t[df], v, df, p)
    <3> HAVE df \in DOMAIN t
    <3>1. t[df] \in Objects
      BY <1>a
    <3> QED BY <3>1 DEF Touched, Objects, Projects, df
  <2>2. w = [t EXCEPT ![df] = v]
    BY <1>3 DEF Damaged, a, D, df, L
  <2> HIDE DEF v, w
  <2>3. DOMAIN w = DOMAIN t /\ \A x \in DOMAIN t : Touched(t[x], w[x], x, p)
    BY <2>1, <2>2, OneTouched
  <2> QED BY <1>3, <2>3 DEF w
<1>4. CASE d = "mtime"
  <2> DEFINE n == IF p.fs \in Fat THEN LastWriteQuantum(p.fs) ELSE 1
  <2>n. n \in Nat
    BY <1>q
  <2> DEFINE v == [t[a] EXCEPT !.mtime = @ + n]
  <2>1. a \in DOMAIN t => Touched(t[a], v, a, p)
    <3> HAVE a \in DOMAIN t
    <3>1. t[a] \in Objects
      BY <1>a
    <3> QED BY <3>1, <2>n DEF Touched, Objects, Projects, a
  <2>2. w = [t EXCEPT ![a] = v]
    BY <1>4 DEF Damaged, a, D, df, L
  <2> HIDE DEF v, w, n
  <2>3. DOMAIN w = DOMAIN t /\ \A x \in DOMAIN t : Touched(t[x], w[x], x, p)
    BY <2>1, <2>2, OneTouched
  <2> QED BY <1>4, <2>3 DEF w
<1>5. CASE d = "ctime"
  <2> DEFINE n == CreationQuantum(p.fs)
  <2>n. n \in Nat
    BY <1>q
  <2> DEFINE v == [t[D] EXCEPT !.ctime = @ + n + 1]
  <2>1. D \in DOMAIN t /\ ~projected => Touched(t[D], v, D, p)
    <3> HAVE D \in DOMAIN t /\ ~projected
    <3>1. t[D] \in Objects
      BY <1>a
    <3> QED BY <3>1, <2>n DEF Touched, Objects, Projects, D
  <2>2. w = IF projected THEN t ELSE [t EXCEPT ![D] = v]
    BY <1>5 DEF Damaged, a, D, df, L
  <2> HIDE DEF v, w, n
  <2>3. CASE w = t
    BY <1>0, <1>5, <2>3 DEF w
  <2>4. CASE ~projected /\ w = [t EXCEPT ![D] = v]
    <3>1. DOMAIN w = DOMAIN t /\ \A x \in DOMAIN t : Touched(t[x], w[x], x, p)
      BY <2>1, <2>4, OneTouched
    <3> QED BY <1>5, <3>1 DEF w
  <2> QED BY <2>2, <2>3, <2>4
<1>6. CASE d = "attrs"
  <2> DEFINE v == [t[df] EXCEPT !.attrs = {}]
  <2>1. df \in DOMAIN t /\ ~projected => Touched(t[df], v, df, p)
    <3> HAVE df \in DOMAIN t /\ ~projected
    <3>1. t[df] \in Objects
      BY <1>a
    <3> QED BY <3>1 DEF Touched, Objects, Projects, df
  <2>2. w = IF projected THEN t ELSE [t EXCEPT ![df] = v]
    BY <1>6 DEF Damaged, a, D, df, L
  <2> HIDE DEF v, w
  <2>3. CASE w = t
    BY <1>0, <1>6, <2>3 DEF w
  <2>4. CASE ~projected /\ w = [t EXCEPT ![df] = v]
    <3>1. DOMAIN w = DOMAIN t /\ \A x \in DOMAIN t : Touched(t[x], w[x], x, p)
      BY <2>1, <2>4, OneTouched
    <3> QED BY <1>6, <3>1 DEF w
  <2> QED BY <2>2, <2>3, <2>4
<1>7. CASE d = "stream"
  <2> DEFINE v == [t[a] EXCEPT !.streams = 8]
  <2>1. a \in DOMAIN t => Touched(t[a], v, a, p)
    <3> HAVE a \in DOMAIN t
    <3>1. t[a] \in Objects
      BY <1>a
    <3> QED BY <3>1 DEF Touched, Objects, Projects, a
  <2>2. w = IF p.streams THEN [t EXCEPT ![a] = v] ELSE t
    BY <1>7 DEF Damaged, a, D, df, L
  <2> HIDE DEF v, w
  <2>3. CASE w = t
    BY <1>0, <1>7, <2>3 DEF w
  <2>4. CASE p.streams /\ w = [t EXCEPT ![a] = v]
    <3>1. DOMAIN w = DOMAIN t /\ \A x \in DOMAIN t : Touched(t[x], w[x], x, p)
      BY <2>1, <2>4, OneTouched
    <3> QED BY <1>7, <3>1 DEF w
  <2> QED BY <2>2, <2>3, <2>4
<1>8. CASE d = "diraux"
  <2> DEFINE v == [t[D] EXCEPT !.streams = 9]
  <2>1. D \in DOMAIN t => Touched(t[D], v, D, p)
    <3> HAVE D \in DOMAIN t
    <3>1. t[D] \in Objects
      BY <1>a
    <3> QED BY <3>1 DEF Touched, Objects, Projects, D
  <2>2. w = IF p.streams THEN [t EXCEPT ![D] = v] ELSE t
    BY <1>8 DEF Damaged, a, D, df, L
  <2> HIDE DEF v, w
  <2>3. CASE w = t
    BY <1>0, <1>8, <2>3 DEF w
  <2>4. CASE p.streams /\ w = [t EXCEPT ![D] = v]
    <3>1. DOMAIN w = DOMAIN t /\ \A x \in DOMAIN t : Touched(t[x], w[x], x, p)
      BY <2>1, <2>4, OneTouched
    <3> QED BY <1>8, <3>1 DEF w
  <2> QED BY <2>2, <2>3, <2>4
<1>9. CASE d = "eas"
  <2> DEFINE v == [t[a] EXCEPT !.eas = 9]
  <2>1. a \in DOMAIN t => Touched(t[a], v, a, p)
    <3> HAVE a \in DOMAIN t
    <3>1. t[a] \in Objects
      BY <1>a
    <3> QED BY <3>1 DEF Touched, Objects, Projects, a
  <2>2. w = IF p.eas THEN [t EXCEPT ![a] = v] ELSE t
    BY <1>9 DEF Damaged, a, D, df, L
  <2> HIDE DEF v, w
  <2>3. CASE w = t
    BY <1>0, <1>9, <2>3 DEF w
  <2>4. CASE p.eas /\ w = [t EXCEPT ![a] = v]
    <3>1. DOMAIN w = DOMAIN t /\ \A x \in DOMAIN t : Touched(t[x], w[x], x, p)
      BY <2>1, <2>4, OneTouched
    <3> QED BY <1>9, <3>1 DEF w
  <2> QED BY <2>2, <2>3, <2>4
<1>10. CASE d = "link"
  <2> DEFINE v == [t[L] EXCEPT !.link = 9]
  <2>1. L \in DOMAIN t => Touched(t[L], v, L, p)
    <3> HAVE L \in DOMAIN t
    <3>1. t[L] \in Objects
      BY <1>a
    <3> QED BY <3>1 DEF Touched, Objects, Projects, L
  <2>2. w = IF p.reparse THEN [t EXCEPT ![L] = v] ELSE t
    BY <1>10 DEF Damaged, a, D, df, L
  <2> HIDE DEF v, w
  <2>3. CASE w = t
    BY <1>0, <1>10, <2>3 DEF w
  <2>4. CASE p.reparse /\ w = [t EXCEPT ![L] = v]
    <3>1. DOMAIN w = DOMAIN t /\ \A x \in DOMAIN t : Touched(t[x], w[x], x, p)
      BY <2>1, <2>4, OneTouched
    <3> QED BY <1>10, <3>1 DEF w
  <2> QED BY <2>2, <2>3, <2>4
<1>11. CASE d = "kind"
  <2> DEFINE v == [t[df] EXCEPT !.kind = "dir"]
  <2>1. df \in DOMAIN t => Touched(t[df], v, df, p)
    <3> HAVE df \in DOMAIN t
    <3>1. t[df] \in Objects
      BY <1>a
    <3> QED BY <3>1 DEF Touched, Objects, Projects, df
  <2>2. w = [t EXCEPT ![df] = v]
    BY <1>11 DEF Damaged, a, D, df, L
  <2> HIDE DEF v, w
  <2>3. DOMAIN w = DOMAIN t /\ \A x \in DOMAIN t : Touched(t[x], w[x], x, p)
    BY <2>1, <2>2, OneTouched
  <2> QED BY <1>11, <2>3 DEF w
<1>12. CASE d = "missing"
  <2>1. w = [x \in DOMAIN t \ {df} |-> t[x]]
    BY <1>12 DEF Damaged, Restrict, df
  <2> HIDE DEF w
  <2>2. DOMAIN w = DOMAIN t \ {df} /\ \A x \in DOMAIN w : w[x] = t[x]
    BY <2>1
  <2> QED BY <1>12, <1>s, <2>2, Zenon DEF w, df
<1>13. CASE d = "extra"
  <2> DEFINE n == <<"d", "x">>
  <2>1. w = With(t, n, t[a])
    BY <1>13 DEF Damaged, a
  <2>2. n \notin DOMAIN t
    OBVIOUS
  <2> HIDE DEF n, w
  <2>3. DOMAIN w = DOMAIN t \cup {n} /\ \A x \in DOMAIN t : w[x] = t[x]
    BY <2>1, <2>2 DEF With
  <2> QED BY <1>13, <1>s, <2>3, Zenon DEF w, n
<1>14. CASE d = "twin"
  <2> DEFINE n == <<"A">>
  <2>1. w = With(t, n, t[a])
    BY <1>14 DEF Damaged, a
  <2>2. n \notin DOMAIN t
    OBVIOUS
  <2> HIDE DEF n, w
  <2>3. DOMAIN w = DOMAIN t \cup {n} /\ \A x \in DOMAIN t : w[x] = t[x]
    BY <2>1, <2>2 DEF With
  <2> QED BY <1>14, <1>s, <2>3, Zenon DEF w, n
<1> QED BY <1>1, <1>2, <1>3, <1>4, <1>5, <1>6, <1>7, <1>8, <1>9, <1>10, <1>11, <1>12,
           <1>13, <1>14 DEF Damages

\* What the source is before anything happens to it.
LEMMA SourceFacts ==
  ASSUME NEW p \in FilesystemPolicies, NEW t \in Nat
  PROVE  /\ DOMAIN SourceTree(p, t) =
              {Root, <<"a">>, Dir, <<"d", "f">>} \cup IF p.reparse THEN {<<"l">>} ELSE {}
         /\ \A x \in DOMAIN SourceTree(p, t) :
              /\ SourceTree(p, t)[x].kind = "dir" <=> x \in {Root, Dir}
              /\ SourceTree(p, t)[x].kind = "link" <=> x = <<"l">>
              /\ ~p.srcStreams => SourceTree(p, t)[x].streams = 0
              /\ ~p.srcEas => SourceTree(p, t)[x].eas = 0
<1> DEFINE s == IF p.srcStreams THEN 1 ELSE 0
           e == IF p.srcEas THEN 1 ELSE 0
           root == Obj("dir", << >>, 0, 0, t)
           a == Obj("file", <<1, 2>>, s, e, t)
           d == Obj("dir", << >>, s, 0, t)
           f == [Obj("file", <<1>>, 0, 0, t) EXCEPT !.attrs = {"readonly"}]
           l == [Obj("link", << >>, 0, 0, t) EXCEPT !.link = 1]
<1>1. SourceTree(p, t) =
        [path \in {<< >>, <<"a">>, <<"d">>, <<"d", "f">>}
                    \cup IF p.reparse THEN {<<"l">>} ELSE {} |->
            CASE path = << >>       -> root
              [] path = <<"a">>     -> a
              [] path = <<"d">>     -> d
              [] path = <<"d", "f">> -> f
              [] path = <<"l">>     -> l]
  BY DEF SourceTree
<1>2. (~p.srcStreams => s = 0) /\ (~p.srcEas => e = 0)
  BY Zenon
<1> HIDE DEF s, e
<1>3. /\ root.kind = "dir" /\ a.kind = "file" /\ d.kind = "dir" /\ f.kind = "file"
      /\ l.kind = "link"
      /\ root.streams = 0 /\ a.streams = s /\ d.streams = s /\ f.streams = 0 /\ l.streams = 0
      /\ root.eas = 0 /\ a.eas = e /\ d.eas = 0 /\ f.eas = 0 /\ l.eas = 0
  BY DEF Obj
<1> HIDE DEF root, a, d, f, l
<1> DEFINE T == SourceTree(p, t)
<1>4. /\ DOMAIN T = {<< >>, <<"a">>, <<"d">>, <<"d", "f">>} \cup IF p.reparse THEN {<<"l">>} ELSE {}
      /\ T[<< >>] = root /\ T[<<"a">>] = a /\ T[<<"d">>] = d /\ T[<<"d", "f">>] = f
      /\ p.reparse => T[<<"l">>] = l
  BY <1>1
<1> HIDE DEF T
<1>5. \A x \in DOMAIN T : \/ x = << >> \/ x = <<"a">> \/ x = <<"d">> \/ x = <<"d", "f">>
                          \/ x = <<"l">> /\ p.reparse
  BY <1>4
<1> DEFINE Good(x) == /\ T[x].kind = "dir" <=> x \in {<< >>, <<"d">>}
                      /\ T[x].kind = "link" <=> x = <<"l">>
                      /\ ~p.srcStreams => T[x].streams = 0
                      /\ ~p.srcEas => T[x].eas = 0
<1>6. Good(<< >>) /\ Good(<<"a">>) /\ Good(<<"d">>) /\ Good(<<"d", "f">>)
  BY <1>2, <1>3, <1>4
<1>7. p.reparse => Good(<<"l">>)
  BY <1>2, <1>3, <1>4
<1> HIDE DEF Good
<1>8. \A x \in DOMAIN T : Good(x)
  BY <1>5, <1>6, <1>7
<1>9. \A x \in DOMAIN T : /\ T[x].kind = "dir" <=> x \in {<< >>, <<"d">>}
                          /\ T[x].kind = "link" <=> x = <<"l">>
                          /\ ~p.srcStreams => T[x].streams = 0
                          /\ ~p.srcEas => T[x].eas = 0
  BY <1>8 DEF Good
<1> QED BY <1>4, <1>9 DEF T, Root, Dir

\* What a copy keeps of an object.
LEMMA CopyFacts ==
  ASSUME NEW o \in Objects, NEW p \in FilesystemPolicies, NEW up \in BOOLEAN
  PROVE  LET w == CopyOf(o, p, up)
         IN  /\ w.data = o.data /\ w.kind = o.kind /\ w.link = o.link
             /\ w.mtime = Stored(o.mtime, LastWriteQuantum(p.fs), up)
             /\ ~Projects(p) => w.ctime = Stored(o.ctime, CreationQuantum(p.fs), up)
<1> DEFINE m == Stored(o.mtime, LastWriteQuantum(p.fs), up)
           n == Stored(o.ctime, CreationQuantum(p.fs), up)
           c == IF p.srcProjects \/ p.fs \in {"wsl", "remote"} THEN 99 ELSE n
           attrs == IF p.srcProjects \/ p.fs \in {"wsl", "remote"} THEN {"archive"}
                    ELSE IF p.fs \in Fat THEN o.attrs \ {"not_indexed"} ELSE o.attrs
           streams == IF p.streams THEN o.streams ELSE 0
           eas == IF p.eas THEN o.eas ELSE 0
           w == CopyOf(o, p, up)
<1>1. w = [o EXCEPT !.streams = streams, !.eas = eas, !.mtime = m, !.ctime = c, !.attrs = attrs]
  BY Zenon DEF CopyOf
<1>2. ~Projects(p) => c = n
  BY Zenon DEF Projects
<1> HIDE DEF m, n, c, attrs, streams, eas, w
<1>3. w.data = o.data /\ w.kind = o.kind /\ w.link = o.link /\ w.mtime = m /\ w.ctime = c
  BY <1>1 DEF Objects
<1> QED BY <1>2, <1>3, Zenon DEF w, m, n

\* A creation time moved past the tolerance is found.
LEMMA BirthMoved ==
  ASSUME NEW t \in Nat, NEW q \in {0, 2}, NEW up \in BOOLEAN, NEW d,
         d = Stored(t, q, up) + q + 1
  PROVE  ~TimestampEqual(t, d, q) /\ \A x \in BOOLEAN : d # Stored(t, q, x)
<1>0. q \in {0, 2, 4}
  OBVIOUS
<1>1. CASE q = 0
  <2>1. \A x \in BOOLEAN : Stored(t, q, x) = t
    BY <1>0, <1>1, Neighbours
  <2>2. d = t + 1
    BY <1>1, <2>1
  <2> QED BY <1>1, <2>1, <2>2 DEF TimestampEqual
<1>2. CASE q = 2
  <2>1. \A x \in BOOLEAN : /\ Stored(t, q, x) \in Nat /\ Stored(t, q, x) % q = 0
                          /\ Distance(t, Stored(t, q, x)) < q
    BY <1>0, <1>2, Neighbours
  <2>2. PICK a \in Nat : a = Stored(t, q, up)
    BY <2>1
  <2>3. a % 2 = 0 /\ Distance(t, a) < 2 /\ d = a + 3
    BY <1>2, <2>1, <2>2
  <2>4. ~(Distance(t, d) < 2)
    BY <2>2, <2>3 DEF Distance
  <2>5. d % 2 # 0
    BY <2>2, <2>3
  <2>6. ~TimestampEqual(t, d, q)
    BY <1>2, <2>4 DEF TimestampEqual
  <2>7. \A x \in BOOLEAN : Stored(t, q, x) % 2 = 0
    BY <1>2, <2>1, Zenon
  <2> QED BY <2>5, <2>6, <2>7, Zenon
<1> QED BY <1>1, <1>2

\* A creation time as the file system stored it is accepted.
LEMMA BirthStored ==
  ASSUME NEW t \in Nat, NEW q \in {0, 2}, NEW up \in BOOLEAN
  PROVE  TimestampEqual(t, Stored(t, q, up), q)
BY Neighbours DEF TimestampEqual

\* A write time moved by a quantum stays on the grid.
LEMMA OnTheGrid ==
  ASSUME NEW t \in Nat, NEW q \in {2, 4}, t % q = 0
  PROVE  (t + q) % q = 0
<1>1. CASE q = 2 BY <1>1
<1>2. CASE q = 4 BY <1>2
<1> QED BY <1>1, <1>2

\* A damaged copy beside its source: what the walk relies on of the two.
LEMMA StartComparable ==
  ASSUME NEW o \in Objects, NEW w \in Objects, NEW x, NEW up \in BOOLEAN,
         policy \in FilesystemPolicies,
         Touched(CopyOf(o, policy, up), w, x, policy),
         o.kind = "dir" <=> x \in {Root, Dir}, o.kind = "link" <=> x = <<"l">>,
         ~policy.srcStreams => o.streams = 0, ~policy.srcEas => o.eas = 0
  PROVE  Comparable(o, w)
<1> DEFINE c == CopyOf(o, policy, up)
           q == LastWriteQuantum(policy.fs)
           b == CreationQuantum(policy.fs)
<1>0. q \in {0, 2, 4} /\ b \in {0, 2} /\ (q # 0 => policy.fs \in Fat)
  BY DEF LastWriteQuantum, CreationQuantum, Fat
<1>1. /\ c.data = o.data /\ c.kind = o.kind /\ c.link = o.link /\ c.mtime = Stored(o.mtime, q, up)
      /\ ~Projects(policy) => c.ctime = Stored(o.ctime, b, up)
  BY CopyFacts
<1>2. /\ w.data = c.data \/ x \in {<<"a">>, <<"d", "f">>}
      /\ w.link = c.link \/ x = <<"l">>
      /\ w.mtime = c.mtime \/ w.mtime = c.mtime + IF policy.fs \in Fat THEN q ELSE 1
      /\ w.ctime = c.ctime \/ (~Projects(policy) /\ w.ctime = c.ctime + b + 1)
  BY Zenon DEF Touched
<1>3. o.kind \in {"dir", "file", "link"} /\ o.mtime \in Nat /\ o.ctime \in Nat
  BY DEF Objects
<1> HIDE DEF c, q, b
<1>4. o.kind # "file" => o.data = w.data
  <2>1. <<"a">> \notin {Root, Dir, <<"l">>} /\ <<"d", "f">> \notin {Root, Dir, <<"l">>}
    BY DEF Root, Dir
  <2>2. o.kind # "file" => x \in {Root, Dir, <<"l">>}
    BY <1>3
  <2>3. o.kind # "file" => x \notin {<<"a">>, <<"d", "f">>}
    BY <2>1, <2>2
  <2> QED BY <1>1, <1>2, <2>3
<1>5. o.kind # "link" => o.link = w.link
  BY <1>1, <1>2
<1>6. q = 0 \/ w.mtime % q = 0
  <2>1. SUFFICES ASSUME q # 0 PROVE w.mtime % q = 0
    OBVIOUS
  <2>2. c.mtime \in Nat /\ c.mtime % q = 0
    BY <1>0, <1>1, <1>3, <2>1, Neighbours
  <2>3. w.mtime = c.mtime \/ w.mtime = c.mtime + q
    BY <1>0, <1>2, <2>1
  <2>4. (c.mtime + q) % q = 0
    BY <1>0, <2>1, <2>2, OnTheGrid
  <2> QED BY <2>2, <2>3, <2>4
<1>7. BasicIsProjected <=> Projects(policy)
  BY DEF BasicIsProjected, Projects
<1>8. CreationEqual(o.ctime, w.ctime) <=> BasicIsProjected \/ TimestampEqual(o.ctime, w.ctime, b)
  BY DEF CreationEqual, b
<1>9. BasicIsProjected \/
        (CreationEqual(o.ctime, w.ctime) <=> \E y \in BOOLEAN : w.ctime = Stored(o.ctime, b, y))
  <2>1. SUFFICES ASSUME ~Projects(policy)
                 PROVE  TimestampEqual(o.ctime, w.ctime, b)
                          <=> \E y \in BOOLEAN : w.ctime = Stored(o.ctime, b, y)
    BY <1>7, <1>8, Zenon
  <2>2. c.ctime = Stored(o.ctime, b, up)
    BY <1>1, <2>1
  <2>3. CASE w.ctime = c.ctime
    <3>1. TimestampEqual(o.ctime, w.ctime, b)
      BY <1>0, <1>3, <2>2, <2>3, BirthStored
    <3> QED BY <2>2, <2>3, <3>1
  <2>4. CASE w.ctime = c.ctime + b + 1
    <3>1. ~TimestampEqual(o.ctime, w.ctime, b) /\ \A y \in BOOLEAN : w.ctime # Stored(o.ctime, b, y)
      BY <1>0, <1>3, <2>2, <2>4, BirthMoved
    <3> QED BY <3>1
  <2> QED BY <1>2, <2>3, <2>4
<1> QED BY <1>4, <1>5, <1>6, <1>9, Zenon DEF Comparable, q, b

\* What Init leaves of the two trees: names, kinds, and a copy the reference can judge.
LEMMA StartShape == ASSUME Init PROVE Shape
<1> USE VerifyAssumption
<1>1. policy \in FilesystemPolicies /\ mode \in {"full", "copied"} /\ damage \in Damages
  BY DEF Init
<1>2. PICK t \in Times, up \in BOOLEAN :
        tree = [src |-> IF damage = "clash"
                        THEN With(SourceTree(policy, t), <<"A">>, SourceTree(policy, t)[<<"a">>])
                        ELSE SourceTree(policy, t),
                dst |-> Damaged([p \in DOMAIN SourceTree(policy, t) |->
                                    CopyOf(SourceTree(policy, t)[p], policy, up)],
                                damage, policy)]
  BY DEF Init
<1> DEFINE s == SourceTree(policy, t)
           c == [p \in DOMAIN s |-> CopyOf(s[p], policy, up)]
           w == Damaged(c, damage, policy)
           a == <<"a">>
           A == <<"A">>
           df == <<"d", "f">>
           dx == <<"d", "x">>
           L == <<"l">>
<1>3. /\ IsTree(s)
      /\ DOMAIN s = {Root, a, Dir, df} \cup IF policy.reparse THEN {L} ELSE {}
      /\ \A x \in DOMAIN s :
           /\ s[x].kind = "dir" <=> x \in {Root, Dir}
           /\ s[x].kind = "link" <=> x = <<"l">>
           /\ ~policy.srcStreams => s[x].streams = 0
           /\ ~policy.srcEas => s[x].eas = 0
  <2>1. t \in Nat
    OBVIOUS
  <2>2. IsTree(s)
    BY <1>1, <2>1, SourceIsTree, Zenon
  <2>3. /\ DOMAIN s = {Root, a, Dir, df} \cup IF policy.reparse THEN {L} ELSE {}
        /\ \A x \in DOMAIN s :
             /\ s[x].kind = "dir" <=> x \in {Root, Dir}
             /\ s[x].kind = "link" <=> x = <<"l">>
             /\ ~policy.srcStreams => s[x].streams = 0
             /\ ~policy.srcEas => s[x].eas = 0
    BY <1>1, <2>1, SourceFacts, Zenon
  <2> QED BY <2>2, <2>3, Zenon
<1>4. tree["src"] = (IF damage = "clash" THEN With(s, A, s[a]) ELSE s) /\ tree["dst"] = w
  BY <1>2
<1> HIDE DEF s
<1>5. A \notin {Root, a, Dir, df, L} /\ dx \notin {Root, a, Dir, df, L} /\ a \notin {Root, Dir}
      /\ df \notin {Root, a, Dir} /\ A # dx
  BY DEF Root, Dir
<1> HIDE DEF a, A, df, dx, L
<1>6. A \notin DOMAIN s /\ dx \notin DOMAIN s /\ {Root, a, Dir} \subseteq DOMAIN s
  BY <1>3, <1>5
<1>7. \A x \in DOMAIN s : s[x] \in Objects
  BY <1>3 DEF IsTree
<1>8. IsTree(c) /\ DOMAIN c = DOMAIN s
  BY <1>1, <1>3, CopyIsTree
<1>9. \A x \in DOMAIN s : c[x] = CopyOf(s[x], policy, up)
  OBVIOUS
<1> HIDE DEF c
<1>10. /\ DOMAIN w = CASE damage = "missing" -> DOMAIN c \ {df}
                       [] damage = "extra"   -> DOMAIN c \cup {dx}
                       [] damage = "twin"    -> DOMAIN c \cup {A}
                       [] OTHER              -> DOMAIN c
       /\ \A x \in DOMAIN c \cap DOMAIN w : Touched(c[x], w[x], x, policy)
  BY <1>1, <1>6, <1>8, DamagedFacts DEF A, df, dx
<1>11. IsTree(w)
  BY <1>1, <1>6, <1>8, DamagedIsTree DEF a
<1> HIDE DEF w
<1>12. /\ InSource = IF damage = "clash" THEN DOMAIN s \cup {A} ELSE DOMAIN s
       /\ \A x \in DOMAIN s : Object("src", x) = s[x]
       /\ damage = "clash" => Object("src", A) = s[a]
  <2>1. DOMAIN With(s, A, s[a]) = DOMAIN s \cup {A}
    BY DEF With
  <2>2. \A x \in DOMAIN s : With(s, A, s[a])[x] = s[x]
    BY <1>6 DEF With
  <2>3. With(s, A, s[a])[A] = s[a]
    BY DEF With
  <2> QED BY <1>4, <2>1, <2>2, <2>3 DEF InSource, Object
<1>13. InDest = DOMAIN w /\ \A x : Object("dst", x) = w[x]
  BY <1>4 DEF InDest, Object
<1>14. /\ InDest \subseteq DOMAIN s \cup {A, dx}
       /\ DOMAIN s \ {df} \subseteq InDest
       /\ A \in InDest => damage = "twin"
  BY <1>5, <1>6, <1>8, <1>10, <1>13
<1>15. DOMAIN s \cup {A, dx} \subseteq Paths
  <2>1. Paths = {Root} \cup {a, A, Dir, L} \cup {df, dx}
    BY PathFacts DEF Below, a, A, df, dx, L
  <2> QED BY <1>3, <2>1
<1>16. InSource \subseteq Paths /\ InDest \subseteq Paths
  BY <1>12, <1>14, <1>15
<1>17. {Root, Dir, a} \subseteq InSource /\ {Root, Dir, a} \subseteq InDest
  BY <1>5, <1>6, <1>12, <1>14
<1>18. \A p \in InSource : Object("src", p).kind = "dir" <=> p \in {Root, Dir}
  BY <1>3, <1>5, <1>6, <1>12
<1>19. ASSUME NEW p \in InSource, p \in InDest
       PROVE  p \in DOMAIN s /\ Touched(c[p], w[p], p, policy)
  <2>1. p \in DOMAIN s
    BY <1>12, <1>14, <1>19
  <2> QED BY <1>8, <1>10, <1>13, <1>19, <2>1
<1>20. Object("dst", Root).kind = "dir" /\ Object("dst", Dir).kind = "dir"
  <2>1. ASSUME NEW x \in {Root, Dir} PROVE w[x].kind = "dir"
    <3>1. x \in InSource /\ x \in InDest /\ x # df
      BY <1>5, <1>17, <2>1
    <3>2. x \in DOMAIN s /\ (w[x].kind = c[x].kind \/ x = df)
      BY <1>19, <3>1 DEF Touched, df
    <3>3. c[x].kind = s[x].kind
      BY <1>1, <1>7, <1>9, <3>2, CopyFacts
    <3> QED BY <1>3, <2>1, <3>1, <3>2, <3>3
  <2> QED BY <1>13, <2>1
<1>21. Aliased => InSource # InDest
  <2>1. a \in TwoCases /\ A \in TwoCases
    BY DEF TwoCases, a, A
  <2>2. A \in InSource => damage = "clash"
    BY <1>6, <1>12
  <2> QED BY <1>14, <2>1, <2>2 DEF Aliased
<1>22. ASSUME NEW p \in InSource, p \in InDest
       PROVE  Comparable(Object("src", p), Object("dst", p))
  <2>1. p \in DOMAIN s /\ Touched(c[p], w[p], p, policy)
    BY <1>19, <1>22
  <2>2. c[p] = CopyOf(s[p], policy, up) /\ s[p] \in Objects
    BY <1>7, <1>9, <2>1
  <2>3. w[p] \in Objects
    BY <1>11, <1>13, <1>22 DEF IsTree
  <2>4. Comparable(s[p], w[p])
    BY <1>1, <1>3, <2>1, <2>2, <2>3, StartComparable
  <2> QED BY <1>12, <1>13, <2>1, <2>4
<1> QED BY <1>16, <1>17, <1>18, <1>20, <1>21, <1>22 DEF Shape, a

-----------------------------------------------------------------------------
(* The sums.                                                                 *)

\* A verdict is one more of its kind.
LEMMA VerdictSum ==
  ASSUME SumInv, NEW ok, Verdict(ok)
  PROVE  /\ ok => sum' = [passed |-> sum.passed + 1, failed |-> sum.failed]
         /\ ~ok => sum' = [passed |-> sum.passed, failed |-> sum.failed + 1]
<1>1. PICK s : s = sum
  OBVIOUS
<1>2. s = [passed |-> s.passed, failed |-> s.failed]
  BY <1>1 DEF SumInv
<1>3. /\ [s EXCEPT !.passed = @ + 1] = [passed |-> s.passed + 1, failed |-> s.failed]
      /\ [s EXCEPT !.failed = @ + 1] = [passed |-> s.passed, failed |-> s.failed + 1]
  BY <1>2
<1>4. /\ ok => sum' = [s EXCEPT !.passed = @ + 1]
      /\ ~ok => sum' = [s EXCEPT !.failed = @ + 1]
  BY <1>1, Zenon DEF Verdict
<1> QED BY <1>1, <1>3, <1>4, Zenon

\* A failure where something is wrong.
LEMMA Fails ==
  ASSUME SumInv, UNCHANGED fixed, UNCHANGED tree, NEW n \in Nat, n > 0,
         sum' = [passed |-> sum.passed, failed |-> sum.failed + n], ~Right
  PROVE  SumInv'
<1>1. ~Right'
  BY Still
<1>2. sum.passed \in Nat /\ sum.failed \in Nat
  BY DEF SumInv
<1>3. /\ sum' = [passed |-> sum'.passed, failed |-> sum'.failed]
      /\ sum'.passed \in Nat /\ sum'.failed \in Nat /\ sum'.failed # 0
  BY <1>2
<1> QED BY <1>1, <1>3 DEF SumInv

\* What is left of the sums' part to show for what has not failed.
Covered ==
    /\ Aliased => NotYetMet
    /\ ~Aliased /\ mode = "full" => InDest \cap Compared \subseteq InSource

\* An object passes.
LEMMA Passes ==
  ASSUME SumInv, Shape, UNCHANGED fixed, UNCHANGED tree,
         sum' = [passed |-> sum.passed + 1, failed |-> sum.failed],
         NEW p, p \notin Settled, Settled \subseteq InSource, Settled' = Settled \cup {p},
         ~Aliased => Sound(p), sum.failed = 0 => Covered'
  PROVE  SumInv'
<1>1. /\ InSource' = InSource /\ (Aliased' <=> Aliased) /\ (Right' <=> Right)
      /\ \A x : Sound(x)' <=> Sound(x)
  BY Still
<1>2. sum.passed \in Nat /\ sum.failed \in Nat
  BY DEF SumInv
<1>3. /\ sum' = [passed |-> sum'.passed, failed |-> sum'.failed]
      /\ sum'.passed = sum.passed + 1 /\ sum'.failed = sum.failed
      /\ sum'.passed \in Nat /\ sum'.failed \in Nat
  BY <1>2
<1>4. Cardinality(Settled \cup {p}) = Cardinality(Settled) + 1
  BY FiniteTrees, FS_AddElement
<1>5. Right => sum'.failed = 0 /\ sum'.passed = Cardinality(Settled')
  BY <1>3, <1>4 DEF SumInv
<1>6. sum.failed = 0 /\ ~Aliased => \A x \in Settled' : Sound(x)
  BY DEF SumInv
<1> QED BY <1>1, <1>3, <1>5, <1>6 DEF SumInv, Covered

\* Nothing gets a verdict.
LEMMA Goes ==
  ASSUME SumInv, UNCHANGED fixed, UNCHANGED tree, UNCHANGED sum,
         Settled' = Settled, sum.failed = 0 => Covered'
  PROVE  SumInv'
<1>1. /\ InSource' = InSource /\ (Aliased' <=> Aliased) /\ (Right' <=> Right)
      /\ \A x : Sound(x)' <=> Sound(x)
  BY Still
<1>2. Right => sum'.failed = 0 /\ sum'.passed = Cardinality(Settled')
  BY DEF SumInv
<1>3. sum.failed = 0 /\ ~Aliased => \A x \in Settled' : Sound(x)
  BY DEF SumInv
<1>4. /\ sum' = [passed |-> sum'.passed, failed |-> sum'.failed]
      /\ sum'.passed \in Nat /\ sum'.failed \in Nat
  BY DEF SumInv
<1> QED BY <1>1, <1>2, <1>3, <1>4 DEF SumInv, Covered

\* Two names of a directory with one key, on whichever sides: nothing is right.
LEMMA OneKey ==
  ASSUME Shape, mode = "full", NEW c \in {Root, Dir}, NEW p \in Below(c), NEW q \in Below(c),
         p \in InSource \/ p \in InDest, q \in InSource \/ q \in InDest,
         KeyOf(p) = KeyOf(q), p # q
  PROVE  Aliased
<1>1. ~policy.caseSensitive /\ {p, q} = TwoCases
  BY KeyFacts
<1>2. <<"a">> \in InSource /\ <<"a">> \in InDest
  BY DEF Shape
<1>3. TwoCases \subseteq InSource \/ TwoCases \subseteq InDest
  BY <1>1, <1>2 DEF TwoCases
<1> QED BY <1>1, <1>3 DEF Aliased

\* Two names with one key are no copy of one another.
LEMMA AliasedIsWrong == ASSUME Shape, Aliased PROVE ~Right
BY DEF Shape, Aliased, Right

\* The names of a directory and their keys.
LEMMA NamesCount ==
  ASSUME NEW ds, IsFiniteSet(ds), NEW names, names = {KeyOf(q) : q \in ds}
  PROVE  /\ IsFiniteSet(names) /\ Cardinality(names) \in Nat /\ Cardinality(ds) \in Nat
         /\ Cardinality(names) <= Cardinality(ds)
         /\ Cardinality(names) = Cardinality(ds)
              <=> \A x, y \in ds : KeyOf(x) = KeyOf(y) => x = y
<1> DEFINE f == [q \in ds |-> KeyOf(q)]
<1>1. f \in Surjection(ds, names)
  BY DEF Surjection
<1>2. f \in Injection(ds, names) <=> \A x, y \in ds : KeyOf(x) = KeyOf(y) => x = y
  <2>1. f \in [ds -> names] /\ \A x \in ds : f[x] = KeyOf(x)
    OBVIOUS
  <2> HIDE DEF f
  <2> QED BY <2>1 DEF Injection, IsInjective
<1> HIDE DEF f
<1>3. /\ IsFiniteSet(names) /\ Cardinality(names) <= Cardinality(ds)
      /\ Cardinality(names) = Cardinality(ds) <=> f \in Injection(ds, names)
  BY <1>1, FS_Surjection
<1>4. Cardinality(names) \in Nat /\ Cardinality(ds) \in Nat
  BY <1>3, FS_CardinalityType
<1> QED BY <1>2, <1>3, <1>4

-----------------------------------------------------------------------------
(* A step without a change or a failed read.                                 *)

\* The parts, as long as nothing was changed and no read failed.
LEMMA VParts ==
  ASSUME VInv, events = 0
  PROVE  st # "error" /\ Shape /\ StackInv /\ EntryInv /\ TargetInv /\ PairInv /\ SumInv
BY DEF VInv

\* A step without a change needs no more than its parts; the trees stay as they are.
LEMMA QuietStep ==
  ASSUME VInv, events = 0, UNCHANGED events, UNCHANGED fixed, UNCHANGED tree, st' # "error",
         StackInv', EntryInv', TargetInv', PairInv', SumInv'
  PROVE  VInv'
<1>1. Shape'
  BY VParts, Still
<1> QED BY <1>1 DEF VInv

\* After a change or a failed read nothing is claimed any more.
LEMMA EventStep == ASSUME VInv, events # 0 \/ Event, events' \in {events, events + 1} PROVE VInv'
<1>1. events \in Nat
  BY DEF VInv
<1>2. events' \in Nat /\ events' # 0
  BY <1>1 DEF Event
<1> QED BY <1>2 DEF VInv

\* The last of one task, and what is before it.
LEMMA OneTask ==
  ASSUME NEW x
  PROVE  Last(<<x>>) = x /\ Front(<<x>>) = << >> /\ <<x>> # << >>
<1>1. Last(<<x>>) = x /\ <<x>> # << >>
  BY DEF Last
<1>2. Front(<<x>>) = << >>
  BY FrontOfShort
<1> QED BY <1>1, <1>2

\* The parts that speak of a directory's entries or of a pair, elsewhere.
LEMMA Elsewhere ==
  ASSUME mode' = "full", st' \notin {"entries", "digest"}
  PROVE  EntryInv' /\ PairInv' /\ TargetInv'
BY DEF EntryInv, PairInv, TargetInv, InDir

\* The roots' verdict; the walk has one task now, the root's.
LEMMA VerifyRootV ==
  ASSUME IInv, VInv, events = 0, VerifyRoot, UNCHANGED events
  PROVE  VInv'
<1> DEFINE s == Object("src", Root)
           d == Object("dst", Root)
           ok == MetadataEqual(s, d) /\ AuxEqual(s, d)
<1>1. /\ st = "root" /\ Verdict(ok) /\ tasks' = <<Task(Root)>> /\ st' = "walk"
      /\ UNCHANGED <<fixed, tree>>
  BY DEF VerifyRoot, Event, Task, Root, VInv
<1>2. mode = "full" /\ mode' = "full"
  BY <1>1 DEF IInv, Placed, fixed
<1>3. Shape /\ SumInv
  BY VParts
<1>4. Sound(Root) <=> ok
  <2>1. /\ Root \in InSource /\ Root \in InDest /\ s.kind = "dir" /\ d.kind = "dir"
    BY <1>3, DirsAgree
  <2>2. s.link = d.link
    BY <1>3, <2>1 DEF Shape, Comparable
  <2> HIDE DEF s, d
  <2>3. s = Object("src", Root) /\ d = Object("dst", Root)
    BY DEF s, d
  <2> QED BY <1>3, <2>1, <2>2, <2>3, AgreeUnread
<1> HIDE DEF ok
<1>5. StackInv'
  BY <1>1 DEF StackInv, InDir
<1>6. EntryInv' /\ PairInv' /\ TargetInv'
  BY <1>1, <1>2, Elsewhere
<1>7. Settled = {} /\ Compared = {}
  BY <1>1, <1>2 DEF Settled, Compared
<1>8. Settled' = {Root} /\ Compared' = {Root}
  <2>1. tasks' # << >> /\ Last(tasks').src = Root
    BY <1>1, OneTask DEF Task
  <2>2. InSource' \cap Above(Root) = {Root}
    BY <1>1, <1>3, Still, PathFacts DEF Shape
  <2> QED BY <1>1, <1>2, <2>1, <2>2, PathFacts DEF Settled, Compared
<1>9. Covered'
  <2>1. NotYetMet'
    BY <1>1 DEF NotYetMet
  <2>2. InDest' \cap Compared' \subseteq InSource'
    BY <1>1, <1>3, <1>8, Still DEF Shape
  <2> QED BY <2>1, <2>2 DEF Covered
<1>10. SumInv'
  <2>1. CASE ok
    <3>1. sum' = [passed |-> sum.passed + 1, failed |-> sum.failed]
      BY <1>1, <1>3, <2>1, VerdictSum
    <3> QED BY <1>1, <1>3, <1>4, <1>7, <1>8, <1>9, <2>1, <3>1, Passes
  <2>2. CASE ~ok
    <3>1. sum' = [passed |-> sum.passed, failed |-> sum.failed + 1]
      BY <1>1, <1>3, <2>2, VerdictSum
    <3>2. Root \in Wanted
      BY <1>2, <1>3 DEF Wanted, Shape
    <3>3. ~Right
      BY <1>4, <2>2, <3>2 DEF Right
    <3> QED BY <1>1, <1>3, <3>1, <3>3, Fails
  <2> QED BY <2>1, <2>2
<1> QED BY <1>1, <1>5, <1>6, <1>10, QuietStep

\* Nothing is left of the walk or of the targets: everything was settled and compared.
LEMMA FinishedV ==
  ASSUME IInv, VInv, events = 0, Finished
  PROVE  VInv'
<1>1. /\ (st = "walk" /\ tasks = << >>) \/ (st = "targets" /\ entries = {})
      /\ st' = "done"
      /\ UNCHANGED <<fixed, tree, entries, tasks, pair, sum, events>>
  BY DEF Finished, walkVars
<1>2. /\ st = "walk" => mode = "full"
      /\ st = "targets" => mode = "copied"
      /\ mode \in {"full", "copied"} /\ mode' = mode
  BY <1>1 DEF IInv, Placed, Types, fixed
<1>3. Shape /\ SumInv /\ TargetInv
  BY VParts
<1>4. StackInv' /\ EntryInv' /\ PairInv'
  BY <1>1 DEF StackInv, EntryInv, PairInv, InDir
<1>5. TargetInv'
  BY <1>1, <1>2 DEF TargetInv
<1>s. InSource' = InSource /\ InDest' = InDest /\ Files' = Files /\ (Aliased' <=> Aliased)
  BY <1>1, Still
<1>6. Settled' = Settled
  BY <1>1, <1>2, <1>s DEF Settled, InPair
<1>7. sum.failed = 0 => Covered'
  <2>1. CASE mode = "full"
    <3>1. st = "walk" /\ tasks = << >>
      BY <1>1, <1>2, <2>1
    <3>2. ~NotYetMet
      BY <3>1 DEF NotYetMet, InDir
    <3>3. Compared = Paths /\ Compared' = Paths
      BY <1>1, <3>1 DEF Compared
    <3>4. sum.failed = 0 => ~Aliased /\ InDest \cap Paths \subseteq InSource
      BY <1>3, <2>1, <3>2, <3>3 DEF SumInv
    <3> QED BY <1>s, <3>3, <3>4 DEF Covered
  <2>2. CASE mode = "copied"
    BY <1>2, <2>2 DEF Covered, Aliased
  <2> QED BY <1>2, <2>1, <2>2
<1>8. SumInv'
  BY <1>1, <1>3, <1>6, <1>7, Goes
<1> QED BY <1>1, <1>4, <1>5, <1>8, QuietStep

-----------------------------------------------------------------------------
(* A directory is enumerated, and what is left of it is counted.             *)

\* Nothing about a pair is claimed between two pairs.
LEMMA NoPairThere ==
  ASSUME st' # "digest", mode' = "full"
  PROVE  PairInv' /\ TargetInv'
BY DEF PairInv, TargetInv

\* A directory of the source is to be matched; names of the destination that collide
\* fail here, and those of the source are still to be met.
LEMMA EnumerateV ==
  ASSUME IInv, VInv, events = 0, Enumerate, UNCHANGED events
  PROVE  VInv'
<1>1. Shape /\ StackInv /\ SumInv
  BY VParts
<1>2. st = "walk" /\ tasks # << >> /\ UNCHANGED fixed /\ UNCHANGED tree /\ tasks' = Front(tasks)
  BY DEF Enumerate
<1>3. mode = "full" /\ mode' = "full"
  BY <1>2 DEF IInv, Placed, fixed
<1>4. PICK c \in {Root, Dir} : tasks = <<Task(c)>>
  BY <1>1, <1>2 DEF StackInv
<1>5. Last(tasks) = Task(c) /\ tasks' = << >> /\ Last(tasks).src = c /\ Last(tasks).dst = c
  BY <1>2, <1>4, OneTask DEF Task
<1>6. HasDir("src", c) /\ HasDir("dst", c)
  BY <1>1, DirsAgree DEF HasDir, InSource, InDest
<1> DEFINE ss == Children("src", c)
           ds == Children("dst", c)
           names == {KeyOf(q) : q \in ds}
<1>7. /\ cur' = Task(c) /\ keys' = {} /\ st' = "entries"
      /\ entries' = {Entry("src", q) : q \in ss}
      /\ \E pick \in [names -> ds] :
            /\ \A k \in names : KeyOf(pick[k]) = k
            /\ dmap' = [k \in names |-> Entry("dst", pick[k])]
      /\ sum' = [sum EXCEPT !.failed = @ + Cardinality(ds) - Cardinality(names)]
  <2>1. events' # events + 1
    BY DEF VInv
  <2> QED BY <1>5, <1>6, <2>1 DEF Enumerate, Event, KeyOf
<1>8. /\ ss = InSource \cap Below(c) /\ ds = InDest \cap Below(c)
      /\ Children("src", c)' = ss /\ Children("dst", c)' = ds
  BY <1>1, <1>2, ChildrenAre, Still
<1>9. /\ DOMAIN dmap' = names
      /\ \A k \in names : \E q \in ds : KeyOf(q) = k /\ dmap'[k] = Entry("dst", q)
  BY <1>7
<1> HIDE DEF ss, ds, names
<1>10. At' = c /\ \A q \in ss : Entry("src", q).path = q
  BY <1>7 DEF At, Task, Entry
<1>11. EntryPaths' = ss /\ Matched' = {}
  <2>1. EntryPaths' = ss
    BY <1>7, <1>10 DEF EntryPaths
  <2>2. Matched' = Children("src", c)' \ EntryPaths'
    BY <1>10 DEF Matched
  <2> QED BY <1>8, <2>1, <2>2
<1>12. StackInv'
  BY <1>5, <1>7, <1>10, <1>11 DEF StackInv, InDir
<1>13. EntryInv'
  <2>1. /\ \A q : Entry("src", q)' = Entry("src", q) /\ Entry("dst", q)' = Entry("dst", q)
        /\ \A q : KeyOf(q)' = KeyOf(q)
    BY <1>2, Still
  <2>2. /\ Children("src", At)' = ss /\ Children("dst", At)' = ds
    BY <1>8, <1>10
  <2>3. \A e \in entries' : e.path \in ss /\ e = Entry("src", e.path)
    BY <1>7, <1>10
  <2>4. keys' = {KeyOf(p)' : p \in Matched'}
    BY <1>7, <1>11
  <2>5. DOMAIN dmap' = {KeyOf(q)' : q \in ds} \ keys'
    BY <1>7, <1>9, <2>1 DEF names
  <2> QED BY <1>9, <2>1, <2>2, <2>3, <2>4, <2>5 DEF EntryInv
<1>14. PairInv' /\ TargetInv'
  BY <1>3, <1>7, NoPairThere
<1>15. Settled' = Settled /\ Compared = Above(c) /\ Compared' = Above(c)
  BY <1>2, <1>3, <1>5, <1>7, <1>10, <1>11, Still DEF Settled, Compared
<1>16. /\ Cardinality(names) \in Nat /\ Cardinality(ds) \in Nat
       /\ Cardinality(names) <= Cardinality(ds)
       /\ Cardinality(names) = Cardinality(ds)
              <=> \A x, y \in ds : KeyOf(x) = KeyOf(y) => x = y
  <2>1. IsFiniteSet(ds)
    BY <1>1, <1>8, FiniteTrees
  <2> QED BY <2>1, NamesCount DEF names
<1>17. sum' = [passed |-> sum.passed,
               failed |-> sum.failed + (Cardinality(ds) - Cardinality(names))]
  <2>1. PICK m \in Nat, n \in Nat : m = Cardinality(ds) /\ n = Cardinality(names)
    BY <1>16
  <2>2. PICK s : s = sum
    OBVIOUS
  <2>3. s = [passed |-> s.passed, failed |-> s.failed] /\ s.failed \in Nat
    BY <1>1, <2>2 DEF SumInv
  <2>4. [s EXCEPT !.failed = @ + m - n] = [passed |-> s.passed, failed |-> s.failed + (m - n)]
    BY <2>3
  <2> QED BY <1>7, <2>1, <2>2, <2>4
<1>18. CASE Cardinality(names) = Cardinality(ds)
  <2>1. sum' = sum
    <3>1. PICK s : s = sum
      OBVIOUS
    <3>2. s = [passed |-> s.passed, failed |-> s.failed] /\ s.failed \in Nat
      BY <1>1, <3>1 DEF SumInv
    <3>3. Cardinality(ds) - Cardinality(names) = 0
      BY <1>16, <1>18
    <3>4. sum' = [passed |-> s.passed, failed |-> s.failed + 0]
      BY <1>17, <3>1, <3>3
    <3> QED BY <3>1, <3>2, <3>4
  <2>2. ASSUME sum.failed = 0 PROVE Covered'
    <3>1. Aliased => NotYetMet'
      <4> HAVE Aliased
      <4>1. NotYetMet
        BY <1>1, <2>2 DEF SumInv
      <4>2. tasks = <<Task(Root)>>
        BY <1>2, <4>1 DEF NotYetMet, InDir
      <4>3. c = Root
        BY <1>4, <1>5, <4>2, OneTask DEF Task
      <4>4. ~policy.caseSensitive /\ (TwoCases \subseteq InSource \/ TwoCases \subseteq InDest)
        BY DEF Aliased
      <4>5. ~(TwoCases \subseteq InDest)
        <5>1. SUFFICES ASSUME TwoCases \subseteq ds PROVE FALSE
          BY <1>8, <4>3, PathFacts
        <5>2. <<"a">> \in TwoCases /\ <<"A">> \in TwoCases /\ <<"a">> # <<"A">>
          BY DEF TwoCases
        <5>3. KeyOf(<<"a">>) = KeyOf(<<"A">>)
          BY <4>4, <5>2, KeyFacts, PathFacts
        <5> QED BY <1>16, <1>18, <5>1, <5>2, <5>3
      <4>6. TwoCases \subseteq InSource /\ TwoCases \subseteq ss
        BY <1>8, <4>3, <4>4, <4>5, PathFacts
      <4>7. TwoCases \cap EntryPaths' # {}
        BY <1>11, <4>6 DEF TwoCases
      <4>8. TwoCases \subseteq InSource'
        BY <1>2, <4>6, Still
      <4> QED BY <1>3, <1>7, <1>10, <4>3, <4>7, <4>8 DEF NotYetMet, InDir
    <3>2. ~Aliased => InDest \cap Above(c) \subseteq InSource
      BY <1>1, <1>3, <1>15, <2>2 DEF SumInv
    <3> QED BY <1>2, <1>15, <3>1, <3>2, Still DEF Covered
  <2>3. SumInv'
    BY <1>1, <1>2, <1>15, <2>1, <2>2, Goes
  <2> QED BY <1>2, <1>7, <1>12, <1>13, <1>14, <2>3, QuietStep
<1>19. CASE Cardinality(names) # Cardinality(ds)
  <2>1. Cardinality(ds) - Cardinality(names) \in Nat /\ Cardinality(ds) - Cardinality(names) > 0
    BY <1>16, <1>19
  <2>2. PICK x \in ds, y \in ds : KeyOf(x) = KeyOf(y) /\ x # y
    BY <1>16, <1>19
  <2>3. Aliased
    BY <1>1, <1>3, <1>8, <2>2, OneKey
  <2>4. ~Right
    BY <1>1, <2>3, AliasedIsWrong
  <2>5. SumInv'
    BY <1>1, <1>2, <1>17, <2>1, <2>4, Fails
  <2> QED BY <1>2, <1>7, <1>12, <1>13, <1>14, <2>5, QuietStep
<1> QED BY <1>18, <1>19

\* While a directory is walked: which one it is, and what is known of its entries.
LEMMA DirFacts ==
  ASSUME VInv, events = 0, InDir
  PROVE  /\ At \in {Root, Dir} /\ cur = Task(At)
         /\ Children("src", At) = InSource \cap Below(At)
         /\ Children("dst", At) = InDest \cap Below(At)
         /\ Matched = (InSource \cap Below(At)) \ EntryPaths
         /\ EntryPaths \subseteq InSource \cap Below(At)
         /\ \A e \in entries : e = Entry("src", e.path) /\ e.path \in EntryPaths
         /\ keys = {KeyOf(p) : p \in Matched}
         /\ DOMAIN dmap = {KeyOf(q) : q \in InDest \cap Below(At)} \ keys
         /\ \A k \in DOMAIN dmap :
              \E q \in InDest \cap Below(At) : KeyOf(q) = k /\ dmap[k] = Entry("dst", q)
<1>1. Shape /\ StackInv /\ EntryInv
  BY VParts
<1>2. cur \in {Task(Root), Task(Dir)}
  BY <1>1 DEF StackInv
<1>3. At \in {Root, Dir} /\ cur = Task(At)
  BY <1>2 DEF At, Task
<1>4. /\ Children("src", At) = InSource \cap Below(At)
      /\ Children("dst", At) = InDest \cap Below(At)
  BY <1>1, <1>3, ChildrenAre
<1>5. /\ \A e \in entries : e.path \in Children("src", At) /\ e = Entry("src", e.path)
      /\ keys = {KeyOf(p) : p \in Matched}
      /\ DOMAIN dmap = {KeyOf(q) : q \in Children("dst", At)} \ keys
      /\ \A k \in DOMAIN dmap :
            \E q \in Children("dst", At) : KeyOf(q) = k /\ dmap[k] = Entry("dst", q)
  BY <1>1 DEF EntryInv
<1>6. \A e \in entries : e.path \in EntryPaths
  BY DEF EntryPaths
<1>7. EntryPaths \subseteq InSource \cap Below(At)
  BY <1>4, <1>5 DEF EntryPaths
<1>8. Matched = (InSource \cap Below(At)) \ EntryPaths
  BY <1>4 DEF Matched
<1> QED BY <1>3, <1>4, <1>5, <1>6, <1>7, <1>8

\* What is left in the map has no source; with nothing left, the names are the source's.
LEMMA ExtrasV ==
  ASSUME IInv, VInv, events = 0, Extras
  PROVE  VInv'
<1>1. Shape /\ StackInv /\ SumInv
  BY VParts
<1>2. /\ st = "entries" /\ entries = {} /\ st' = "walk"
      /\ sum' = [sum EXCEPT !.failed = @ + Cardinality(DOMAIN dmap)]
      /\ UNCHANGED fixed /\ UNCHANGED tree /\ UNCHANGED <<tasks, entries, events>>
  BY DEF Extras
<1>3. mode = "full" /\ mode' = "full" /\ InDir
  BY <1>2 DEF IInv, Placed, fixed, InDir
<1> DEFINE c == At
           rest == DOMAIN dmap
           names == {KeyOf(q) : q \in InDest \cap Below(c)}
           Reached == Above(c) \cup Below(c)
<1>4. /\ c \in {Root, Dir}
      /\ Matched = (InSource \cap Below(c)) \ EntryPaths
      /\ keys = {KeyOf(p) : p \in Matched}
      /\ rest = names \ keys
  BY <1>3, DirFacts
<1>5. EntryPaths = {} /\ Matched = InSource \cap Below(c)
  BY <1>2, <1>4 DEF EntryPaths
<1>6. tasks = IF c = Root THEN <<Task(Dir)>> ELSE << >>
  <2>1. Dir \in Below(Root) /\ Dir \in InSource
    BY <1>1, PathFacts DEF Shape
  <2>2. tasks = IF c = Root /\ Dir \in Matched THEN <<Task(Dir)>> ELSE << >>
    BY <1>1, <1>3 DEF StackInv
  <2> QED BY <1>5, <2>1, <2>2
<1>7. Reached = IF c = Root THEN Above(Dir) ELSE Paths
  BY <1>4, PathFacts
<1>8. StackInv'
  BY <1>2, <1>6 DEF StackInv, InDir
<1>9. EntryInv' /\ PairInv' /\ TargetInv'
  BY <1>2, <1>3, Elsewhere
<1> HIDE DEF c
<1>10. Settled = InSource \cap Reached /\ Compared = Above(c)
  <2>1. Settled = (InSource \cap Above(c)) \cup Matched
    BY <1>2, <1>3 DEF Settled, InPair, c
  <2> QED BY <1>2, <1>5, <2>1 DEF Compared, c
<1>11. Settled' = InSource \cap Reached /\ Compared' = Reached
  <2>1. CASE c = Root
    <3>1. tasks' # << >> /\ Last(tasks').src = Dir
      BY <1>2, <1>6, <2>1, OneTask DEF Task
    <3> QED BY <1>2, <1>3, <1>7, <2>1, <3>1, Still DEF Settled, Compared
  <2>2. CASE c # Root
    <3>1. tasks' = << >> /\ InSource \cap Reached = InSource
      BY <1>1, <1>2, <1>6, <1>7, <2>2 DEF Shape
    <3> QED BY <1>2, <1>3, <1>7, <2>2, <3>1, Still DEF Settled, Compared
  <2> QED BY <2>1, <2>2
<1> HIDE DEF Reached
<1>12. IsFiniteSet(rest) /\ Cardinality(rest) \in Nat /\ (Cardinality(rest) = 0 <=> rest = {})
  <2>1. IsFiniteSet(InDest \cap Below(c))
    BY <1>1, FiniteTrees
  <2>2. IsFiniteSet(names)
    BY <2>1, NamesCount
  <2>3. rest \subseteq names
    BY <1>4
  <2> HIDE DEF rest, names
  <2>4. IsFiniteSet(rest)
    BY <2>2, <2>3, FS_Subset
  <2> QED BY <2>4, FS_EmptySet, FS_CardinalityType
<1>13. sum' = [passed |-> sum.passed, failed |-> sum.failed + Cardinality(rest)]
  <2>1. PICK n \in Nat : n = Cardinality(rest)
    BY <1>12
  <2>2. PICK s : s = sum
    OBVIOUS
  <2>3. s = [passed |-> s.passed, failed |-> s.failed]
    BY <1>1, <2>2 DEF SumInv
  <2>4. [s EXCEPT !.failed = @ + n] = [passed |-> s.passed, failed |-> s.failed + n]
    BY <2>3
  <2> QED BY <1>2, <2>1, <2>2, <2>4
<1>14. CASE rest = {}
  <2>1. sum' = sum
    <3>1. PICK s : s = sum
      OBVIOUS
    <3>2. s = [passed |-> s.passed, failed |-> s.failed] /\ s.failed \in Nat
      BY <1>1, <3>1 DEF SumInv
    <3>3. sum' = [passed |-> s.passed, failed |-> s.failed + 0]
      BY <1>12, <1>13, <1>14, <3>1
    <3> QED BY <3>1, <3>2, <3>3
  <2>2. ASSUME sum.failed = 0 PROVE Covered'
    <3>1. ~Aliased
      <4>1. ~NotYetMet
        BY <1>2, <1>5 DEF NotYetMet
      <4> QED BY <1>1, <2>2, <4>1 DEF SumInv
    <3>2. InDest \cap Above(c) \subseteq InSource
      BY <1>1, <1>3, <1>10, <2>2, <3>1 DEF SumInv
    <3>3. ASSUME NEW q \in InDest \cap Below(c) PROVE q \in InSource
      <4>1. KeyOf(q) \in keys
        BY <1>4, <1>14, <3>3
      <4>2. PICK p \in InSource \cap Below(c) : KeyOf(p) = KeyOf(q)
        BY <1>4, <1>5, <4>1
      <4>3. p = q
        BY <1>1, <1>3, <1>4, <3>1, <3>3, <4>2, OneKey
      <4> QED BY <4>2, <4>3
    <3>4. InDest \cap Reached \subseteq InSource
      BY <3>2, <3>3 DEF Reached
    <3> QED BY <1>2, <1>11, <3>1, <3>4, Still DEF Covered
  <2>3. SumInv'
    BY <1>1, <1>2, <1>10, <1>11, <2>1, <2>2, Goes
  <2> QED BY <1>2, <1>8, <1>9, <2>3, QuietStep
<1>15. CASE rest # {}
  <2>1. PICK q \in InDest \cap Below(c) : KeyOf(q) \notin keys
    BY <1>4, <1>15
  <2>2. q \notin InSource
    BY <1>4, <1>5, <2>1
  <2>3. ~Right
    BY <1>3, <2>1, <2>2 DEF Right
  <2>4. Cardinality(rest) \in Nat /\ Cardinality(rest) > 0
    BY <1>12, <1>15
  <2>5. SumInv'
    BY <1>1, <1>2, <1>13, <2>3, <2>4, Fails
  <2> QED BY <1>2, <1>8, <1>9, <2>5, QuietStep
<1> QED BY <1>14, <1>15

-----------------------------------------------------------------------------
(* A source entry is matched.                                                *)

\* The books of the directory after an entry was taken from it.
LEMMA MatchBooks ==
  ASSUME IInv, VInv, events = 0, NEW e \in entries, MatchEntry(e)
  PROVE  /\ st = "entries" /\ mode = "full" /\ InDir /\ cur' = cur /\ At' = At
         /\ UNCHANGED fixed /\ UNCHANGED tree
         /\ e.path \in InSource \cap Below(At) /\ e.path \in EntryPaths /\ e.path \notin Matched
         /\ e.md = Object("src", e.path)
         /\ EntryPaths' = EntryPaths \ {e.path} /\ Matched' = Matched \cup {e.path}
         /\ st' \in {"entries", "digest"} => EntryInv'
<1> DEFINE p == e.path
           k == KeyOf(p)
<1>1. /\ st = "entries" /\ cur' = cur /\ UNCHANGED fixed /\ UNCHANGED tree
      /\ entries' = entries \ {e}
      /\ keys' = keys \cup {k}
      /\ dmap' = IF k \in keys THEN dmap ELSE Restrict(dmap, DOMAIN dmap \ {k})
  BY DEF MatchEntry, KeyOf
<1>2. mode = "full" /\ InDir /\ At' = At
  BY <1>1 DEF IInv, Placed, InDir, At
<1>3. /\ Matched = (InSource \cap Below(At)) \ EntryPaths
      /\ EntryPaths \subseteq InSource \cap Below(At)
      /\ \A x \in entries : x = Entry("src", x.path) /\ x.path \in EntryPaths
      /\ keys = {KeyOf(x) : x \in Matched}
      /\ DOMAIN dmap = {KeyOf(x) : x \in InDest \cap Below(At)} \ keys
      /\ \A y \in DOMAIN dmap :
            \E q \in InDest \cap Below(At) : KeyOf(q) = y /\ dmap[y] = Entry("dst", q)
      /\ Children("src", At) = InSource \cap Below(At)
      /\ Children("dst", At) = InDest \cap Below(At)
  BY <1>2, DirFacts
<1>4. p \in EntryPaths /\ e = Entry("src", p)
  BY <1>3
<1>5. p \in InSource \cap Below(At) /\ p \notin Matched /\ e.md = Object("src", p)
  <2>1. e.md = Object("src", p)
    BY <1>4 DEF Entry
  <2> QED BY <1>3, <1>4, <2>1
<1>6. EntryPaths' = EntryPaths \ {p}
  <2>1. \A x \in entries : x.path = p => x = e
    BY <1>3, <1>4
  <2>2. EntryPaths' = {x.path : x \in entries'}
    BY DEF EntryPaths
  <2>3. EntryPaths = {x.path : x \in entries}
    BY DEF EntryPaths
  <2> QED BY <1>1, <2>1, <2>2, <2>3
<1>7. /\ Children("src", At)' = InSource \cap Below(At)
      /\ Children("dst", At)' = InDest \cap Below(At)
  BY <1>1, <1>2, <1>3, Still
<1>8. Matched' = Matched \cup {p}
  <2>1. Matched' = Children("src", At)' \ EntryPaths'
    BY DEF Matched
  <2> QED BY <1>3, <1>4, <1>5, <1>6, <1>7, <2>1
<1>9. EntryInv'
  <2>1. /\ \A q : Entry("src", q)' = Entry("src", q) /\ Entry("dst", q)' = Entry("dst", q)
        /\ \A q : KeyOf(q)' = KeyOf(q)
    BY <1>1, Still
  <2>2. \A x \in entries' : x.path \in InSource \cap Below(At) /\ x = Entry("src", x.path)
    BY <1>1, <1>3
  <2>3. keys' = {KeyOf(x) : x \in Matched'}
    BY <1>1, <1>3, <1>8
  <2> HIDE DEF k
  <2>4. DOMAIN dmap' = DOMAIN dmap \ {k} /\ \A y \in DOMAIN dmap' : dmap'[y] = dmap[y]
    <3>1. CASE k \in keys
      BY <1>1, <1>3, <3>1
    <3>2. CASE k \notin keys
      BY <1>1, <3>2 DEF Restrict
    <3> QED BY <3>1, <3>2
  <2>5. DOMAIN dmap' = {KeyOf(x) : x \in InDest \cap Below(At)} \ keys'
    BY <1>1, <1>3, <2>4
  <2>6. \A y \in DOMAIN dmap' :
            \E q \in InDest \cap Below(At) : KeyOf(q) = y /\ dmap'[y] = Entry("dst", q)
    BY <1>3, <2>4
  <2> QED BY <1>7, <2>1, <2>2, <2>3, <2>5, <2>6 DEF EntryInv
<1> QED BY <1>1, <1>2, <1>4, <1>5, <1>6, <1>8, <1>9

\* What the books say of the entry's twin.
LEMMA Twins ==
  ASSUME VInv, events = 0, InDir, NEW p \in InSource \cap Below(At), p \notin Matched
  PROVE  /\ KeyOf(p) \in keys => Aliased
         /\ KeyOf(p) \notin keys /\ KeyOf(p) \notin DOMAIN dmap => p \notin InDest
         /\ KeyOf(p) \in DOMAIN dmap =>
              \E q \in InDest \cap Below(At) :
                 /\ KeyOf(q) = KeyOf(p) /\ dmap[KeyOf(p)] = Entry("dst", q)
                 /\ q # p => Aliased
         /\ p = Dir => KeyOf(p) \notin keys /\ KeyOf(p) \in DOMAIN dmap
<1>1. Shape
  BY VParts
<1>2. /\ At \in {Root, Dir}
      /\ Matched = (InSource \cap Below(At)) \ EntryPaths
      /\ keys = {KeyOf(x) : x \in Matched}
      /\ DOMAIN dmap = {KeyOf(x) : x \in InDest \cap Below(At)} \ keys
      /\ \A y \in DOMAIN dmap :
            \E q \in InDest \cap Below(At) : KeyOf(q) = y /\ dmap[y] = Entry("dst", q)
  BY DirFacts
<1>3. mode = "full"
  BY DEF InDir
<1>4. KeyOf(p) \in keys => \E m \in InSource \cap Below(At) : m # p /\ KeyOf(m) = KeyOf(p)
  BY <1>2
<1>5. KeyOf(p) \in keys => Aliased
  BY <1>1, <1>2, <1>3, <1>4, OneKey
<1>6. KeyOf(p) \notin keys /\ KeyOf(p) \notin DOMAIN dmap => p \notin InDest
  BY <1>2
<1>7. KeyOf(p) \in DOMAIN dmap =>
        \E q \in InDest \cap Below(At) :
           /\ KeyOf(q) = KeyOf(p) /\ dmap[KeyOf(p)] = Entry("dst", q)
           /\ q # p => Aliased
  BY <1>1, <1>2, <1>3, OneKey
<1>8. p = Dir => KeyOf(p) \notin keys /\ KeyOf(p) \in DOMAIN dmap
  <2> HAVE p = Dir
  <2>1. p \in InDest
    BY <1>1 DEF Shape
  <2>2. \A m \in Below(At) : KeyOf(m) = KeyOf(p) => m = p
    BY <1>2, KeyFacts, PathFacts
  <2>3. KeyOf(p) \notin keys
    BY <1>2, <2>2
  <2> QED BY <1>2, <2>1, <2>3
<1> QED BY <1>5, <1>6, <1>7, <1>8

\* Of two names with one key the second is still to come.
LEMMA OtherCase ==
  ASSUME VInv, events = 0, InDir, st = "entries", Aliased, NotYetMet,
         NEW p \in InSource \cap Below(At), KeyOf(p) \notin keys
  PROVE  /\ At = Root /\ TwoCases \subseteq InSource
         /\ TwoCases \cap (EntryPaths \ {p}) # {}
<1>1. At = Root /\ TwoCases \subseteq InSource /\ TwoCases \cap EntryPaths # {}
  BY DEF NotYetMet
<1>2. /\ Matched = (InSource \cap Below(At)) \ EntryPaths
      /\ keys = {KeyOf(x) : x \in Matched}
  BY DirFacts
<1>3. ~policy.caseSensitive
  BY DEF Aliased
<1>4. CASE p \notin TwoCases
  BY <1>1, <1>4
<1>5. CASE p \in TwoCases
  <2>1. PICK o \in TwoCases : o # p
    BY DEF TwoCases
  <2>2. KeyOf(o) = KeyOf(p)
    BY <1>1, <1>3, <1>5, <2>1, KeyFacts, PathFacts
  <2>3. o \in InSource \cap Below(At)
    BY <1>1, <2>1, PathFacts
  <2>4. o \notin Matched
    BY <1>2, <2>2
  <2>5. o \in EntryPaths
    BY <1>2, <2>3, <2>4
  <2> QED BY <1>1, <2>1, <2>5
<1> QED BY <1>4, <1>5

\* An entry that fails, where it should.
LEMMA MatchFails ==
  ASSUME IInv, VInv, events = 0, NEW e \in entries, MatchEntry(e), UNCHANGED events,
         Verdict(FALSE), UNCHANGED <<st, pair, dg, versions>>, ~Right, StackInv'
  PROVE  VInv'
<1>1. Shape /\ SumInv
  BY VParts
<1>2. st = "entries" /\ mode = "full" /\ UNCHANGED fixed /\ UNCHANGED tree /\ EntryInv'
  BY MatchBooks
<1>3. PairInv' /\ TargetInv'
  BY <1>2, NoPairThere DEF fixed
<1>4. sum' = [passed |-> sum.passed, failed |-> sum.failed + 1]
  BY <1>1, VerdictSum
<1>5. SumInv'
  BY <1>1, <1>2, <1>4, Fails
<1> QED BY <1>2, <1>3, <1>5, QuietStep

\* An entry is matched: where two names collide it may be with another twin, and then
\* one of them fails; otherwise the verdict is the reference's.
LEMMA MatchEntryV ==
  ASSUME IInv, VInv, events = 0, NEW e \in entries, MatchEntry(e), UNCHANGED events
  PROVE  VInv'
<1> DEFINE p == e.path
           k == KeyOf(p)
           s == Object("src", p)
<1>1. Shape /\ SumInv /\ StackInv
  BY VParts
<1>2. /\ st = "entries" /\ mode = "full" /\ InDir /\ cur' = cur /\ At' = At
      /\ UNCHANGED fixed /\ UNCHANGED tree
      /\ p \in InSource \cap Below(At) /\ p \in EntryPaths /\ p \notin Matched
      /\ e.md = s
      /\ EntryPaths' = EntryPaths \ {p} /\ Matched' = Matched \cup {p}
      /\ st' \in {"entries", "digest"} => EntryInv'
  BY MatchBooks
<1>3. mode' = "full"
  BY <1>2 DEF fixed
<1>4. At \in {Root, Dir} /\ Matched \subseteq InSource \cap Below(At)
      /\ cur \in {Task(Root), Task(Dir)}
      /\ tasks = IF At = Root /\ Dir \in Matched THEN <<Task(Dir)>> ELSE << >>
  BY <1>1, <1>2, DirFacts DEF StackInv
<1> DEFINE twin == dmap[k]
           d == twin.md
           met == k \notin keys /\ k \in DOMAIN dmap
           same == /\ p \in DOMAIN tree["src"] /\ twin.path \in DOMAIN tree["dst"]
                   /\ MetadataEqual(s, d) /\ AuxEqual(s, Object("dst", twin.path))
                   /\ s.link = Object("dst", twin.path).link
           quiet == UNCHANGED <<st, pair, dg, versions>>
<1>5. \/ ~met /\ Verdict(FALSE) /\ quiet /\ tasks' = tasks
      \/ met /\ s.kind # d.kind /\ Verdict(FALSE) /\ quiet /\ tasks' = tasks
      \/ /\ met /\ s.kind = d.kind /\ s.kind \in {"dir", "link"} /\ Verdict(same) /\ quiet
         /\ tasks' = IF s.kind = "dir"
                     THEN Append(tasks, [src |-> p, dst |-> twin.path]) ELSE tasks
      \/ /\ met /\ s.kind = d.kind /\ s.kind = "file"
         /\ ~(Len(s.data) = Len(d.data) /\ MetadataEqual(s, d))
         /\ Verdict(FALSE) /\ quiet /\ tasks' = tasks
      \/ /\ met /\ s.kind = d.kind /\ s.kind = "file"
         /\ Len(s.data) = Len(d.data) /\ MetadataEqual(s, d)
         /\ st' = "digest"
         /\ pair' = [src |-> p, dst |-> twin.path, ok |-> None]
         /\ dg' = Digest("src", p)
         /\ versions' = [src |-> Now("src", p), dst |-> Now("dst", twin.path)]
         /\ UNCHANGED sum /\ tasks' = tasks
  <2>1. events' # events + 1
    BY DEF VInv
  <2> HIDE DEF s
  <2>2. k = Key(Last(p)) /\ e.md = s /\ Object("src", p) = s
    BY <1>2 DEF KeyOf, s
  <2> HIDE DEF k
  <2>3. same <=> /\ p \in DOMAIN tree["src"] /\ twin.path \in DOMAIN tree["dst"]
                 /\ MetadataEqual(s, d) /\ AuxEqual(s, Object("dst", twin.path))
                 /\ s.link = Object("dst", twin.path).link
    OBVIOUS
  <2> QED BY <2>1, <2>2, Zenon DEF MatchEntry, Event
<1> HIDE DEF s, twin, same, k
<1>6. p = Dir => met
  BY <1>2, Twins DEF k
<1>7. s.kind = "dir" <=> p = Dir
  BY <1>1, <1>2, <1>4, PathFacts DEF Shape, s
<1>8. p \in Wanted /\ (Right => InSource = InDest)
  BY <1>2 DEF Wanted, Right
<1>9. tasks' = tasks /\ p # Dir => (st' \in {"entries", "digest"} => StackInv')
  BY <1>2, <1>4 DEF StackInv, InDir
<1>10. CASE ~met
  <2>1. Verdict(FALSE) /\ quiet /\ tasks' = tasks
    BY <1>5, <1>10
  <2>2. Aliased \/ p \notin InDest
    BY <1>2, <1>10, Twins DEF k
  <2>3. ~Right
    BY <1>1, <1>2, <1>8, <2>2, AliasedIsWrong
  <2>4. StackInv'
    BY <1>2, <1>6, <1>9, <1>10, <2>1
  <2> QED BY <2>1, <2>3, <2>4, MatchFails
<1>11. CASE met
  <2>1. PICK q \in InDest \cap Below(At) : /\ KeyOf(q) = k /\ twin = Entry("dst", q)
                                           /\ q # p => Aliased
    BY <1>2, <1>11, Twins DEF k, twin
  <2>2. d = Object("dst", q) /\ twin.path = q
    BY <2>1 DEF Entry
  <2>3. p = q \/ Aliased
    BY <2>1
  <2>4. p = Dir => q = Dir
    <3>1. p = Dir /\ KeyOf(q) = KeyOf(p) => q = p
      BY <1>2, <1>4, <2>1, KeyFacts, PathFacts
    <3> QED BY <2>1, <3>1 DEF k
  <2>5. p = Dir => s.kind = "dir" /\ d.kind = "dir"
    BY <1>1, <1>7, <2>2, <2>4, DirsAgree
  <2>6. Aliased \/ ~Sound(p) => ~Right
    BY <1>1, <1>8, AliasedIsWrong DEF Right
  <2>7. p = q => p \in InDest /\ d = Object("dst", p)
    BY <2>1, <2>2
  <2>8. CASE s.kind # d.kind
    <3>1. Verdict(FALSE) /\ quiet /\ tasks' = tasks
      BY <1>5, <1>11, <2>8
    <3>2. p = q => ~Sound(p)
      BY <1>1, <1>2, <2>7, <2>8, Agree DEF s
    <3>3. StackInv'
      BY <1>2, <1>9, <2>5, <2>8, <3>1
    <3> QED BY <2>3, <2>6, <3>1, <3>2, <3>3, MatchFails
  <2>9. CASE /\ s.kind = d.kind /\ s.kind = "file"
             /\ ~(Len(s.data) = Len(d.data) /\ MetadataEqual(s, d))
    <3>1. Verdict(FALSE) /\ quiet /\ tasks' = tasks
      BY <1>5, <1>11, <2>9
    <3>2. p = q => ~Sound(p)
      BY <1>1, <1>2, <2>7, <2>9, Agree DEF s
    <3>3. StackInv'
      BY <1>2, <1>7, <1>9, <2>9, <3>1
    <3> QED BY <2>3, <2>6, <3>1, <3>2, <3>3, MatchFails
  <2>10. CASE s.kind = d.kind /\ s.kind \in {"dir", "link"}
    <3>1. /\ Verdict(same) /\ quiet
          /\ tasks' = IF s.kind = "dir"
                      THEN Append(tasks, [src |-> p, dst |-> twin.path]) ELSE tasks
      BY <1>5, <1>11, <2>10
    <3>2. p = q => (same <=> Sound(p))
      <4>1. p = q => (Sound(p) <=> MetadataEqual(s, d) /\ AuxEqual(s, d) /\ s.link = d.link)
        BY <1>1, <1>2, <2>7, <2>10, AgreeUnread DEF s
      <4>2. p \in DOMAIN tree["src"] /\ q \in DOMAIN tree["dst"]
        BY <1>2, <2>1 DEF InSource, InDest
      <4> QED BY <2>2, <4>1, <4>2 DEF same
    <3>3. StackInv'
      <4>1. CASE p = Dir
        <5>1. At = Root /\ Dir \in Matched'
          BY <1>2, <1>4, <4>1, PathFacts
        <5>2. tasks = << >>
          BY <1>2, <1>4, <4>1
        <5>3. tasks' = Append(<< >>, Task(Dir))
          BY <1>7, <2>2, <2>4, <3>1, <4>1, <5>2 DEF Task
        <5>4. tasks' = <<Task(Dir)>>
          BY <5>3
        <5> QED BY <1>2, <1>4, <3>1, <5>1, <5>4 DEF StackInv
      <4>2. CASE p # Dir
        BY <1>2, <1>7, <1>9, <3>1, <4>2
      <4> QED BY <4>1, <4>2
    <3>4. CASE ~same
      <4>1. ~Right
        BY <2>3, <2>6, <3>2, <3>4
      <4>2. Verdict(FALSE)
        BY <3>1, <3>4 DEF Verdict
      <4> QED BY <3>1, <3>3, <4>1, <4>2, MatchFails
    <3>5. CASE same
      <4>1. sum' = [passed |-> sum.passed + 1, failed |-> sum.failed]
        BY <1>1, <3>1, <3>5, VerdictSum
      <4>2. /\ Settled = (InSource \cap Above(At)) \cup Matched
            /\ Settled' = (InSource \cap Above(At)) \cup Matched'
            /\ Compared = Above(At) /\ Compared' = Above(At)
        BY <1>2, <1>3, <3>1, Still DEF Settled, Compared, InPair
      <4>3. Settled' = Settled \cup {p} /\ Settled \subseteq InSource
        BY <1>2, <1>4, <4>2
      <4>4. p \notin Settled
        BY <1>2, <1>4, <4>2, PathFacts
      <4>5. ~Aliased => Sound(p)
        BY <2>3, <3>2, <3>5
      <4>6. ASSUME sum.failed = 0 PROVE Covered'
        <5>1. Aliased => NotYetMet'
          <6> HAVE Aliased
          <6>1. NotYetMet
            BY <1>1, <4>6 DEF SumInv
          <6>2. At = Root /\ TwoCases \subseteq InSource /\ TwoCases \cap (EntryPaths \ {p}) # {}
            BY <1>2, <1>11, <6>1, OtherCase DEF k
          <6>3. TwoCases \subseteq InSource'
            BY <1>2, <6>2, Still
          <6> QED BY <1>2, <1>3, <3>1, <6>2, <6>3 DEF NotYetMet, InDir
        <5>2. ~Aliased => InDest \cap Above(At) \subseteq InSource
          BY <1>1, <1>2, <4>2, <4>6 DEF SumInv
        <5> QED BY <1>2, <4>2, <5>1, <5>2, Still DEF Covered
      <4>7. SumInv'
        BY <1>1, <1>2, <4>1, <4>3, <4>4, <4>5, <4>6, Passes
      <4>8. PairInv' /\ TargetInv' /\ EntryInv' /\ st' = "entries"
        BY <1>2, <1>3, <3>1, NoPairThere
      <4> QED BY <1>2, <3>3, <4>7, <4>8, QuietStep
    <3> QED BY <3>4, <3>5
  <2>11. CASE /\ s.kind = d.kind /\ s.kind = "file"
              /\ Len(s.data) = Len(d.data) /\ MetadataEqual(s, d)
    <3>1. /\ st' = "digest"
          /\ pair' = [src |-> p, dst |-> twin.path, ok |-> None]
          /\ dg' = Digest("src", p)
          /\ versions' = [src |-> Now("src", p), dst |-> Now("dst", twin.path)]
          /\ UNCHANGED sum /\ tasks' = tasks
      BY <1>5, <1>11, <2>11
    <3>2. StackInv'
      BY <1>7, <1>9, <2>11, <3>1
    <3>3. /\ Settled = (InSource \cap Above(At)) \cup Matched
          /\ Settled' = (InSource \cap Above(At)) \cup (Matched' \ {p})
          /\ Compared = Above(At) /\ Compared' = Above(At)
      BY <1>2, <1>3, <3>1, Still DEF Settled, Compared, InPair
    <3>4. Settled' = Settled
      BY <1>2, <3>3
    <3>5. ASSUME sum.failed = 0 PROVE Covered'
      <4>1. Aliased => NotYetMet'
        <5> HAVE Aliased
        <5>1. NotYetMet
          BY <1>1, <3>5 DEF SumInv
        <5>2. At = Root /\ TwoCases \subseteq InSource /\ TwoCases \cap (EntryPaths \ {p}) # {}
          BY <1>2, <1>11, <5>1, OtherCase DEF k
        <5>3. TwoCases \subseteq InSource'
          BY <1>2, <5>2, Still
        <5> QED BY <1>2, <1>3, <3>1, <5>2, <5>3 DEF NotYetMet, InDir
      <4>2. ~Aliased => InDest \cap Above(At) \subseteq InSource
        BY <1>1, <1>2, <3>3, <3>5 DEF SumInv
      <4> QED BY <1>2, <3>3, <4>1, <4>2, Still DEF Covered
    <3>6. SumInv'
      BY <1>1, <1>2, <3>1, <3>4, <3>5, Goes
    <3>7. TargetInv'
      BY <1>3 DEF TargetInv
    <3>8. PairInv'
      <4>1. versions' = [src |-> Now("src", p)', dst |-> Now("dst", q)']
        BY <1>2, <2>2, <3>1, Still
      <4>2. pair'.src = p /\ pair'.dst = q /\ dg'.at = "before"
        BY <2>2, <3>1 DEF Digest, NoDigest
      <4>3. p \in Files'
        BY <1>2, <2>11, Still DEF Files, s
      <4>4. /\ q \in Children("dst", At)' /\ KeyOf(q)' = KeyOf(p)'
            /\ (Object("dst", q)').kind = "file"
            /\ MetadataEqual(Object("src", p), Object("dst", q))'
        <5>1. Children("dst", At)' = InDest \cap Below(At)
          BY <1>2, DirFacts, Still
        <5>2. KeyOf(q)' = KeyOf(q) /\ KeyOf(p)' = KeyOf(p)
          BY <1>2, Still
        <5>3. PICK x, y : x = s /\ y = d
          OBVIOUS
        <5>4. Object("dst", q)' = y /\ Object("src", p)' = x
          BY <1>2, <2>2, <5>3, Still DEF s
        <5>5. MetadataEqual(x, y)'
          <6>1. MetadataEqual(x, y)
            BY <2>11, <5>3
          <6> QED BY <1>2, <6>1, Still
        <5>6. MetadataEqual(Object("src", p), Object("dst", q))'
          BY <5>4, <5>5
        <5> QED BY <2>1, <2>11, <5>1, <5>2, <5>3, <5>4, <5>6 DEF k
      <4> QED BY <1>2, <1>3, <4>1, <4>2, <4>3, <4>4 DEF PairInv
    <3> QED BY <1>2, <3>1, <3>2, <3>6, <3>7, <3>8, QuietStep
  <2>12. s.kind \in {"dir", "link", "file"}
    <3>1. s \in Objects
      BY <1>2 DEF IInv, Types, IsTree, Sides, Object, InSource, s
    <3> QED BY <3>1 DEF Objects
  <2> QED BY <2>8, <2>9, <2>10, <2>11, <2>12
<1> QED BY <1>10, <1>11

-----------------------------------------------------------------------------
(* The digests of a pair nobody changes.                                     *)

\* The books do not change while a pair is digested.
LEMMA BooksStay ==
  ASSUME IInv, VInv, events = 0, st = "digest", UNCHANGED digestOnly,
         st' \in {"entries", "digest", "targets"}
  PROVE  /\ UNCHANGED fixed /\ UNCHANGED tree /\ mode' = mode
         /\ StackInv' /\ EntryInv'
         /\ At' = At /\ EntryPaths' = EntryPaths /\ Matched' = Matched /\ entries' = entries
<1>1. UNCHANGED <<fixed, tree, tasks, cur, entries, dmap, keys>> /\ mode' = mode
  BY DEF digestOnly, walkVars, fixed
<1>2. At' = At /\ EntryPaths' = EntryPaths
  BY <1>1 DEF At, EntryPaths
<1>3. \A side : Children(side, At)' = Children(side, At)
  BY <1>1, <1>2, Still
<1>4. Matched' = Matched
  BY <1>2, <1>3 DEF Matched
<1>5. InDir' => InDir
  BY <1>1 DEF InDir
<1>6. StackInv /\ EntryInv
  BY VParts
<1>7. StackInv'
  BY <1>1, <1>2, <1>4, <1>5, <1>6 DEF StackInv
<1>8. EntryInv'
  BY <1>1, <1>2, <1>3, <1>4, <1>5, <1>6, Still DEF EntryInv
<1> QED BY <1>1, <1>2, <1>4, <1>7, <1>8

\* What is known of the pair.
LEMMA PairFacts ==
  ASSUME IInv, VInv, events = 0, st = "digest"
  PROVE  /\ Shape /\ SumInv
         /\ pair.src \in Files /\ pair.src \in InSource
         /\ mode \in {"full", "copied"}
         /\ mode = "full" =>
              /\ InDir /\ pair.src \in Matched /\ pair.dst \in InDest
              /\ Object("dst", pair.dst).kind = "file"
              /\ MetadataEqual(Object("src", pair.src), Object("dst", pair.dst))
              /\ pair.dst # pair.src => Aliased
         /\ mode = "copied" => pair.dst = pair.src /\ pair.src \notin entries
         /\ dg.side \in {"src", "dst"} /\ dg.path = pair[dg.side]
         /\ held = None
<1>1. Shape /\ SumInv /\ PairInv /\ TargetInv
  BY VParts
<1>2. /\ dg.side \in {"src", "dst"} /\ dg.path = pair[dg.side] /\ mode \in {"full", "copied"}
      /\ held # None => dg.at = "read"
      /\ Faithful
  BY DEF IInv, DigestInv, Types, Sides
<1>3. held = None
  BY <1>1, <1>2 DEF PairInv, Faithful
<1>4. ASSUME mode = "full"
      PROVE  InDir /\ pair.dst \in InDest /\ (pair.dst # pair.src => Aliased)
  <2>1. InDir
    BY <1>4 DEF InDir
  <2>2. /\ At \in {Root, Dir} /\ Children("dst", At) = InDest \cap Below(At)
        /\ Matched \subseteq InSource \cap Below(At)
    BY <2>1, DirFacts
  <2>3. /\ pair.src \in Matched /\ pair.dst \in InDest \cap Below(At)
        /\ KeyOf(pair.dst) = KeyOf(pair.src)
    BY <1>1, <1>4, <2>2 DEF PairInv
  <2> QED BY <1>1, <1>4, <2>1, <2>2, <2>3, OneKey
<1>5. pair.src \in InSource
  BY <1>1 DEF PairInv, Files
<1> QED BY <1>1, <1>2, <1>3, <1>4, <1>5 DEF PairInv, TargetInv

\* A pair gets its verdict.
LEMMA JudgedV ==
  ASSUME IInv, VInv, events = 0, UNCHANGED events, st = "digest", NEW ok, Judge(ok),
         UNCHANGED digestOnly, Right => ok, ~Aliased /\ ok => Sound(pair.src)
  PROVE  VInv'
<1> DEFINE p == pair.src
<1>1. Verdict(ok) /\ st' = (IF mode = "full" THEN "entries" ELSE "targets")
  BY DEF Judge
<1>2. /\ UNCHANGED fixed /\ UNCHANGED tree /\ mode' = mode
      /\ StackInv' /\ EntryInv'
      /\ At' = At /\ EntryPaths' = EntryPaths /\ Matched' = Matched /\ entries' = entries
  BY <1>1, BooksStay
<1>3. /\ Shape /\ SumInv /\ p \in Files /\ p \in InSource /\ mode \in {"full", "copied"}
      /\ mode = "full" => InDir /\ p \in Matched
      /\ mode = "copied" => p \notin entries
  BY PairFacts
<1>4. TargetInv'
  <2>1. mode = "copied" => entries \subseteq Files
    BY VParts DEF TargetInv
  <2> QED BY <1>1, <1>2, <2>1, Still DEF TargetInv
<1>5. PairInv'
  BY <1>1 DEF PairInv
<1>6. InSource' = InSource /\ InDest' = InDest /\ Files' = Files /\ (Aliased' <=> Aliased)
  BY <1>2, Still
<1>7. Settled' = Settled \cup {p} /\ p \notin Settled /\ Settled \subseteq InSource
  <2>1. CASE mode = "full"
    <3>1. /\ Settled = (InSource \cap Above(At)) \cup (Matched \ {p})
          /\ Settled' = (InSource \cap Above(At)) \cup Matched
      BY <1>1, <1>2, <1>6, <2>1 DEF Settled, InPair
    <3>2. At \in {Root, Dir} /\ Matched \subseteq InSource \cap Below(At)
      BY <1>3, <2>1, DirFacts
    <3>3. p \notin Above(At)
      BY <1>3, <2>1, <3>2, PathFacts
    <3> QED BY <1>3, <2>1, <3>1, <3>2, <3>3
  <2>2. CASE mode = "copied"
    <3>1. Settled = Files \ (entries \cup {p}) /\ Settled' = Files \ entries
      BY <1>1, <1>2, <1>6, <2>2 DEF Settled, InPair
    <3>2. Files \subseteq InSource
      BY DEF Files
    <3> QED BY <1>3, <2>2, <3>1, <3>2
  <2> QED BY <1>3, <2>1, <2>2
<1>8. ASSUME sum.failed = 0 PROVE Covered'
  <2>1. CASE mode = "full"
    <3>1. Compared = Above(At) /\ Compared' = Above(At)
      BY <1>1, <1>2, <2>1 DEF Compared
    <3>2. NotYetMet => NotYetMet'
      BY <1>1, <1>2, <1>3, <1>6, <2>1 DEF NotYetMet, InDir
    <3> QED BY <1>2, <1>3, <1>6, <1>8, <2>1, <3>1, <3>2 DEF SumInv, Covered
  <2>2. CASE mode = "copied"
    BY <1>2, <2>2 DEF Covered, Aliased
  <2> QED BY <1>3, <2>1, <2>2
<1>9. SumInv'
  <2>1. CASE ok
    <3>1. sum' = [passed |-> sum.passed + 1, failed |-> sum.failed]
      BY <1>1, <1>3, <2>1, VerdictSum
    <3> QED BY <1>2, <1>3, <1>7, <1>8, <2>1, <3>1, Passes
  <2>2. CASE ~ok
    <3>1. sum' = [passed |-> sum.passed, failed |-> sum.failed + 1]
      BY <1>1, <1>3, <2>2, VerdictSum
    <3> QED BY <1>2, <1>3, <2>2, <3>1, Fails
  <2> QED BY <2>1, <2>2
<1> QED BY <1>1, <1>2, <1>4, <1>5, <1>9, QuietStep

\* A digest goes on.
LEMMA DigestingV ==
  ASSUME IInv, VInv, events = 0, UNCHANGED events, st = "digest",
         UNCHANGED digestOnly, UNCHANGED <<st, pair, sum>>,
         dg'.at \notin {"none", "before"} => Quiet' /\ (Named').kind = "file",
         dg'.at = "read" => dg'.opened = Stat(Named)'
  PROVE  VInv'
<1>1. /\ UNCHANGED fixed /\ UNCHANGED tree /\ mode' = mode
      /\ StackInv' /\ EntryInv'
      /\ At' = At /\ EntryPaths' = EntryPaths /\ Matched' = Matched /\ entries' = entries
  BY BooksStay
<1>2. Shape /\ SumInv /\ PairInv /\ TargetInv
  BY VParts
<1>3. /\ InSource' = InSource /\ InDest' = InDest /\ Files' = Files /\ (Aliased' <=> Aliased)
      /\ \A side, x : Now(side, x)' = Now(side, x)
      /\ \A side, x : Object(side, x)' = Object(side, x)
      /\ \A side, x : Children(side, x)' = Children(side, x)
      /\ \A x : KeyOf(x)' = KeyOf(x)
      /\ \A s, d : MetadataEqual(s, d)' <=> MetadataEqual(s, d)
  BY <1>1, Still
<1>4. TargetInv'
  BY <1>1, <1>2, <1>3 DEF TargetInv
<1>5. versions' = versions
  BY DEF digestOnly
<1>6. PairInv'
  <2>1. PICK p, q : p = pair.src /\ q = pair.dst
    OBVIOUS
  <2>2. /\ versions = [src |-> Now("src", p), dst |-> Now("dst", q)]
        /\ p \in Files
        /\ mode = "full" =>
            /\ p \in Matched
            /\ q \in Children("dst", At) /\ KeyOf(q) = KeyOf(p)
            /\ Object("dst", q).kind = "file"
            /\ MetadataEqual(Object("src", p), Object("dst", q))
        /\ mode = "copied" => q = p
    BY <1>2, <2>1 DEF PairInv
  <2>3. MetadataEqual(Object("src", p), Object("dst", q)) =>
          MetadataEqual(Object("src", p), Object("dst", q))'
    <3>1. PICK x, y : x = Object("src", p) /\ y = Object("dst", q)
      OBVIOUS
    <3>2. Object("src", p)' = x /\ Object("dst", q)' = y
      BY <1>3, <3>1
    <3>3. MetadataEqual(x, y) => MetadataEqual(x, y)'
      BY <1>3
    <3> QED BY <3>1, <3>2, <3>3
  <2>4. Children("dst", At)' = Children("dst", At)
    BY <1>1, <1>3
  <2>5. /\ versions' = [src |-> Now("src", p)', dst |-> Now("dst", q)']
        /\ p \in Files'
        /\ mode' = "full" =>
            /\ p \in Matched'
            /\ q \in Children("dst", At)' /\ KeyOf(q)' = KeyOf(p)'
            /\ (Object("dst", q)').kind = "file"
            /\ MetadataEqual(Object("src", p), Object("dst", q))'
        /\ mode' = "copied" => q = p
    BY <1>1, <1>3, <1>5, <2>2, <2>3, <2>4
  <2>6. pair'.src = p /\ pair'.dst = q
    BY <2>1
  <2> QED BY <2>5, <2>6 DEF PairInv
<1>7. Settled' = Settled
  BY <1>1, <1>3 DEF Settled, InPair
<1>8. sum.failed = 0 => Covered'
  <2>1. CASE mode = "full"
    <3>1. Compared = Above(At) /\ Compared' = Above(At)
      BY <1>1, <2>1 DEF Compared
    <3>2. NotYetMet => NotYetMet'
      BY <1>1, <1>3, <2>1 DEF NotYetMet, InDir
    <3> QED BY <1>1, <1>2, <1>3, <2>1, <3>1, <3>2 DEF SumInv, Covered
  <2>2. CASE mode = "copied"
    BY <1>1, <2>2 DEF Covered, Aliased
  <2> QED BY <2>1, <2>2, PairFacts
<1>9. SumInv'
  BY <1>1, <1>2, <1>7, <1>8, Goes
<1> QED BY <1>1, <1>4, <1>6, <1>9, QuietStep

\* A file that is not there when it is opened is one the copy does not have.
LEMMA DigestOpensV ==
  ASSUME IInv, VInv, events = 0, DigestOpens
  PROVE  VInv'
<1>1. st = "digest" /\ dg.at \in {"before", "open"} /\ UNCHANGED digestOnly /\ UNCHANGED events
  BY DEF DigestOpens
<1>2. /\ Shape /\ pair.src \in Files /\ pair.src \in InSource
      /\ mode = "full" => pair.dst \in InDest /\ Object("dst", pair.dst).kind = "file"
      /\ mode = "copied" => pair.dst = pair.src
      /\ mode \in {"full", "copied"}
      /\ dg.side \in {"src", "dst"} /\ dg.path = pair[dg.side]
  BY <1>1, PairFacts
<1>3. UNCHANGED fixed /\ UNCHANGED tree
  BY <1>1 DEF digestOnly
<1>4. CASE There /\ Named.kind = "file"
  <2>1. /\ dg' = IF dg.at = "before"
                 THEN [dg EXCEPT !.before = Stat(Named), !.at = "open"]
                 ELSE [dg EXCEPT !.opened = Stat(Named), !.at = "read"]
        /\ UNCHANGED <<st, pair, held, sdig, sum>>
    BY <1>4 DEF DigestOpens
  <2>2. IsDigest(dg)
    BY DEF IInv, Types
  <2>3. /\ dg'.side = dg.side /\ dg'.path = dg.path
        /\ dg.at = "before" => dg'.before = Stat(Named) /\ dg'.at = "open"
        /\ dg.at # "before" => dg'.before = dg.before /\ dg'.opened = Stat(Named) /\ dg'.at = "read"
    <3>1. PICK x : x = Stat(Named)
      OBVIOUS
    <3>2. PICK g : g = dg
      OBVIOUS
    <3>3. IsDigest(g)
      BY <2>2, <3>2
    <3>4. /\ [g EXCEPT !.before = x, !.at = "open"].side = g.side
          /\ [g EXCEPT !.before = x, !.at = "open"].path = g.path
          /\ [g EXCEPT !.before = x, !.at = "open"].before = x
          /\ [g EXCEPT !.before = x, !.at = "open"].at = "open"
          /\ [g EXCEPT !.opened = x, !.at = "read"].side = g.side
          /\ [g EXCEPT !.opened = x, !.at = "read"].path = g.path
          /\ [g EXCEPT !.opened = x, !.at = "read"].opened = x
          /\ [g EXCEPT !.opened = x, !.at = "read"].before = g.before
          /\ [g EXCEPT !.opened = x, !.at = "read"].at = "read"
      BY <3>3 DEF IsDigest
    <3>5. dg' = IF g.at = "before" THEN [g EXCEPT !.before = x, !.at = "open"]
                ELSE [g EXCEPT !.opened = x, !.at = "read"]
      BY <2>1, <3>1, <3>2
    <3>6. CASE g.at = "before"
      BY <3>1, <3>2, <3>4, <3>5, <3>6
    <3>7. CASE g.at # "before"
      BY <3>1, <3>2, <3>4, <3>5, <3>7
    <3> QED BY <3>2, <3>6, <3>7
  <2>4. Named' = Named /\ There'
    BY <1>3, <1>4, <2>3 DEF Named, There, Object
  <2>5. Stat(Named)' = Stat(Named)
    BY <2>4 DEF Stat
  <2>6. Quiet'
    <3>1. CASE dg.at = "before"
      BY <2>3, <2>4, <2>5, <3>1 DEF Quiet
    <3>2. CASE dg.at # "before"
      <4>1. Quiet
        BY <1>1, <3>2, VParts DEF PairInv
      <4> QED BY <2>3, <2>4, <2>5, <3>2, <4>1 DEF Quiet
    <3> QED BY <3>1, <3>2
  <2>7. dg'.at = "read" => dg'.opened = Stat(Named)'
    BY <2>3, <2>5
  <2> QED BY <1>1, <1>4, <2>1, <2>4, <2>6, <2>7, DigestingV
<1>5. CASE ~(There /\ Named.kind = "file")
  <2>1. Judge(FALSE)
    BY <1>5 DEF DigestOpens
  <2>2. dg.at = "before"
    BY <1>1, <1>5, VParts DEF PairInv, Quiet
  <2>3. dg.side = "dst" /\ mode = "copied"
    <3>1. dg.side = "src" => There /\ Named.kind = "file"
      BY <1>2 DEF There, Named, Files, InSource
    <3>2. dg.side = "dst" /\ mode = "full" => There /\ Named.kind = "file"
      BY <1>2 DEF There, Named, InDest
    <3> QED BY <1>2, <1>5, <3>1, <3>2
  <2>4. ~Sound(pair.src)
    <3>1. dg.path = pair.src
      BY <1>2, <2>3
    <3>2. pair.src \in InDest => Object("dst", pair.src).kind # "file"
      BY <1>5, <2>3, <3>1 DEF There, Named, InDest
    <3>3. Object("src", pair.src).kind = "file"
      BY <1>2 DEF Files
    <3>4. Sound(pair.src) => /\ pair.src \in InDest
                             /\ Object("src", pair.src).kind = Object("dst", pair.src).kind
      BY Zenon DEF Sound, InDest, Object
    <3> QED BY <3>2, <3>3, <3>4
  <2>5. ~Right
    BY <1>2, <2>3, <2>4 DEF Right, Wanted
  <2> QED BY <1>1, <2>1, <2>5, JudgedV
<1> QED BY <1>4, <1>5

\* What the digest in progress knows of the object under its name.
LEMMA QuietFacts ==
  ASSUME IInv, VInv, events = 0, st = "digest", dg.at \notin {"none", "before"}
  PROVE  /\ Quiet /\ There /\ Named.kind = "file" /\ held = None
         /\ Named \in Objects /\ IsDigest(dg) /\ Faithful
         /\ dg.at = "read" => dg.opened = Stat(Named)
<1>1. Quiet /\ Named.kind = "file" /\ (dg.at = "read" => dg.opened = Stat(Named))
  BY VParts DEF PairInv
<1>2. There
  BY <1>1 DEF Quiet
<1>3. Named \in Objects
  BY <1>2, NamedObject
<1>4. IsDigest(dg) /\ Faithful
  BY DEF IInv, Types, DigestInv
<1> QED BY <1>1, <1>2, <1>3, <1>4, PairFacts

\* A digest goes on and keeps what it saw before.
LEMMA KeepsSight ==
  ASSUME IInv, VInv, events = 0, UNCHANGED events, st = "digest", dg.at \notin {"none", "before"},
         UNCHANGED digestOnly, UNCHANGED <<st, pair, sum>>,
         dg'.side = dg.side, dg'.path = dg.path, dg'.before = dg.before,
         dg'.at = "read" => dg.at = "read" /\ dg'.opened = dg.opened
  PROVE  VInv'
<1>1. Quiet /\ There /\ Named.kind = "file" /\ (dg.at = "read" => dg.opened = Stat(Named))
  BY QuietFacts
<1>2. UNCHANGED tree
  BY DEF digestOnly
<1>3. Named' = Named /\ There'
  BY <1>1, <1>2 DEF Named, There, Object
<1>4. Stat(Named)' = Stat(Named)
  BY <1>3 DEF Stat
<1>5. Quiet'
  BY <1>1, <1>3, <1>4 DEF Quiet
<1> QED BY <1>1, <1>3, <1>4, <1>5, DigestingV

\* Reading goes on.
LEMMA DigestReadsV ==
  ASSUME IInv, VInv, events = 0, DigestReads
  PROVE  VInv'
<1>1. /\ st = "digest" /\ dg.at = "read" /\ UNCHANGED digestOnly
      /\ UNCHANGED <<st, pair, sum, events>>
  BY DEF DigestReads
<1>2. PICK x : dg' = [dg EXCEPT !.data = x]
  BY DEF DigestReads
<1>3. /\ dg'.side = dg.side /\ dg'.path = dg.path /\ dg'.before = dg.before /\ dg'.at = dg.at
      /\ dg'.opened = dg.opened
  BY <1>1, <1>2, QuietFacts DEF IsDigest
<1> QED BY <1>1, <1>3, KeepsSight

\* The handle is as it was opened, and all of it was read.
LEMMA DigestChecksV ==
  ASSUME IInv, VInv, events = 0, DigestChecks
  PROVE  VInv'
<1>1. /\ st = "digest" /\ dg.at = "read" /\ UNCHANGED digestOnly /\ UNCHANGED events
      /\ Len(dg.data) >= Len(Handle.data)
  BY DEF DigestChecks
<1>2. /\ Quiet /\ held = None /\ Named \in Objects /\ IsDigest(dg) /\ Faithful
      /\ dg.opened = Stat(Named)
  BY <1>1, QuietFacts
<1>3. Handle = Named /\ HandleUnchanged
  BY <1>2 DEF Handle, HandleUnchanged
<1>4. Len(dg.data) <= Len(Named.data)
  BY <1>1, <1>2 DEF Faithful, ReadSoFar
<1>5. Len(dg.data) = Len(Handle.data)
  <2>1. Len(dg.data) \in Nat /\ Len(Named.data) \in Nat
    <3>1. dg.data \in Seq(Nat) /\ Named.data \in Seq(Nat)
      BY <1>2 DEF IsDigest, Objects
    <3> QED BY <3>1
  <2> QED BY <1>1, <1>3, <1>4, <2>1
<1>6. dg' = [dg EXCEPT !.at = "streams"] /\ UNCHANGED <<st, pair, sum>>
  BY <1>3, <1>5 DEF DigestChecks
<1>7. /\ dg'.side = dg.side /\ dg'.path = dg.path /\ dg'.before = dg.before
      /\ dg'.at = "streams"
  BY <1>2, <1>6 DEF IsDigest
<1> QED BY <1>1, <1>6, <1>7, KeepsSight

\* Streams and EAs are there to be read.
LEMMA DigestAuxV ==
  ASSUME IInv, VInv, events = 0, DigestAux
  PROVE  VInv'
<1>1. /\ st = "digest" /\ dg.at \in {"streams", "eas"} /\ UNCHANGED digestOnly
      /\ UNCHANGED events
  BY DEF DigestAux
<1>2. There /\ IsDigest(dg)
  BY <1>1, QuietFacts
<1>3. PICK x, y : /\ dg' = IF dg.at = "streams" THEN [dg EXCEPT !.at = "eas", !.streams = x]
                           ELSE [dg EXCEPT !.at = "after", !.eas = y]
                  /\ UNCHANGED <<st, pair, sum>>
  BY <1>2 DEF DigestAux
<1>4. /\ dg'.side = dg.side /\ dg'.path = dg.path /\ dg'.before = dg.before
      /\ dg'.at \in {"eas", "after"}
  BY <1>2, <1>3 DEF IsDigest
<1> QED BY <1>1, <1>3, <1>4, KeepsSight

\* The name is as it was; the destination's digest follows, or the comparison.
LEMMA DigestEndsV ==
  ASSUME IInv, VInv, events = 0, DigestEnds
  PROVE  VInv'
<1>1. /\ st = "digest" /\ dg.at = "after" /\ UNCHANGED digestOnly /\ UNCHANGED events
  BY DEF DigestEnds
<1>2. NameUnchanged /\ IsDigest(dg)
  BY <1>1, QuietFacts DEF NameUnchanged, Quiet
<1>3. CASE dg.side = "src"
  <2>1. dg' = Digest("dst", pair.dst) /\ UNCHANGED <<st, pair, sum>>
    BY <1>2, <1>3 DEF DigestEnds
  <2>2. dg'.at = "before"
    BY <2>1 DEF Digest, NoDigest
  <2> QED BY <1>1, <2>1, <2>2, DigestingV
<1>4. CASE dg.side # "src"
  <2>1. dg' = [dg EXCEPT !.at = "done"] /\ UNCHANGED <<st, pair, sum>>
    BY <1>2, <1>4 DEF DigestEnds
  <2>2. /\ dg'.side = dg.side /\ dg'.path = dg.path /\ dg'.before = dg.before
        /\ dg'.at = "done"
    BY <1>2, <2>1 DEF IsDigest
  <2> QED BY <1>1, <2>1, <2>2, KeepsSight
<1> QED BY <1>3, <1>4

\* The comparison of two digests is the reference's.
LEMMA CompareV ==
  ASSUME IInv, VInv, events = 0, Compare
  PROVE  VInv'
<1> DEFINE p == pair.src
           q == pair.dst
           s == Object("src", p)
           d == Object("dst", q)
           ok == /\ Digested = sdig
                 /\ mode = "copied" => There /\ MetadataEqual(s, Named)
<1>1. st = "digest" /\ dg.at = "done" /\ Judge(ok) /\ UNCHANGED digestOnly /\ UNCHANGED events
  BY DEF Compare
<1>2. /\ Shape /\ p \in Files /\ p \in InSource
      /\ mode = "full" => /\ q \in InDest /\ MetadataEqual(s, d) /\ (q # p => Aliased)
      /\ mode = "copied" => q = p
      /\ mode \in {"full", "copied"}
  BY <1>1, PairFacts
<1>3. There /\ Named.kind = "file"
  BY <1>1, QuietFacts
<1>4. /\ dg.side = "dst" /\ dg.path = q
      /\ \E v \in versions["src"] : sdig = Shows(v, "src")
      /\ \E w \in versions["dst"] : Digested = Shows(w, "dst")
  BY <1>1 DEF IInv, DigestInv, OfAVersion
<1>5. versions["src"] = Now("src", p) /\ versions["dst"] = Now("dst", q)
  BY <1>1, VParts DEF PairInv
<1>6. Now("src", p) \subseteq {Content(s)} /\ Now("dst", q) \subseteq {Content(d)}
  BY DEF Now
<1>7. sdig = Shows(Content(s), "src") /\ Digested = Shows(Content(d), "dst")
  BY <1>4, <1>5, <1>6
<1>8. q \in InDest /\ d.kind = "file" /\ Named = d
  BY <1>3, <1>4 DEF There, Named, InDest
<1>9. s.kind = "file"
  BY <1>2 DEF Files
<1> HIDE DEF s, d
<1>10. ok <=> MetadataEqual(s, d) /\ Shows(Content(s), "src") = Shows(Content(d), "dst")
  BY <1>2, <1>3, <1>7, <1>8
<1>11. q = p => (ok <=> Sound(p))
  <2> HAVE q = p
  <2>1. s = Object("src", p) /\ d = Object("dst", p)
    BY DEF s, d
  <2>2. Sound(p) <=> MetadataEqual(s, d) /\ Shows(Content(s), "src") = Shows(Content(d), "dst")
    BY <1>2, <1>8, <1>9, <2>1, AgreeFile
  <2> QED BY <1>10, <2>2
<1> HIDE DEF ok
<1>12. p \in Wanted
  BY <1>2 DEF Wanted
<1>13. q = p \/ Aliased
  BY <1>2
<1>14. Right => ok
  BY <1>2, <1>11, <1>12, <1>13, AliasedIsWrong DEF Right
<1>15. ~Aliased /\ ok => Sound(p)
  BY <1>11, <1>13
<1> QED BY <1>1, <1>14, <1>15, JudgedV

-----------------------------------------------------------------------------
(* The files of the run, and the whole.                                      *)

\* The next file written by this run.
LEMMA NextTargetV ==
  ASSUME IInv, VInv, events = 0, NEW p \in entries, NextTarget(p)
  PROVE  VInv'
<1>1. /\ st = "targets" /\ st' = "digest" /\ entries' = entries \ {p}
      /\ pair' = [src |-> p, dst |-> p, ok |-> None] /\ dg' = Digest("dst", p)
      /\ versions' = [src |-> Now("src", p), dst |-> Now("dst", p)]
      /\ UNCHANGED fixed /\ UNCHANGED tree /\ UNCHANGED sum /\ UNCHANGED events
  BY DEF NextTarget
<1>2. mode = "copied" /\ mode' = "copied"
  BY <1>1 DEF IInv, Placed, fixed
<1>3. SumInv /\ entries \subseteq Files
  BY <1>2, VParts DEF TargetInv
<1>4. /\ Files' = Files /\ InSource' = InSource
      /\ \A side, x : Now(side, x)' = Now(side, x)
  BY <1>1, Still
<1>5. pair'.src = p /\ pair'.dst = p
  BY <1>1
<1>6. StackInv' /\ EntryInv'
  BY <1>1, <1>2 DEF StackInv, EntryInv, InDir
<1>7. TargetInv'
  BY <1>1, <1>3, <1>4, <1>5 DEF TargetInv
<1>8. PairInv'
  <2>1. dg'.at = "before"
    BY <1>1 DEF Digest, NoDigest
  <2>2. versions' = [src |-> Now("src", p)', dst |-> Now("dst", p)'] /\ p \in Files'
    BY <1>1, <1>3, <1>4
  <2> QED BY <1>2, <1>5, <2>1, <2>2 DEF PairInv
<1>9. Settled' = Settled
  <2>1. Settled = Files \ entries
    BY <1>1, <1>2 DEF Settled, InPair
  <2>2. Settled' = Files \ ((entries \ {p}) \cup {p})
    BY <1>1, <1>2, <1>4, <1>5 DEF Settled, InPair
  <2> QED BY <2>1, <2>2
<1>10. Covered'
  BY <1>2 DEF Covered, Aliased
<1>11. SumInv'
  BY <1>1, <1>3, <1>9, <1>10, Goes
<1> QED BY <1>1, <1>6, <1>7, <1>8, <1>11, QuietStep

\* Nothing happens.
LEMMA StutterV ==
  ASSUME IInv, VInv, events = 0, UNCHANGED vars
  PROVE  VInv'
<1>1. /\ UNCHANGED <<st, tasks, cur, entries, dmap, keys, pair, dg, sum, versions, events>>
      /\ UNCHANGED fixed /\ UNCHANGED tree /\ mode' = mode
      /\ UNCHANGED digestOnly
  BY DEF vars, walkVars, fixed, digestOnly
<1>2. CASE st = "digest"
  <2>1. dg'.at \notin {"none", "before"} => Quiet' /\ (Named').kind = "file"
    <3> HAVE dg'.at \notin {"none", "before"}
    <3>1. Quiet /\ Named.kind = "file"
      BY <1>1, <1>2, QuietFacts
    <3>2. Named' = Named
      BY <1>1 DEF Named, Object
    <3>3. Quiet' <=> Quiet
      BY <1>1, <3>2 DEF Quiet, There, Stat
    <3> QED BY <3>1, <3>2, <3>3
  <2>2. dg'.at = "read" => dg'.opened = Stat(Named)'
    <3> HAVE dg'.at = "read"
    <3>1. dg.opened = Stat(Named)
      BY <1>1, <1>2, QuietFacts
    <3>2. Stat(Named)' = Stat(Named)
      BY <1>1 DEF Named, Object, Stat
    <3> QED BY <1>1, <3>1, <3>2
  <2> QED BY <1>1, <1>2, <2>1, <2>2, DigestingV
<1>3. CASE st # "digest"
  <2>1. At' = At /\ EntryPaths' = EntryPaths
    BY <1>1 DEF At, EntryPaths
  <2>2. /\ InSource' = InSource /\ InDest' = InDest /\ Files' = Files /\ (Aliased' <=> Aliased)
        /\ \A side : Children(side, At)' = Children(side, At)
    BY <1>1, <2>1, Still
  <2>3. Matched' = Matched
    BY <2>1, <2>2 DEF Matched
  <2>4. st # "error" /\ StackInv /\ EntryInv /\ TargetInv /\ SumInv
    BY VParts
  <2>5. InDir' <=> InDir
    BY <1>1 DEF InDir
  <2>6. StackInv'
    BY <1>1, <2>1, <2>3, <2>4, <2>5 DEF StackInv
  <2>7. EntryInv'
    BY <1>1, <2>1, <2>2, <2>3, <2>4, <2>5, Still DEF EntryInv
  <2>8. TargetInv' /\ PairInv'
    BY <1>1, <1>3, <2>2, <2>4 DEF TargetInv, PairInv
  <2>9. Settled' = Settled /\ Compared' = Compared
    BY <1>1, <2>1, <2>2, <2>3 DEF Settled, Compared, InPair
  <2>10. NotYetMet' <=> NotYetMet
    BY <1>1, <2>1, <2>2, <2>5 DEF NotYetMet
  <2>11. sum.failed = 0 => Covered'
    BY <1>1, <2>2, <2>4, <2>9, <2>10 DEF Covered, SumInv
  <2>12. SumInv'
    BY <1>1, <2>4, <2>9, <2>11, Goes
  <2> QED BY <1>1, <2>4, <2>6, <2>7, <2>8, <2>12, QuietStep
<1> QED BY <1>2, <1>3

\* Nothing has its verdict yet.
LEMMA StartV == ASSUME Init PROVE VInv
<1>1. /\ st = (IF mode = "full" THEN "root" ELSE "targets")
      /\ entries = (IF mode = "full" THEN {}
                    ELSE {p \in DOMAIN tree["src"] : tree["src"][p].kind = "file"})
      /\ tasks = << >> /\ sum = [passed |-> 0, failed |-> 0] /\ events = 0
      /\ mode \in {"full", "copied"}
  BY VerifyAssumption DEF Init
<1>2. mode # "full" => entries = Files
  BY <1>1 DEF Files, InSource, Object
<1>3. Shape
  BY StartShape
<1>4. StackInv /\ EntryInv /\ PairInv
  BY <1>1 DEF StackInv, EntryInv, PairInv, InDir
<1>5. TargetInv
  BY <1>1, <1>2 DEF TargetInv
<1>6. Settled = {} /\ Cardinality(Settled) = 0
  <2>1. Settled = {}
    BY <1>1, <1>2 DEF Settled
  <2> QED BY <2>1, FS_EmptySet
<1>7. Aliased => NotYetMet
  BY <1>1 DEF Aliased, NotYetMet
<1>8. mode = "full" => Compared = {}
  BY <1>1 DEF Compared
<1>9. SumInv
  BY <1>1, <1>6, <1>7, <1>8 DEF SumInv
<1> QED BY <1>1, <1>3, <1>4, <1>5, <1>9 DEF VInv

\* Every step keeps it; after the first change or failed read there is nothing to keep.
LEMMA StepV == IInv /\ VInv /\ [Next]_vars => VInv'
<1> SUFFICES ASSUME IInv, VInv, [Next]_vars PROVE VInv'
  OBVIOUS
<1>1. CASE VerifyRoot
  <2>1. UNCHANGED events \/ Event
    BY <1>1 DEF VerifyRoot
  <2> QED BY <1>1, <2>1, VerifyRootV, EventStep DEF Event
<1>2. CASE Enumerate
  <2>1. UNCHANGED events \/ Event
    BY <1>2 DEF Enumerate
  <2> QED BY <1>2, <2>1, EnumerateV, EventStep DEF Event
<1>3. CASE Extras
  BY <1>3, ExtrasV, EventStep DEF Extras
<1>4. CASE Finished
  BY <1>4, FinishedV, EventStep DEF Finished
<1>5. CASE Ended \/ UNCHANGED vars
  BY <1>5, StutterV, EventStep DEF Ended, vars
<1>6. ASSUME NEW e \in entries, MatchEntry(e) PROVE VInv'
  <2>1. UNCHANGED events \/ Event
    BY <1>6 DEF MatchEntry
  <2> QED BY <1>6, <2>1, MatchEntryV, EventStep DEF Event
<1>7. ASSUME NEW p \in entries, NextTarget(p) PROVE VInv'
  <2>1. UNCHANGED events
    BY <1>7 DEF NextTarget
  <2> QED BY <1>7, <2>1, NextTargetV, EventStep
<1>8. CASE DigestFails
  BY <1>8, EventStep DEF DigestFails, Event
<1>9. CASE DigestOpens \/ DigestReads \/ DigestChecks \/ DigestAux \/ DigestEnds \/ Compare
  <2>1. UNCHANGED events
    BY <1>9 DEF DigestOpens, DigestReads, DigestChecks, DigestAux, DigestEnds, Compare
  <2> QED BY <1>9, <2>1, DigestOpensV, DigestReadsV, DigestChecksV, DigestAuxV, DigestEndsV,
             CompareV, EventStep
<1>10. CASE \E side \in Sides : \E path \in DOMAIN tree[side] :
              WriteFile(side, path) \/ SwapFile(side, path) \/ RemoveFile(side, path)
  <2>1. Event
    BY <1>10 DEF WriteFile, SwapFile, RemoveFile, Changing
  <2> QED BY <2>1, EventStep DEF Event
<1> QED BY <1>1, <1>2, <1>3, <1>4, <1>5, <1>6, <1>7, <1>8, <1>9, <1>10 DEF Next

\* At the end everything has its verdict.
LEMMA AtTheEnd == ASSUME IInv, VInv PROVE VerdictIsRight
<1> SUFFICES ASSUME st = "done", events = 0
             PROVE  /\ (sum.failed = 0) <=> Right
                    /\ Right => sum.passed = Cardinality(Wanted)
  BY Zenon DEF VerdictIsRight, Right, Wanted, Files, InSource, InDest, Object
<1>1. Shape /\ TargetInv /\ SumInv /\ mode \in {"full", "copied"}
  BY VParts DEF IInv, Types
<1>2. Settled = Wanted
  <2>1. mode = "copied" => entries = {}
    BY <1>1 DEF TargetInv
  <2> QED BY <1>1, <2>1 DEF Settled, Wanted, InPair
<1>3. Right => sum.failed = 0 /\ sum.passed = Cardinality(Wanted)
  BY <1>1, <1>2 DEF SumInv
<1>4. sum.failed = 0 => Right
  <2> HAVE sum.failed = 0
  <2>1. ~Aliased
    BY <1>1 DEF SumInv, NotYetMet, InDir
  <2>2. \A p \in Wanted : Sound(p)
    BY <1>1, <1>2, <2>1 DEF SumInv
  <2>3. ASSUME mode = "full" PROVE InDest = InSource
    <3>1. Compared = Paths
      BY DEF Compared
    <3>2. InDest \subseteq InSource
      BY <1>1, <2>1, <2>3, <3>1 DEF SumInv, Shape
    <3>3. InSource \subseteq InDest
      BY <2>2, <2>3 DEF Wanted, Sound, InDest
    <3> QED BY <3>2, <3>3
  <2> QED BY <2>2, <2>3 DEF Right
<1> QED BY <1>3, <1>4

\* Without changes by other programs and failed reads a verification ends with nothing
\* failed exactly if the destination is what a copy leaves there, and then it counts every
\* object of the walk or every file of the run, once: for every file system policy, any
\* times and roundings of them, each damage, names that collide on either side, and any
\* order of the entries (run_standalone_verify, verify_written_targets, timestamp_equal).
THEOREM VerdictRight == Spec => []VerdictIsRight
<1>1. Init => VInv
  BY StartV
<1>2. IInv /\ IInv' /\ VInv /\ [Next]_vars => VInv'
  BY StepV
<1>3. IInv /\ VInv => VerdictIsRight
  BY AtTheEnd
<1> QED BY <1>1, <1>2, <1>3, Invariance, PTL DEF Spec
=============================================================================
