------------------------------- MODULE Verify -------------------------------
(***************************************************************************)
(* Verification (verify.rs) under the policy that projects a source on its *)
(* destination's file system (filesystem.rs): `bigcp verify`, which walks  *)
(* both trees, and --verify, which reads back the files a run wrote.  Both *)
(* read while other programs may write.                                    *)
(*                                                                         *)
(* The destination is what a copy leaves on that file system, with one     *)
(* damage done to it or none.  A path is a sequence of names; the data of  *)
(* a file is a sequence of units, its named streams and its EAs are one    *)
(* value each, 0 when there are none.                                      *)
(***************************************************************************)
EXTENDS Integers, Sequences, FiniteSets, Functions, SequencesExt

CONSTANTS None,
          Policies,     \* destination file systems to choose from
          Times,        \* last-write times of the source to choose from
          Modes,        \* subset of {"full", "copied"}
          MaxEvents     \* bound: changes by other programs and failed reads

\* What the policy knows of a destination and of the source beside it.
FilesystemPolicies ==
    [fs : {"ntfs", "fat", "exfat", "wsl", "remote"}, srcProjects : BOOLEAN,
     srcStreams : BOOLEAN, streams : BOOLEAN, srcEas : BOOLEAN, eas : BOOLEAN,
     reparse : BOOLEAN, caseSensitive : BOOLEAN]

\* What has a name in a tree; id tells apart the objects that had the name.
Objects ==
    [kind : {"dir", "file", "link"}, id : Nat, data : Seq(Nat), streams : Nat, eas : Nat,
     link : Nat, ctime : Nat, mtime : Nat, attrs : SUBSET {"not_indexed", "readonly", "archive"}]

ASSUME VerifyAssumption ==
    /\ Policies \subseteq FilesystemPolicies
    /\ Times \subseteq Nat
    /\ Modes \subseteq {"full", "copied"}
    /\ MaxEvents \in Nat
    /\ None \notin Objects \cup BOOLEAN

VARIABLES
    policy,     \* FilesystemPolicy
    damage,     \* what was done to the copy
    mode,
    tree,       \* the two trees: side -> path -> object
    st,         \* where the verification stands
    tasks,      \* pairs of directories still to be walked, a stack
    cur,        \* the pair being walked
    entries,    \* its source entries still to be matched
    dmap,       \* destination_map: key -> entry
    keys,       \* source_keys
    pair,       \* the two entries being compared
    dg,         \* the digest in progress
    held,       \* the object an open handle keeps after its name is taken
    sdig,       \* the source's digests
    sum,        \* passed and failed
    versions,   \* ghost: what each side of the pair has been since it was matched
    events

walkVars == <<tasks, cur, entries, dmap, keys>>
fixed    == <<policy, damage, mode>>
vars == <<fixed, tree, st, walkVars, pair, dg, held, sdig, sum, versions, events>>

Sides == {"src", "dst"}

-----------------------------------------------------------------------------
(* FilesystemPolicy. *)

\* Units of time: ten milliseconds make 2, FAT's two seconds make 4.
Fat == {"fat", "exfat"}
BasicIsProjected == policy.srcProjects \/ policy.fs \in {"wsl", "remote"}
LastWriteQuantum(fs) == CASE fs = "fat" -> 4 [] fs = "exfat" -> 2 [] OTHER -> 0
CreationQuantum(fs) == IF fs \in Fat THEN 2 ELSE 0
AttributeMask ==
    IF BasicIsProjected THEN {}
    ELSE IF policy.fs \in Fat THEN {"readonly"} ELSE {"readonly", "not_indexed"}

Distance(a, b) == IF a < b THEN b - a ELSE a - b

\* Mutant: the next representable time is taken for the same.
TimestampEqual_Loose(a, b, quantum) ==
    IF quantum = 0 THEN a = b ELSE Distance(a, b) <= quantum

\* timestamp_equal: exact, or anywhere within one quantum.
TimestampEqual(a, b, quantum) ==
    IF quantum = 0 THEN a = b ELSE Distance(a, b) < quantum

LastWriteEqual(a, b) == TimestampEqual(a, b, LastWriteQuantum(policy.fs))
CreationEqual(a, b) == BasicIsProjected \/ TimestampEqual(a, b, CreationQuantum(policy.fs))
AttributesEqual(a, b) == a \intersect AttributeMask = b \intersect AttributeMask

MetadataEqual(a, b) ==
    /\ CreationEqual(a.ctime, b.ctime)
    /\ LastWriteEqual(a.mtime, b.mtime)
    /\ AttributesEqual(a.attrs, b.attrs)

\* What is read of a side: the source's streams and EAs only where the
\* destination has them too.
ReadsStreams(side) == policy.streams /\ (side = "src" => policy.srcStreams)
ReadsEas(side) == policy.eas /\ (side = "src" => policy.srcEas)

-----------------------------------------------------------------------------
(* The trees. *)

Obj(kind, data, streams, eas, mtime) ==
    [kind |-> kind, id |-> 0, data |-> data, streams |-> streams, eas |-> eas,
     link |-> 0, ctime |-> mtime, mtime |-> mtime, attrs |-> {"not_indexed"}]

\* A tree with one more name.
With(t, path, o) == [p \in DOMAIN t \cup {path} |-> IF p = path THEN o ELSE t[p]]

\* A root with a file, a directory with a file, and a link where they exist.
SourceTree(p, t) ==
    LET s == IF p.srcStreams THEN 1 ELSE 0
        e == IF p.srcEas THEN 1 ELSE 0
    IN  [path \in {<< >>, <<"a">>, <<"d">>, <<"d", "f">>}
                    \cup IF p.reparse THEN {<<"l">>} ELSE {} |->
            CASE path = << >>       -> Obj("dir", << >>, 0, 0, t)
              [] path = <<"a">>     -> Obj("file", <<1, 2>>, s, e, t)
              [] path = <<"d">>     -> Obj("dir", << >>, s, 0, t)
              [] path = <<"d", "f">> -> [Obj("file", <<1>>, 0, 0, t) EXCEPT !.attrs = {"readonly"}]
              [] path = <<"l">>     -> [Obj("link", << >>, 0, 0, t) EXCEPT !.link = 1]]

\* A coarse file system stores a time rounded down or up; others store it as is.
Stored(t, quantum, up) ==
    IF quantum = 0 \/ t % quantum = 0 THEN t
    ELSE (t \div quantum) * quantum + IF up THEN quantum ELSE 0

\* What a copy leaves at the destination: project_basic, then the file system.
\* Where basic metadata is projected only the last-write time is the source's.
CopyOf(o, p, up) ==
    LET projected == p.srcProjects \/ p.fs \in {"wsl", "remote"}
    IN  [o EXCEPT
            !.streams = IF p.streams THEN @ ELSE 0,
            !.eas = IF p.eas THEN @ ELSE 0,
            !.mtime = Stored(@, LastWriteQuantum(p.fs), up),
            !.ctime = IF projected THEN 99 ELSE Stored(@, CreationQuantum(p.fs), up),
            !.attrs = IF projected THEN {"archive"}
                      ELSE IF p.fs \in Fat THEN @ \ {"not_indexed"} ELSE @]

\* One damage to the copy, where the file system can hold the difference; for
\* "clash" it is the source that has two names, of which one was copied.
Damaged(t, d, p) ==
    LET a == t[<<"a">>]
        projected == p.srcProjects \/ p.fs \in {"wsl", "remote"}
    IN  CASE d = "none"    -> t
          [] d = "content" -> [t EXCEPT ![<<"a">>].data = <<1, 9>>]
          [] d = "size"    -> [t EXCEPT ![<<"d", "f">>].data = <<1, 1>>]
          [] d = "mtime"   -> [t EXCEPT ![<<"a">>].mtime =
                                @ + IF p.fs \in Fat THEN LastWriteQuantum(p.fs) ELSE 1]
          [] d = "ctime"   -> IF projected THEN t
                              ELSE [t EXCEPT ![<<"d">>].ctime = @ + CreationQuantum(p.fs) + 1]
          [] d = "attrs"   -> IF projected THEN t
                              ELSE [t EXCEPT ![<<"d", "f">>].attrs = {}]
          [] d = "stream"  -> IF p.streams THEN [t EXCEPT ![<<"a">>].streams = 8] ELSE t
          [] d = "diraux"  -> IF p.streams THEN [t EXCEPT ![<<"d">>].streams = 9] ELSE t
          [] d = "eas"     -> IF p.eas THEN [t EXCEPT ![<<"a">>].eas = 9] ELSE t
          [] d = "link"    -> IF p.reparse THEN [t EXCEPT ![<<"l">>].link = 9] ELSE t
          [] d = "kind"    -> [t EXCEPT ![<<"d", "f">>].kind = "dir"]
          [] d = "missing" -> Restrict(t, DOMAIN t \ {<<"d", "f">>})
          [] d = "extra"   -> With(t, <<"d", "x">>, a)
          [] d = "twin"    -> With(t, <<"A">>, a)
          [] d = "clash"   -> t

Damages == {"none", "content", "size", "mtime", "ctime", "attrs", "stream", "diraux",
            "eas", "link", "kind", "missing", "extra", "twin", "clash"}

\* Names that differ in case only have one key where case does not count.
Key(name) == IF name = "A" /\ ~policy.caseSensitive THEN "a" ELSE name

Children(side, path) ==
    {q \in DOMAIN tree[side] : Len(q) = Len(path) + 1 /\ Front(q) = path}

-----------------------------------------------------------------------------
(* The walk. *)

Event == events < MaxEvents /\ events' = events + 1

Verdict(ok) == sum' = IF ok THEN [sum EXCEPT !.passed = @ + 1]
                            ELSE [sum EXCEPT !.failed = @ + 1]

Object(side, path) == tree[side][path]

\* directory_aux_equal: streams and EAs of a directory or a link.
AuxEqual(s, d) ==
    /\ (IF ReadsStreams("src") THEN s.streams ELSE 0) =
       (IF ReadsStreams("dst") THEN d.streams ELSE 0)
    /\ (IF ReadsEas("src") THEN s.eas ELSE 0) = (IF ReadsEas("dst") THEN d.eas ELSE 0)

\* The roots: what cannot be read ends the verification with an error.
VerifyRoot ==
    /\ st = "root"
    /\ LET s == Object("src", << >>)
           d == Object("dst", << >>)
       IN  \/ /\ Verdict(MetadataEqual(s, d) /\ AuxEqual(s, d))
              /\ tasks' = <<[src |-> << >>, dst |-> << >>]>>
              /\ st' = "walk"
              /\ UNCHANGED events
           \/ Event /\ st' = "error" /\ UNCHANGED <<sum, tasks>>
    /\ UNCHANGED <<fixed, tree, cur, entries, dmap, keys, pair, dg, held, sdig, versions>>

Entry(side, path) == [path |-> path, md |-> Object(side, path)]
HasDir(side, path) == path \in DOMAIN tree[side] /\ Object(side, path).kind = "dir"

\* The next pair of directories is enumerated; one that cannot be fails, and the
\* rest of the tree still gets its verdict.  Entries of the destination whose
\* names collide fail, and only the last one of them stays in the map.
Enumerate ==
    /\ st = "walk" /\ tasks # << >>
    /\ LET t == Last(tasks)
           ds == Children("dst", t.dst)
           names == {Key(Last(q)) : q \in ds}
       IN  \/ /\ HasDir("src", t.src) /\ HasDir("dst", t.dst)
              /\ cur' = t
              /\ entries' = {Entry("src", q) : q \in Children("src", t.src)}
              /\ \E pick \in [names -> ds] :
                    /\ \A k \in names : Key(Last(pick[k])) = k
                    /\ dmap' = [k \in names |-> Entry("dst", pick[k])]
              /\ sum' = [sum EXCEPT !.failed = @ + Cardinality(ds) - Cardinality(names)]
              /\ keys' = {}
              /\ st' = "entries"
              /\ UNCHANGED events
           \/ /\ ~(HasDir("src", t.src) /\ HasDir("dst", t.dst))
              /\ Verdict(FALSE)
              /\ UNCHANGED <<cur, entries, dmap, keys, st, events>>
           \/ Event /\ Verdict(FALSE) /\ UNCHANGED <<cur, entries, dmap, keys, st>>
    /\ tasks' = Front(tasks)
    /\ UNCHANGED <<fixed, tree, pair, dg, held, sdig, versions>>

\* After the source's entries, what is left in the map is extra.
Extras ==
    /\ st = "entries" /\ entries = {}
    /\ sum' = [sum EXCEPT !.failed = @ + Cardinality(DOMAIN dmap)]
    /\ dmap' = << >> /\ cur' = None /\ st' = "walk"
    /\ UNCHANGED <<fixed, tree, tasks, entries, keys, pair, dg, held, sdig, versions, events>>

\* What another program can see of an object; a comparison sees the projection.
Content(o) == [data |-> o.data, streams |-> o.streams, eas |-> o.eas]
Now(side, path) == IF path \in DOMAIN tree[side] THEN {Content(Object(side, path))} ELSE {}

\* Before the first pair; the roots are no files.
NoPair == [src |-> << >>, dst |-> << >>, ok |-> None]

NoDigest == [side |-> None, path |-> None, at |-> "none", before |-> None,
             opened |-> None, data |-> << >>, streams |-> 0, eas |-> 0]
Digest(side, path) == [NoDigest EXCEPT !.side = side, !.path = path, !.at = "before"]

\* A source entry is matched by key: a second one with the key, a missing twin and
\* another type fail at once; a link is compared; a directory is compared and
\* pushed whatever the result; a file of equal size and metadata is digested.
MatchEntry(e) ==
    /\ st = "entries" /\ e \in entries
    /\ entries' = entries \ {e}
    /\ LET k == Key(Last(e.path))
           twin == dmap[k]
           s == e.md
           d == twin.md
           now == MetadataEqual(s, d)
           both == e.path \in DOMAIN tree["src"] /\ twin.path \in DOMAIN tree["dst"]
           aux == AuxEqual(Object("src", e.path), Object("dst", twin.path))
           push == Append(tasks, [src |-> e.path, dst |-> twin.path])
       IN  /\ keys' = keys \union {k}
           /\ dmap' = IF k \in keys THEN dmap ELSE Restrict(dmap, DOMAIN dmap \ {k})
           /\ \/ /\ k \in keys \/ k \notin DOMAIN dmap
                 /\ Verdict(FALSE)
                 /\ UNCHANGED <<st, tasks, pair, dg, versions, events>>
              \/ /\ k \notin keys /\ k \in DOMAIN dmap /\ s.kind # d.kind
                 /\ Verdict(FALSE)
                 /\ UNCHANGED <<st, tasks, pair, dg, versions, events>>
              \/ /\ k \notin keys /\ k \in DOMAIN dmap /\ s.kind = d.kind
                 /\ s.kind \in {"dir", "link"}
                 /\ \/ Verdict(both /\ now /\ aux
                               /\ Object("src", e.path).link = Object("dst", twin.path).link)
                       /\ UNCHANGED events
                    \/ Event /\ Verdict(FALSE)
                 /\ tasks' = IF s.kind = "dir" THEN push ELSE tasks
                 /\ UNCHANGED <<st, pair, dg, versions>>
              \/ /\ k \notin keys /\ k \in DOMAIN dmap /\ s.kind = d.kind
                 /\ s.kind = "file"
                 /\ IF Len(s.data) = Len(d.data) /\ now
                    THEN /\ st' = "digest"
                         /\ pair' = [src |-> e.path, dst |-> twin.path, ok |-> None]
                         /\ dg' = Digest("src", e.path)
                         /\ versions' = [src |-> Now("src", e.path), dst |-> Now("dst", twin.path)]
                         /\ UNCHANGED sum
                    ELSE Verdict(FALSE) /\ UNCHANGED <<st, pair, dg, versions>>
                 /\ UNCHANGED <<tasks, events>>
    /\ UNCHANGED <<fixed, tree, cur, held, sdig>>

-----------------------------------------------------------------------------
(* digest_file_streams_and_eas. *)

There == dg.path \in DOMAIN tree[dg.side]
Named == Object(dg.side, dg.path)

\* The object the open handle reads, whatever its name leads to now.
Handle == IF held # None THEN held ELSE Named

Stat(o) == [id |-> o.id, size |-> Len(o.data), mtime |-> o.mtime]

\* The pair, or the target, has its verdict.
Judge(ok) ==
    /\ Verdict(ok)
    /\ pair' = [pair EXCEPT !.ok = ok]
    /\ dg' = NoDigest /\ held' = None /\ sdig' = None
    /\ st' = IF mode = "full" THEN "entries" ELSE "targets"

digestOnly == <<fixed, tree, walkVars, versions>>

\* A read that fails makes the pair unverifiable.
DigestFails ==
    /\ st = "digest" /\ dg.at # "done"
    /\ Event
    /\ Judge(FALSE)
    /\ UNCHANGED digestOnly

\* metadata_at before, and the handle.
DigestOpens ==
    /\ st = "digest" /\ dg.at \in {"before", "open"}
    /\ IF There /\ Named.kind = "file"
       THEN /\ dg' = IF dg.at = "before"
                     THEN [dg EXCEPT !.before = Stat(Named), !.at = "open"]
                     ELSE [dg EXCEPT !.opened = Stat(Named), !.at = "read"]
            /\ UNCHANGED <<st, pair, held, sdig, sum>>
       ELSE Judge(FALSE)
    /\ UNCHANGED <<digestOnly, events>>

DigestReads ==
    /\ st = "digest" /\ dg.at = "read"
    /\ held # None \/ There
    /\ Len(dg.data) < Len(Handle.data)
    /\ dg' = [dg EXCEPT !.data = Append(@, Handle.data[Len(@) + 1])]
    /\ UNCHANGED <<digestOnly, st, pair, held, sdig, sum, events>>

\* digest_file's revalidation of the handle.
HandleUnchanged == Stat(Handle) = dg.opened

\* At the end of the file the handle must be as it was opened.
DigestChecks ==
    /\ st = "digest" /\ dg.at = "read"
    /\ held # None \/ There
    /\ Len(dg.data) >= Len(Handle.data)
    /\ IF HandleUnchanged /\ Len(dg.data) = Len(Handle.data)
       THEN /\ dg' = [dg EXCEPT !.at = "streams"]
            /\ held' = None
            /\ UNCHANGED <<st, pair, sdig, sum>>
       ELSE Judge(FALSE)
    /\ UNCHANGED <<digestOnly, events>>

\* The named streams, then the EAs, both opened by name.
DigestAux ==
    /\ st = "digest" /\ dg.at \in {"streams", "eas"}
    /\ IF There
       THEN /\ dg' = IF dg.at = "streams"
                     THEN [dg EXCEPT !.at = "eas",
                            !.streams = IF ReadsStreams(dg.side) THEN Named.streams ELSE 0]
                     ELSE [dg EXCEPT !.at = "after",
                            !.eas = IF ReadsEas(dg.side) THEN Named.eas ELSE 0]
            /\ UNCHANGED <<st, pair, held, sdig, sum>>
       ELSE Judge(FALSE)
    /\ UNCHANGED <<digestOnly, events>>

Digested == [data |-> dg.data, streams |-> dg.streams, eas |-> dg.eas]

\* Mutant: the name may lead to another object of that size.
NameUnchanged_SizeOnly == There /\ Stat(Named).size = dg.before.size

NameUnchanged == There /\ Stat(Named) = dg.before

\* metadata_at after must be what it was before; then the source's digest waits
\* for the destination's.
DigestEnds ==
    /\ st = "digest" /\ dg.at = "after"
    /\ IF NameUnchanged
       THEN IF dg.side = "src"
            THEN /\ sdig' = Digested
                 /\ dg' = Digest("dst", pair.dst)
                 /\ UNCHANGED <<st, pair, held, sum>>
            ELSE dg' = [dg EXCEPT !.at = "done"] /\ UNCHANGED <<st, pair, held, sdig, sum>>
       ELSE Judge(FALSE)
    /\ UNCHANGED <<digestOnly, events>>

\* verify_file_pair's comparison; for a file of this run the expected values are
\* the ones captured while copying, and the metadata is read now.
Compare ==
    /\ st = "digest" /\ dg.at = "done"
    /\ Judge(/\ Digested = sdig
             /\ mode = "copied" => /\ There
                                   /\ MetadataEqual(Object("src", pair.src), Named))
    /\ UNCHANGED <<digestOnly, events>>

\* verify_written_targets: the next file written by this run.  Its expected
\* digests are of the source as it was copied.
NextTarget(p) ==
    /\ st = "targets" /\ p \in entries
    /\ entries' = entries \ {p}
    /\ LET s == Object("src", p)
       IN  sdig' = [data |-> s.data,
                    streams |-> IF ReadsStreams("src") THEN s.streams ELSE 0,
                    eas |-> IF ReadsEas("src") THEN s.eas ELSE 0]
    /\ pair' = [src |-> p, dst |-> p, ok |-> None]
    /\ dg' = Digest("dst", p)
    /\ versions' = [src |-> Now("src", p), dst |-> Now("dst", p)]
    /\ st' = "digest"
    /\ UNCHANGED <<fixed, tree, tasks, cur, dmap, keys, held, sum, events>>

Finished ==
    /\ \/ st = "walk" /\ tasks = << >>
       \/ st = "targets" /\ entries = {}
    /\ st' = "done"
    /\ UNCHANGED <<fixed, tree, walkVars, pair, dg, held, sdig, sum, versions, events>>

-----------------------------------------------------------------------------
(* Other programs.  Most damaged trees are left alone, to keep the state space
   small; in the read-back of a run's own files the source no longer matters. *)

Changing(side, path) ==
    /\ st \notin {"done", "error"}
    /\ damage \in {"none", "stream", "content"}
    /\ mode = "copied" => side = "dst"
    /\ Event
    /\ path \in DOMAIN tree[side] /\ Object(side, path).kind = "file"

\* A file was changed to o while the pair that it is of is compared.
Becomes(side, path, o) ==
    /\ tree' = [tree EXCEPT ![side][path] = o]
    /\ versions' = IF pair[side] = path
                   THEN [versions EXCEPT ![side] = @ \union {Content(o)}] ELSE versions
    /\ UNCHANGED <<fixed, st, walkVars, pair, dg, sdig, sum>>

\* A write moves the last-write time.
WriteFile(side, path) ==
    /\ Changing(side, path)
    /\ \/ \E i \in DOMAIN Object(side, path).data :
            Becomes(side, path, [Object(side, path) EXCEPT !.data[i] = 7, !.mtime = @ + 5])
       \/ Becomes(side, path, [Object(side, path) EXCEPT !.streams = 7, !.mtime = @ + 5])
    /\ UNCHANGED held

\* Another object with the same size and time takes the name; an open handle
\* keeps the old one.
SwapFile(side, path) ==
    /\ Changing(side, path)
    /\ LET o == Object(side, path)
       IN  Becomes(side, path, [o EXCEPT !.id = @ + 1, !.streams = 8,
                                         !.data = [i \in DOMAIN o.data |-> 8]])
    /\ held' = IF dg.side = side /\ dg.path = path /\ dg.at = "read"
               THEN Object(side, path) ELSE held

RemoveFile(side, path) ==
    /\ Changing(side, path)
    /\ tree' = [tree EXCEPT ![side] = Restrict(@, DOMAIN @ \ {path})]
    /\ held' = IF dg.side = side /\ dg.path = path /\ dg.at = "read"
               THEN Object(side, path) ELSE held
    /\ UNCHANGED <<fixed, st, walkVars, pair, dg, sdig, sum, versions>>

Init ==
    /\ policy \in Policies
    /\ damage \in Damages
    /\ mode \in Modes
    /\ \E t \in Times, up \in BOOLEAN :
        LET s == SourceTree(policy, t)
        IN  tree = [src |-> IF damage = "clash" THEN With(s, <<"A">>, s[<<"a">>]) ELSE s,
                    dst |-> Damaged([p \in DOMAIN s |-> CopyOf(s[p], policy, up)],
                                    damage, policy)]
    /\ st = IF mode = "full" THEN "root" ELSE "targets"
    /\ entries = IF mode = "full" THEN {}
                 ELSE {p \in DOMAIN tree["src"] : tree["src"][p].kind = "file"}
    /\ tasks = << >> /\ cur = None /\ dmap = << >> /\ keys = {}
    /\ pair = NoPair /\ dg = NoDigest /\ held = None /\ sdig = None
    /\ sum = [passed |-> 0, failed |-> 0]
    /\ versions = [src |-> {}, dst |-> {}]
    /\ events = 0

Ended == st \in {"done", "error"} /\ UNCHANGED vars

Next ==
    \/ VerifyRoot \/ Enumerate \/ Extras \/ Finished \/ Ended
    \/ (\E e \in entries : MatchEntry(e) \/ NextTarget(e))
    \/ DigestFails \/ DigestOpens \/ DigestReads \/ DigestChecks \/ DigestAux
    \/ DigestEnds \/ Compare
    \/ \E side \in Sides : \E path \in DOMAIN tree[side] :
        WriteFile(side, path) \/ SwapFile(side, path) \/ RemoveFile(side, path)

Spec == Init /\ [][Next]_vars

-----------------------------------------------------------------------------
(* Properties. *)

\* The reference: what a copy is expected to have carried over is there.  Only
\* what the destination can hold counts, and times count up to the rounding of
\* its file system.
Sound(p) ==
    LET s == tree["src"][p]
        d == tree["dst"][p]
        q == LastWriteQuantum(policy.fs)
    IN  /\ p \in DOMAIN tree["dst"]
        /\ s.kind = d.kind /\ s.data = d.data /\ s.link = d.link
        /\ policy.streams => d.streams = s.streams
        /\ policy.eas => d.eas = s.eas
        /\ d.mtime \in {Stored(s.mtime, q, up) : up \in BOOLEAN}
        /\ BasicIsProjected \/
            /\ d.ctime \in {Stored(s.ctime, CreationQuantum(policy.fs), up) : up \in BOOLEAN}
            /\ s.attrs \intersect AttributeMask = d.attrs \intersect AttributeMask

\* Without changes and failed reads the verification passes, object by object,
\* exactly if the destination is what the copy left there: every rounding of a
\* time is accepted, every damage is found, and nothing extra is overlooked
\* (run_standalone_verify, verify_written_targets, timestamp_equal).
VerdictIsRight ==
    st = "done" /\ events = 0 =>
        LET paths == IF mode = "full" THEN DOMAIN tree["src"]
                     ELSE {p \in DOMAIN tree["src"] : tree["src"][p].kind = "file"}
            right == /\ \A p \in paths : Sound(p)
                     /\ mode = "full" => DOMAIN tree["dst"] = DOMAIN tree["src"]
        IN  /\ (sum.failed = 0) <=> right
            /\ right => sum.passed = Cardinality(paths)

\* A file that passes was compared as a whole: a version of the source and a
\* version of the destination that existed while the pair was compared are equal,
\* streams and EAs included, whatever was written or renamed meanwhile
\* (digest_file's and digest_file_streams_and_eas's revalidations).
PassIsWhole ==
    pair.ok = TRUE =>
        \E v \in versions["src"], w \in versions["dst"] :
            /\ v.data = w.data
            /\ policy.streams => w.streams = (IF policy.srcStreams THEN v.streams ELSE 0)
            /\ policy.eas => w.eas = (IF policy.srcEas THEN v.eas ELSE 0)
=============================================================================
