---------------------------- MODULE JournalProofs ----------------------------
(***************************************************************************)
(* Theorems about Journal, for any number of files, temporaries, appends   *)
(* and runs.  The loader is a recursive function; what it yields after     *)
(* each kind of write is proved first, then the inductive invariant IInv.  *)
(***************************************************************************)
EXTENDS Journal, Induction, SequenceTheorems, FiniteSetTheorems, TLAPS

Lines == [event : Events \cup {Junk}, nl : BOOLEAN]

\* A loaded state; a hint is found under its own path.
States == {s \in [resumable : Hints, reclaimable : SUBSET Temps, active_job : Sigs \cup {None}] :
              \A p \in Paths : s.resumable[p] # None => s.resumable[p].path = p}

\* A log: only its last line can lack the newline.
Logs == {l \in Seq(Lines) : \A i \in DOMAIN l : l[i].nl \/ i = Len(l)}

\* The memory is the file's while no job has begun, and a running program's proofs
\* are also the file's.
Shared(t) == \E p \in Paths : /\ resumable[p] # None /\ resumable[p].temp = t
                              /\ Replay(disk).resumable[p] # None
                              /\ Replay(disk).resumable[p].temp = t

Excused == forgotten \cup dropped \cup Replay(disk).reclaimable

Owned == \A t \in parts \ Excused :
            IF phase = "running" THEN Shared(t) ELSE t \in TempsOf(Replay(disk).resumable)

Loaded == phase = "opened" => /\ resumable = Replay(disk).resumable
                              /\ active_job = Replay(disk).active_job

Types == /\ disk \in Logs /\ Memory \in States
         /\ phase \in {"closed", "opened", "running"}
         /\ parts \subseteq used /\ used \subseteq Temps
         /\ may \in [Paths -> SUBSET (Ckpts \cup {None})]
         /\ forgotten \subseteq Temps /\ dropped \subseteq Temps

IInv == /\ Types /\ Loaded /\ Owned
        /\ ReplayIsFaithful /\ MemoryIsFaithful
        /\ (phase = "running") => active_job \in Sigs

-----------------------------------------------------------------------------
(* The loader. *)

Fill(l, n, f) == [i \in 0 .. n |-> IF i = 0 THEN Empty ELSE Applied(f[i - 1], l[i].event)]
Solves(f, l, n) == f = Fill(l, n, f)

\* Two files begin with the same n events.
SameEvents(s, t, n) == \A i \in 1 .. n : s[i].event = t[i].event

\* The recursion of Replay has a solution on every prefix.
LEMMA FillExists ==
  ASSUME NEW l, NEW n \in Nat
  PROVE  \E f : f = Fill(l, n, f)
<1> DEFINE T == {k \in Nat : \E f : f = Fill(l, k, f)}
<1>1. 0 \in T
  <2> DEFINE f == [i \in 0 .. 0 |-> Empty]
  <2>1. f = Fill(l, 0, f)
    BY DEF Fill
  <2> QED BY <2>1
<1>2. ASSUME NEW k \in T PROVE k + 1 \in T
  <2>1. PICK f : f = Fill(l, k, f)
    OBVIOUS
  <2> DEFINE next == Applied(f[k], l[k + 1].event)
             g == [i \in 0 .. k + 1 |-> IF i = k + 1 THEN next ELSE f[i]]
  <2>2. \A i \in 0 .. k : f[i] = IF i = 0 THEN Empty ELSE Applied(f[i - 1], l[i].event)
    BY <2>1 DEF Fill
  <2>3. \A i \in 0 .. k + 1 : g[i] = IF i = 0 THEN Empty ELSE Applied(g[i - 1], l[i].event)
    <3> TAKE i \in 0 .. k + 1
    <3>1. CASE i = k + 1
      <4>1. g[i - 1] = f[k] /\ g[i] = next /\ i # 0
        BY <3>1
      <4> QED BY <4>1, <3>1
    <3>2. CASE i # k + 1
      <4>1. i \in 0 .. k /\ g[i] = f[i] /\ (i # 0 => g[i - 1] = f[i - 1])
        BY <3>2
      <4> QED BY <4>1, <2>2
    <3> QED BY <3>1, <3>2
  <2> HIDE DEF next
  <2>4. g = Fill(l, k + 1, g)
    <3>1. g = [i \in 0 .. k + 1 |-> g[i]]
      OBVIOUS
    <3> HIDE DEF g
    <3> QED BY <3>1, <2>3 DEF Fill
  <2> QED BY <2>4
<1>3. T = Nat
  <2> HIDE DEF T
  <2>1. T \in SUBSET Nat
    BY DEF T
  <2> QED BY <1>1, <1>2, <2>1, Induct
<1> QED BY <1>3

\* Replay is the last value of a solution.
LEMMA ReplayFill ==
  ASSUME NEW l, Len(l) \in Nat
  PROVE  \E f : Solves(f, l, Len(l)) /\ Replay(l) = f[Len(l)]
<1> DEFINE f == CHOOSE g : g = Fill(l, Len(l), g)
<1>1. f = Fill(l, Len(l), f)
  BY FillExists
<1>2. Replay(l) = f[Len(l)]
  BY DEF Replay, Fill
<1> QED BY <1>1, <1>2 DEF Solves

\* Solutions for two files whose first m events are the same agree on them.
LEMMA FillAgrees ==
  ASSUME NEW s, NEW t, NEW m \in Nat, NEW n \in Nat, m <= n,
         SameEvents(s, t, m),
         NEW f, NEW g, Solves(f, s, m), Solves(g, t, n)
  PROVE  f[m] = g[m]
<1> DEFINE T == {k \in Nat : k <= m => f[k] = g[k]}
<1>1. 0 \in T
  <2>1. f[0] = Empty /\ g[0] = Empty
    BY DEF Solves, Fill
  <2> QED BY <2>1
<1>2. ASSUME NEW k \in T PROVE k + 1 \in T
  <2> SUFFICES ASSUME k + 1 <= m PROVE f[k + 1] = g[k + 1]
    OBVIOUS
  <2>1. f[k] = g[k] /\ s[k + 1].event = t[k + 1].event
    BY DEF SameEvents
  <2>2. f[k + 1] = Applied(f[k], s[k + 1].event)
    <3>1. k + 1 \in 0 .. m /\ k + 1 # 0 /\ (k + 1) - 1 = k
      OBVIOUS
    <3> QED BY <3>1 DEF Solves, Fill
  <2>3. g[k + 1] = Applied(g[k], t[k + 1].event)
    <3>1. k + 1 \in 0 .. n /\ k + 1 # 0 /\ (k + 1) - 1 = k
      OBVIOUS
    <3> QED BY <3>1 DEF Solves, Fill
  <2> QED BY <2>1, <2>2, <2>3
<1>3. T = Nat
  <2> HIDE DEF T
  <2>1. T \in SUBSET Nat
    BY DEF T
  <2> QED BY <1>1, <1>2, <2>1, Induct
<1> QED BY <1>3

\* Files with the same events load the same state: newlines do not matter.
LEMMA ReplaySame ==
  ASSUME NEW s, NEW t, Len(s) \in Nat, Len(s) = Len(t),
         \A i \in 1 .. Len(s) : s[i].event = t[i].event
  PROVE  Replay(s) = Replay(t)
<1>1. PICK f : Solves(f, s, Len(s)) /\ Replay(s) = f[Len(s)]
  BY ReplayFill
<1>2. PICK g : Solves(g, t, Len(t)) /\ Replay(t) = g[Len(t)]
  BY ReplayFill
<1>3. f[Len(s)] = g[Len(s)]
  <2>1. Len(s) <= Len(s) /\ Solves(f, s, Len(s)) /\ Solves(g, t, Len(s))
    BY <1>1, <1>2
  <2>2. SameEvents(s, t, Len(s))
    BY DEF SameEvents
  <2> QED BY <2>1, <2>2, FillAgrees
<1> QED BY <1>1, <1>2, <1>3

\* One more line applies one more event.
LEMMA ReplayStep ==
  ASSUME NEW s, NEW t, NEW m \in Nat, Len(s) = m, Len(t) = m + 1,
         \A i \in 1 .. m : s[i].event = t[i].event
  PROVE  Replay(t) = Applied(Replay(s), t[m + 1].event)
<1>1. PICK f : Solves(f, s, m) /\ Replay(s) = f[m]
  BY ReplayFill
<1>2. PICK g : Solves(g, t, m + 1) /\ Replay(t) = g[m + 1]
  BY ReplayFill
<1>3. f[m] = g[m]
  <2>1. m + 1 \in Nat /\ m <= m + 1 /\ Solves(f, s, m) /\ Solves(g, t, m + 1)
    BY <1>1, <1>2
  <2>2. SameEvents(s, t, m)
    BY DEF SameEvents
  <2> QED BY <2>1, <2>2, FillAgrees
<1>4. g[m + 1] = Applied(g[m], t[m + 1].event)
  <2>1. m + 1 \in 0 .. m + 1 /\ m + 1 # 0 /\ (m + 1) - 1 = m
    OBVIOUS
  <2> QED BY <1>2, <2>1 DEF Solves, Fill
<1> QED BY <1>1, <1>2, <1>3, <1>4

\* An empty file loads the empty state.
LEMMA ReplayNone == Replay(<<>>) = Empty
<1>1. PICK f : Solves(f, <<>>, 0) /\ Replay(<<>>) = f[0]
  BY ReplayFill
<1>2. f[0] = Empty
  BY <1>1 DEF Solves, Fill
<1> QED BY <1>1, <1>2

LEMMA TempsTyped ==
  ASSUME NEW h \in Hints PROVE TempsOf(h) \subseteq Temps
<1>1. \A p \in Paths : h[p] # None => h[p] \in Ckpts
  BY DEF Hints
<1> QED BY <1>1 DEF TempsOf, Ckpts

LEMMA EmptyTyped == Empty \in States
BY DEF Empty, NoHints, States, Hints

\* What an event makes of a loaded state.
LEMMA AppliedJob ==
  ASSUME NEW s \in States, NEW sig \in Sigs
  PROVE  /\ Applied(s, Job(sig)).active_job = sig
         /\ s.active_job \in {None, sig} =>
              /\ Applied(s, Job(sig)).resumable = s.resumable
              /\ Applied(s, Job(sig)).reclaimable = s.reclaimable
         /\ s.active_job \notin {None, sig} =>
              /\ Applied(s, Job(sig)).resumable = NoHints
              /\ Applied(s, Job(sig)).reclaimable = s.reclaimable \cup TempsOf(s.resumable)
         /\ Applied(s, Job(sig)) \in States
<1>1. Job(sig).ev = "job" /\ Job(sig).sig = sig
  BY DEF Job
<1>2. s.resumable \in Hints /\ TempsOf(s.resumable) \subseteq Temps
  BY TempsTyped DEF States
<1>3. NoHints \in Hints /\ \A p \in Paths : NoHints[p] = None
  BY DEF NoHints, Hints
<1> QED BY <1>1, <1>2, <1>3 DEF Applied, States

\* A checkpoint sets the hint of its path.
LEMMA AppliedCheck ==
  ASSUME NEW s \in States, NEW c \in Ckpts
  PROVE  /\ Applied(s, Check(c)) = [s EXCEPT !.resumable[c.path] = c]
         /\ Applied(s, Check(c)) \in States
<1>1. Check(c).ev = "checkpoint" /\ Check(c).ckpt = c
  BY DEF Check
<1>2. c.path \in Paths
  BY DEF Ckpts
<1>3. Applied(s, Check(c)) = [s EXCEPT !.resumable[c.path] = c]
  BY <1>1 DEF Applied
<1>4. [s EXCEPT !.resumable[c.path] = c] \in States
  BY <1>2 DEF States, Hints
<1> QED BY <1>3, <1>4

\* A retirement clears it.
LEMMA AppliedPart ==
  ASSUME NEW s \in States, NEW p \in Paths
  PROVE  /\ Applied(s, PartDone(p)) = [s EXCEPT !.resumable[p] = None]
         /\ Applied(s, PartDone(p)) \in States
<1>1. PartDone(p).ev = "part_done" /\ PartDone(p).path = p
  BY DEF PartDone
<1>2. Applied(s, PartDone(p)) = [s EXCEPT !.resumable[p] = None]
  BY <1>1 DEF Applied
<1>3. [s EXCEPT !.resumable[p] = None] \in States
  BY DEF States, Hints
<1> QED BY <1>2, <1>3

\* Junk and the end of a run change nothing.
LEMMA AppliedRest ==
  ASSUME NEW s PROVE Applied(s, Junk) = s /\ Applied(s, End) = s
BY DEF Applied, Junk, End

LEMMA EventCases ==
  ASSUME NEW e \in Events \cup {Junk}
  PROVE  \/ \E sig \in Sigs : e = Job(sig)
         \/ \E c \in Ckpts : e = Check(c)
         \/ \E p \in Paths : e = PartDone(p)
         \/ e = End \/ e = Junk
BY DEF Events, Job, Check, PartDone, End

\* Every event of the journal keeps the loaded state well formed.
LEMMA AppliedTyped ==
  ASSUME NEW s \in States, NEW e \in Events \cup {Junk}
  PROVE  Applied(s, e) \in States
BY EventCases, AppliedJob, AppliedCheck, AppliedPart, AppliedRest

\* Whatever the file holds, what is loaded from it is well formed.
LEMMA ReplayTyped ==
  ASSUME NEW l \in Seq(Lines)
  PROVE  Replay(l) \in States
<1>1. PICK f : Solves(f, l, Len(l)) /\ Replay(l) = f[Len(l)]
  BY ReplayFill
<1> DEFINE T == {k \in Nat : k <= Len(l) => f[k] \in States}
<1>2. 0 \in T
  <2>1. f[0] = Empty
    BY <1>1 DEF Solves, Fill
  <2> QED BY <2>1, EmptyTyped
<1>3. ASSUME NEW k \in T PROVE k + 1 \in T
  <2> SUFFICES ASSUME k + 1 <= Len(l) PROVE f[k + 1] \in States
    OBVIOUS
  <2>1. f[k] \in States /\ l[k + 1] \in Lines
    OBVIOUS
  <2>2. f[k + 1] = Applied(f[k], l[k + 1].event)
    <3>1. k + 1 \in 0 .. Len(l) /\ k + 1 # 0 /\ (k + 1) - 1 = k
      OBVIOUS
    <3> QED BY <1>1, <3>1 DEF Solves, Fill
  <2>3. l[k + 1].event \in Events \cup {Junk}
    BY <2>1 DEF Lines
  <2> QED BY <2>1, <2>2, <2>3, AppliedTyped
<1>4. T = Nat
  <2> HIDE DEF T
  <2>1. T \in SUBSET Nat
    BY DEF T
  <2> QED BY <1>2, <1>3, <2>1, Induct
<1> QED BY <1>1, <1>4

-----------------------------------------------------------------------------
(* What a write leaves in the file. *)

LEMMA EventsAreEvents ==
  /\ Junk \in Events \cup {Junk} /\ End \in Events
  /\ \A sig \in Sigs : Job(sig) \in Events
  /\ \A c \in Ckpts : Check(c) \in Events
  /\ \A p \in Paths : PartDone(p) \in Events
BY DEF Events, Job, Check, PartDone, End

LEMMA LineFields == \A e, nl : Line(e, nl).event = e /\ Line(e, nl).nl = nl
BY DEF Line

\* A log whose lines are all terminated can be appended to.
LEMMA Extended ==
  ASSUME NEW l \in Seq(Lines), \A i \in DOMAIN l : l[i].nl,
         NEW e \in Events \cup {Junk}, NEW nl \in BOOLEAN
  PROVE  /\ Append(l, Line(e, nl)) \in Logs
         /\ Replay(Append(l, Line(e, nl))) = Applied(Replay(l), e)
<1> DEFINE x == Line(e, nl)
           t == Append(l, x)
<1>1. x \in Lines /\ x.event = e
  BY DEF Line, Lines
<1>2. t \in Seq(Lines) /\ Len(t) = Len(l) + 1 /\ t[Len(l) + 1] = x
      /\ \A i \in 1 .. Len(l) : t[i] = l[i]
  BY <1>1, AppendProperties
<1>3. Len(l) \in Nat /\ DOMAIN l = 1 .. Len(l) /\ DOMAIN t = 1 .. Len(l) + 1
  BY <1>2
<1> HIDE DEF t, x
<1>4. t \in Logs
  <2>1. ASSUME NEW i \in DOMAIN t PROVE t[i].nl \/ i = Len(t)
    <3>1. i \in 1 .. Len(l) \/ i = Len(t)
      BY <1>2, <1>3
    <3>2. CASE i \in 1 .. Len(l)
      BY <1>2, <1>3, <3>2
    <3> QED BY <3>1, <3>2
  <2> QED BY <1>2, <2>1 DEF Logs
<1>5. Replay(t) = Applied(Replay(l), t[Len(l) + 1].event)
  BY <1>2, <1>3, ReplayStep
<1> QED BY <1>1, <1>2, <1>4, <1>5 DEF t, x

LEMMA Terminated ==
  ASSUME NEW r \in Lines
  PROVE  /\ [r EXCEPT !.nl = TRUE] = [event |-> r.event, nl |-> TRUE]
         /\ [event |-> r.event, nl |-> TRUE] \in Lines
<1>1. PICK e \in Events \cup {Junk}, b \in BOOLEAN : r = [event |-> e, nl |-> b]
  BY Zenon DEF Lines
<1>2. r.event = e
  BY <1>1
<1>3. \A v : [r EXCEPT !.nl = v] = [event |-> r.event, nl |-> v]
  BY <1>1
<1>4. [event |-> r.event, nl |-> TRUE] \in Lines
  BY <1>2, Zenon DEF Lines
<1> QED BY <1>3, <1>4, Zenon

\* Healing terminates the last line and changes no event.
LEMMA HealedLog ==
  ASSUME NEW l \in Logs
  PROVE  /\ Healed(l) \in Logs /\ \A i \in DOMAIN Healed(l) : Healed(l)[i].nl
         /\ Replay(Healed(l)) = Replay(l)
<1>1. CASE l = <<>>
  BY <1>1 DEF Healed, Logs
<1>2. CASE l # <<>>
  <2> DEFINE n == Len(l)
             x == [event |-> l[n].event, nl |-> TRUE]
             h == [l EXCEPT ![n].nl = TRUE]
  <2>1. l \in Seq(Lines) /\ n \in 1 .. Len(l) /\ n \in Nat /\ DOMAIN l = 1 .. n /\ l[n] \in Lines
    BY <1>2 DEF Logs
  <2>2. h = [l EXCEPT ![n] = x] /\ x \in Lines /\ x.event = l[n].event /\ x.nl = TRUE
    <3>1. [l[n] EXCEPT !.nl = TRUE] = x /\ x \in Lines
      BY <2>1, Terminated DEF n
    <3> QED BY <3>1
  <2> HIDE DEF n, x, h
  <2>3. h \in Seq(Lines) /\ Len(h) = n /\ h[n] = x /\ \A i \in 1 .. n : i # n => h[i] = l[i]
    <3>1. h = [l EXCEPT ![n] = x] /\ n \in 1 .. Len(l) /\ l \in Seq(Lines) /\ x \in Lines
      BY <2>1, <2>2
    <3>2. h \in Seq(Lines) /\ Len(h) = Len(l)
      BY <3>1, ExceptSeq
    <3>3. n = Len(l)
      BY DEF n
    <3>4. DOMAIN l = 1 .. n
      BY <2>1
    <3> QED BY <3>1, <3>2, <3>3, <3>4
  <2>4. Healed(l) = h
    BY <1>2 DEF Healed, h, n
  <2>5. DOMAIN h = 1 .. n
    BY <2>3
  <2>6. \A i \in 1 .. n : h[i].nl
    <3>1. ASSUME NEW i \in 1 .. n PROVE h[i].nl
      <4>1. CASE i = n
        BY <4>1, <2>2, <2>3
      <4>2. CASE i # n
        <5>1. l[i].nl \/ i = Len(l)
          BY <2>1 DEF Logs
        <5> QED BY <5>1, <4>2, <2>3 DEF n
      <4> QED BY <4>1, <4>2
    <3> QED BY <3>1
  <2>7. Replay(h) = Replay(l)
    <3>1. \A i \in 1 .. Len(l) : h[i].event = l[i].event
      BY <2>2, <2>3 DEF n
    <3> QED BY <3>1, <2>1, <2>3, ReplaySame DEF n
  <2> QED BY <2>3, <2>4, <2>5, <2>6, <2>7 DEF Logs
<1> QED BY <1>1, <1>2

\* A healed log takes a record of its own line.
LEMMA WrittenHealed ==
  ASSUME NEW l \in Logs, NEW e \in Events \cup {Junk}, NEW nl \in BOOLEAN
  PROVE  /\ Written(Healed(l), e, nl) \in Logs
         /\ Replay(Written(Healed(l), e, nl)) = Applied(Replay(l), e)
<1>1. /\ Healed(l) \in Seq(Lines) /\ \A i \in DOMAIN Healed(l) : Healed(l)[i].nl
      /\ Replay(Healed(l)) = Replay(l)
  BY HealedLog DEF Logs
<1>2. Written(Healed(l), e, nl) = Append(Healed(l), Line(e, nl))
  <2>1. Healed(l) # <<>> => Len(Healed(l)) \in DOMAIN Healed(l)
    BY <1>1
  <2> QED BY <1>1, <2>1 DEF Written, Last
<1> QED BY <1>1, <1>2, Extended

\* An acknowledged append adds its event.
LEMMA AfterOk ==
  ASSUME IInv, NEW e \in Events, AppendOk(e)
  PROVE  disk' \in Logs /\ Replay(disk)' = Applied(Replay(disk), e)
<1>1. disk \in Logs
  BY DEF IInv, Types
<1>2. disk' = Written(Healed(disk), e, TRUE)
  BY DEF AppendOk
<1>3. Replay(disk') = Applied(Replay(disk), e)
  BY <1>1, <1>2, WrittenHealed
<1> QED BY <1>1, <1>2, <1>3, WrittenHealed

\* A stopped append adds its event or nothing.
LEMMA AfterStop ==
  ASSUME NEW l \in Logs, NEW e \in Events,
         NEW d \in {l, Healed(l), Written(Healed(l), Junk, FALSE),
                    Written(Healed(l), e, FALSE), Written(Healed(l), e, TRUE)}
  PROVE  /\ d \in Logs
         /\ Replay(d) \in {Replay(l), Applied(Replay(l), e)}
<1>1. CASE d \in {l, Healed(l)}
  BY <1>1, HealedLog
<1>2. CASE d = Written(Healed(l), Junk, FALSE)
  <2>1. d \in Logs /\ Replay(d) = Applied(Replay(l), Junk)
    BY <1>2, WrittenHealed
  <2> QED BY <2>1, AppliedRest
<1>3. CASE \E nl \in BOOLEAN : d = Written(Healed(l), e, nl)
  BY <1>3, WrittenHealed
<1> QED BY <1>1, <1>2, <1>3

\* Cutting a torn tail off changes no event.
LEMMA TruncatedLog ==
  ASSUME NEW l \in Logs
  PROVE  Truncated(l) \in Logs /\ Replay(Truncated(l)) = Replay(l)
<1>1. CASE ~TornTail(l)
  BY <1>1 DEF Truncated
<1>2. CASE TornTail(l)
  <2> DEFINE n == Len(l) - 1
             f == SubSeq(l, 1, n)
  <2>1. l \in Seq(Lines) /\ l # <<>> /\ l[n + 1].event = Junk
    BY <1>2 DEF TornTail, Last, Logs
  <2>2. n \in Nat /\ Len(l) = n + 1
    BY <2>1
  <2>3. f \in Seq(Lines) /\ Len(f) = n /\ \A i \in 1 .. n : f[i] = l[i]
    BY <2>1, <2>2
  <2>4. Truncated(l) = f
    BY <1>2 DEF Truncated, Front
  <2> HIDE DEF n, f
  <2>5. \A i \in DOMAIN f : f[i].nl
    <3>1. ASSUME NEW i \in DOMAIN f PROVE f[i].nl
      <4>1. i \in 1 .. n /\ i \in DOMAIN l /\ i # Len(l)
        BY <2>1, <2>2, <2>3
      <4>2. l[i].nl
        BY <4>1 DEF Logs
      <4> QED BY <4>1, <4>2, <2>3
    <3> QED BY <3>1
  <2>6. Replay(l) = Applied(Replay(f), l[n + 1].event)
    BY <2>2, <2>3, ReplayStep
  <2> QED BY <2>1, <2>3, <2>4, <2>5, <2>6, AppliedRest DEF Logs
<1> QED BY <1>1, <1>2

\* SetToSeq lists a finite set: every element at some index.
LEMMA Listed ==
  ASSUME NEW S, IsFiniteSet(S)
  PROVE  \E n \in Nat : /\ SetToSeq(S) \in [1 .. n -> S]
                        /\ \A x \in S : \E i \in 1 .. n : SetToSeq(S)[i] = x
<1> DEFINE n == Cardinality(S)
<1>1. n \in Nat /\ ExistsBijection(1 .. n, S)
  BY FS_CardinalityType
<1>2. PICK b : b \in [1 .. n -> S] /\ IsInjective(b)
  <2>1. PICK b \in Bijection(1 .. n, S) : TRUE
    BY <1>1 DEF ExistsBijection
  <2> QED BY <2>1 DEF Bijection, Injection, IsInjective
<1>3. SetToSeq(S) \in [1 .. n -> S] /\ IsInjective(SetToSeq(S))
  BY <1>2 DEF SetToSeq
<1>4. SetToSeq(S) \in Injection(1 .. n, S)
  BY <1>3 DEF Injection, IsInjective
<1>5. Cardinality(1 .. n) = n
  BY <1>1, FS_Interval
<1>6. SetToSeq(S) \in Surjection(1 .. n, S)
  BY <1>4, <1>5, FS_Injection
<1> QED BY <1>1, <1>3, <1>6 DEF Surjection

\* The compacted file loads the running job and its hints, and no other proof.
LEMMA CompactedLog ==
  ASSUME Memory \in States, active_job \in Sigs
  PROVE  /\ Compacted \in Logs
         /\ Replay(Compacted) = [Memory EXCEPT !.reclaimable = {}]
<1> DEFINE L == {p \in Paths : resumable[p] # None}
           live == SetToSeq(L)
           J == Line(Job(active_job), TRUE)
           F == [i \in DOMAIN live |-> Line(Check(resumable[live[i]]), TRUE)]
           C == <<J>> \o F
<1>1. Compacted = C
  BY DEF Compacted
<1>2. IsFiniteSet(L)
  BY JournalAssumption, FS_Subset
<1>3. PICK n \in Nat : /\ live \in [1 .. n -> L]
                       /\ \A x \in L : \E i \in 1 .. n : live[i] = x
  BY <1>2, Listed
<1>4. resumable \in Hints /\ \A p \in Paths : resumable[p] # None => resumable[p].path = p
  BY DEF Memory, States
<1>5. \A p \in L : p \in Paths /\ resumable[p] \in Ckpts /\ resumable[p].path = p
  BY <1>4 DEF Hints
<1> HIDE DEF L, live
<1>6. \A i \in 1 .. n : F[i] = Line(Check(resumable[live[i]]), TRUE) /\ live[i] \in L
  BY <1>3
<1>7. DOMAIN F = 1 .. n
  BY <1>3
<1>8. J \in Lines /\ J.event = Job(active_job) /\ J.nl = TRUE
  BY EventsAreEvents, LineFields, Zenon DEF Line, Lines
<1>9. \A i \in 1 .. n : /\ F[i] \in Lines /\ F[i].nl = TRUE
                        /\ F[i].event = Check(resumable[live[i]])
  <2> TAKE i \in 1 .. n
  <2>1. Check(resumable[live[i]]) \in Events
    BY <1>5, <1>6, EventsAreEvents
  <2>2. Line(Check(resumable[live[i]]), TRUE) \in Lines
    BY <2>1, Zenon DEF Line, Lines
  <2>4. F[i] = Line(Check(resumable[live[i]]), TRUE)
    BY <1>6
  <2> HIDE DEF F
  <2>3. F[i].nl = TRUE /\ F[i].event = Check(resumable[live[i]])
    BY <2>4, LineFields, Zenon
  <2> QED BY <1>6, <2>2, <2>3
<1>10. F = [i \in 1 .. n |-> F[i]]
  BY <1>7
<1> HIDE DEF F, J
<1>11. F \in Seq(Lines) /\ Len(F) = n
  <2>1. F \in [1 .. n -> Lines]
    BY <1>9, <1>10
  <2> QED BY <2>1
<1>12. <<J>> \in Seq(Lines) /\ Len(<<J>>) = 1 /\ <<J>>[1] = J
  BY <1>8
<1>13. /\ C \in Seq(Lines) /\ Len(C) = n + 1 /\ C[1] = J
       /\ \A i \in 1 .. n : C[i + 1] = F[i]
  <2>1. /\ C \in Seq(Lines) /\ Len(C) = 1 + n
        /\ \A i \in 1 .. 1 + n : C[i] = IF i <= 1 THEN <<J>>[i] ELSE F[i - 1]
    BY <1>11, <1>12, ConcatProperties
  <2> QED BY <2>1, <1>12
<1> HIDE DEF C
<1>14. \A i \in DOMAIN C : C[i].nl
  <2> SUFFICES ASSUME NEW i \in 1 .. n + 1 PROVE C[i].nl
    BY <1>13
  <2>1. CASE i = 1
    BY <2>1, <1>8, <1>13
  <2>2. CASE i # 1
    <3>1. i - 1 \in 1 .. n /\ C[(i - 1) + 1] = F[i - 1] /\ (i - 1) + 1 = i
      BY <2>2, <1>13
    <3> QED BY <3>1, <1>9
  <2> QED BY <2>1, <2>2
<1> DEFINE Part(k) == [resumable |-> [p \in Paths |-> IF \E i \in 1 .. k : live[i] = p
                                                     THEN resumable[p] ELSE None],
                       reclaimable |-> {}, active_job |-> active_job]
           T == {k \in Nat : k <= n => Replay(SubSeq(C, 1, k + 1)) = Part(k)}
<1>15. 0 \in T
  <2> DEFINE s == SubSeq(C, 1, 1)
  <2>1. Len(s) = 1 /\ s[1] = J
    BY <1>13
  <2> HIDE DEF s
  <2>2. Replay(s) = Applied(Replay(<<>>), s[0 + 1].event)
    <3>1. 0 \in Nat /\ Len(<<>>) = 0 /\ Len(s) = 0 + 1 /\ SameEvents(<<>>, s, 0)
      BY <2>1 DEF SameEvents
    <3> QED BY <3>1, ReplayStep DEF SameEvents
  <2>3. Replay(s) = Applied(Empty, Job(active_job))
    BY <2>1, <2>2, <1>8, ReplayNone
  <2>4. /\ Replay(s).active_job = active_job /\ Replay(s).resumable = NoHints
        /\ Replay(s).reclaimable = {} /\ Replay(s) \in States
    <3>1. /\ Empty.active_job = None /\ Empty.resumable = NoHints
          /\ Empty.reclaimable = {}
      BY DEF Empty
    <3>2. /\ Applied(Empty, Job(active_job)).active_job = active_job
          /\ Applied(Empty, Job(active_job)).resumable = Empty.resumable
          /\ Applied(Empty, Job(active_job)).reclaimable = Empty.reclaimable
          /\ Applied(Empty, Job(active_job)) \in States
      BY <3>1, EmptyTyped, AppliedJob
    <3> QED BY <2>3, <3>1, <3>2
  <2>5. [p \in Paths |-> IF \E i \in 1 .. 0 : live[i] = p THEN resumable[p] ELSE None] = NoHints
    BY DEF NoHints
  <2>6. Replay(s) = Part(0)
    BY <2>4, <2>5 DEF States
  <2> QED BY <2>6 DEF s
<1>16. ASSUME NEW k \in T PROVE k + 1 \in T
  <2> SUFFICES ASSUME k + 1 <= n PROVE Replay(SubSeq(C, 1, (k + 1) + 1)) = Part(k + 1)
    OBVIOUS
  <2> DEFINE s == SubSeq(C, 1, k + 1)
             t == SubSeq(C, 1, (k + 1) + 1)
             c == resumable[live[k + 1]]
  <2>1. Len(s) = k + 1 /\ Len(t) = (k + 1) + 1 /\ \A i \in 1 .. k + 1 : s[i] = t[i]
    BY <1>13
  <2>2. t[(k + 1) + 1] = F[k + 1]
    BY <1>13
  <2>3. Replay(s) = Part(k)
    OBVIOUS
  <2>4. k + 1 \in 1 .. n /\ c \in Ckpts /\ c.path = live[k + 1] /\ live[k + 1] \in Paths
    <3>1. k + 1 \in 1 .. n
      OBVIOUS
    <3>2. live[k + 1] \in L
      BY <1>6, <3>1
    <3> QED BY <1>5, <3>1, <3>2
  <2> HIDE DEF s, t
  <2>5. Replay(t) = Applied(Replay(s), t[(k + 1) + 1].event)
    BY <2>1, ReplayStep
  <2>6. t[(k + 1) + 1].event = Check(c)
    BY <2>2, <2>4, <1>9
  <2>7. Part(k) \in States
    <3>1. \A p \in Paths : Part(k).resumable[p] \in {resumable[p], None}
      OBVIOUS
    <3>2. Part(k).resumable \in Hints
      BY <1>4 DEF Hints
    <3>3. Part(k).reclaimable = {} /\ Part(k).active_job = active_job
      OBVIOUS
    <3> QED BY <1>4, <3>1, <3>2, <3>3 DEF States
  <2>8. Replay(t) = [Part(k) EXCEPT !.resumable[live[k + 1]] = c]
    BY <2>3, <2>4, <2>5, <2>6, <2>7, AppliedCheck
  <2>9. [Part(k).resumable EXCEPT ![live[k + 1]] = c] = Part(k + 1).resumable
    <3>1. \A p \in Paths : (\E i \in 1 .. k + 1 : live[i] = p)
                           <=> ((\E i \in 1 .. k : live[i] = p) \/ p = live[k + 1])
      <4>1. 1 .. k + 1 = (1 .. k) \cup {k + 1}
        OBVIOUS
      <4> QED BY <4>1
    <3>2. \A p \in Paths : Part(k + 1).resumable[p] =
             IF p = live[k + 1] THEN c ELSE Part(k).resumable[p]
      BY <3>1
    <3> QED BY <3>2
  <2>10. Replay(t) = Part(k + 1)
    BY <2>8, <2>9
  <2> QED BY <2>10 DEF t
<1>17. T = Nat
  <2> HIDE DEF T
  <2>1. T \in SUBSET Nat
    BY DEF T
  <2> QED BY <1>15, <1>16, <2>1, Induct
<1>18. Replay(SubSeq(C, 1, n + 1)) = Part(n)
  <2>1. n \in T
    BY <1>17
  <2> HIDE DEF Part
  <2> QED BY <2>1
<1>19. SubSeq(C, 1, n + 1) = C
  BY <1>13
<1>20. Part(n).resumable = resumable
  <2>1. \A p \in Paths : resumable[p] # None => \E i \in 1 .. n : live[i] = p
    BY <1>3 DEF L
  <2>2. \A p \in Paths : Part(n).resumable[p] = resumable[p]
    BY <2>1
  <2> QED BY <2>2, <1>4 DEF Hints
<1>21. Part(n) = [Memory EXCEPT !.reclaimable = {}]
  <2>1. [Memory EXCEPT !.reclaimable = {}] =
          [resumable |-> resumable, reclaimable |-> {}, active_job |-> active_job]
    BY DEF Memory
  <2>2. Part(n) = [resumable |-> Part(n).resumable, reclaimable |-> {}, active_job |-> active_job]
    OBVIOUS
  <2> HIDE DEF Part
  <2> QED BY <1>20, <2>1, <2>2
<1> QED BY <1>1, <1>13, <1>14, <1>18, <1>19, <1>21 DEF Logs

-----------------------------------------------------------------------------
(* Every action preserves the invariant. *)

LEMMA Start == Init => IInv
<1> SUFFICES ASSUME Init PROVE IInv
  OBVIOUS
<1>1. disk = <<>> /\ disk \in Logs /\ Replay(disk) = Empty
  BY ReplayNone DEF Init, Logs
<1>2. Memory \in States
  BY DEF Init, Memory, NoHints, States, Hints
<1>3. Types
  BY <1>1, <1>2 DEF Init, Types
<1>4. ReplayIsFaithful
  BY <1>1 DEF Init, ReplayIsFaithful, Empty, NoHints
<1> QED BY <1>3, <1>4 DEF Init, IInv, Loaded, Owned, MemoryIsFaithful

LEMMA Loadable == IInv => disk \in Logs /\ Replay(disk) \in States
BY ReplayTyped DEF IInv, Types, Logs

\* The paths whose value an event changes, and the value.
LEMMA Effect ==
  ASSUME IInv, NEW e \in Events
  PROVE  /\ Touched(e) \subseteq Paths /\ Value(e) \in Ckpts \cup {None}
         /\ \A p \in Paths : Applied(Replay(disk), e).resumable[p] =
               IF p \in Touched(e) THEN Value(e) ELSE Replay(disk).resumable[p]
<1> DEFINE s == Replay(disk)
<1>1. s \in States
  BY Loadable
<1>2. s.resumable \in Hints
  BY <1>1 DEF States
<1> HIDE DEF s
<1>3. ASSUME NEW sig \in Sigs, e = Job(sig) PROVE
         /\ Value(e) = None
         /\ Touched(e) = IF sig # s.active_job /\ s.active_job # None THEN Paths ELSE {}
  BY <1>3 DEF Job, Value, Touched, s
<1>4. ASSUME NEW c \in Ckpts, e = Check(c) PROVE Value(e) = c /\ Touched(e) = {c.path}
  BY <1>4 DEF Check, Value, Touched
<1>5. ASSUME NEW p \in Paths, e = PartDone(p) PROVE Value(e) = None /\ Touched(e) = {p}
  BY <1>5 DEF PartDone, Value, Touched
<1>6. ASSUME e = End PROVE Value(e) = None /\ Touched(e) = {}
  BY <1>6 DEF End, Value, Touched
<1>7. Junk \notin Events
  BY DEF Junk, Events
<1>8. CASE \E sig \in Sigs : e = Job(sig)
  <2>1. PICK sig \in Sigs : e = Job(sig)
    BY <1>8
  <2>2. CASE s.active_job \in {None, sig}
    BY <2>1, <2>2, <1>1, <1>3, AppliedJob DEF s
  <2>3. CASE s.active_job \notin {None, sig}
    BY <2>1, <2>3, <1>1, <1>3, AppliedJob DEF s, NoHints
  <2> QED BY <2>2, <2>3
<1>9. CASE \E c \in Ckpts : e = Check(c)
  <2>1. PICK c \in Ckpts : e = Check(c)
    BY <1>9
  <2>2. c.path \in Paths
    BY DEF Ckpts
  <2>3. Applied(s, e).resumable = [s.resumable EXCEPT ![c.path] = c]
    BY <2>1, <1>1, AppliedCheck DEF States
  <2> QED BY <2>1, <2>2, <2>3, <1>2, <1>4 DEF s, Hints
<1>10. CASE \E p \in Paths : e = PartDone(p)
  <2>1. PICK p \in Paths : e = PartDone(p)
    BY <1>10
  <2>3. Applied(s, e).resumable = [s.resumable EXCEPT ![p] = None]
    BY <2>1, <1>1, AppliedPart DEF States
  <2> QED BY <2>1, <2>3, <1>2, <1>5 DEF s, Hints
<1>11. CASE e = End
  BY <1>6, <1>11, AppliedRest DEF s
<1> QED BY <1>7, <1>8, <1>9, <1>10, <1>11, EventCases

\* An acknowledged append: the file yields its value and no other.
LEMMA OkFaithful ==
  ASSUME IInv, NEW e \in Events, AppendOk(e)
  PROVE  /\ disk' \in Logs /\ Replay(disk') = Applied(Replay(disk), e)
         /\ may' \in [Paths -> SUBSET (Ckpts \cup {None})]
         /\ ReplayIsFaithful'
<1>1. disk \in Logs /\ may \in [Paths -> SUBSET (Ckpts \cup {None})]
  BY DEF IInv, Types
<1>2. disk' = Written(Healed(disk), e, TRUE)
  BY DEF AppendOk
<1>3. disk' \in Logs /\ Replay(disk') = Applied(Replay(disk), e)
  BY <1>1, <1>2, WrittenHealed
<1>4. may' = [p \in Paths |-> IF p \in Touched(e) THEN {Value(e)} ELSE may[p]]
  BY DEF AppendOk, Becomes
<1>5. may' \in [Paths -> SUBSET (Ckpts \cup {None})]
  BY <1>1, <1>4, Effect
<1>6. \A p \in Paths : Replay(disk').resumable[p] \in may'[p]
  BY <1>3, <1>4, Effect DEF IInv, ReplayIsFaithful
<1> QED BY <1>3, <1>5, <1>6 DEF ReplayIsFaithful

\* A stopped append: the file yields its value or the one before.
LEMMA StopFaithful ==
  ASSUME IInv, NEW e \in Events, MayBecome(e),
         disk' \in Stopped(e) \cup {Written(Healed(disk), e, TRUE)}
  PROVE  /\ disk' \in Logs
         /\ Replay(disk') \in {Replay(disk), Applied(Replay(disk), e)}
         /\ may' \in [Paths -> SUBSET (Ckpts \cup {None})]
         /\ \A p \in Paths : may[p] \subseteq may'[p]
         /\ ReplayIsFaithful'
<1>1. disk \in Logs /\ may \in [Paths -> SUBSET (Ckpts \cup {None})]
  BY DEF IInv, Types
<1>2. disk' \in {disk, Healed(disk), Written(Healed(disk), Junk, FALSE),
                 Written(Healed(disk), e, FALSE), Written(Healed(disk), e, TRUE)}
  BY DEF Stopped
<1>3. disk' \in Logs /\ Replay(disk') \in {Replay(disk), Applied(Replay(disk), e)}
  BY <1>1, <1>2, AfterStop
<1>4. may' = [p \in Paths |-> IF p \in Touched(e) THEN may[p] \cup {Value(e)} ELSE may[p]]
  BY DEF MayBecome
<1>5. /\ may' \in [Paths -> SUBSET (Ckpts \cup {None})]
      /\ \A p \in Paths : may[p] \subseteq may'[p]
  BY <1>1, <1>4, Effect
<1>6. \A p \in Paths : Replay(disk').resumable[p] \in may'[p]
  BY <1>3, <1>4, Effect DEF IInv, ReplayIsFaithful
<1> QED BY <1>3, <1>5, <1>6 DEF ReplayIsFaithful

\* The file as it stands proves what is kept.
Proves(log, kept) == \A t \in kept : t \in Replay(log).reclaimable \cup TempsOf(Replay(log).resumable)

\* The journal closes in a well-formed state that proves what is kept.
LEMMA Closing ==
  ASSUME IInv, Closed, disk' \in Logs, ReplayIsFaithful',
         may' \in [Paths -> SUBSET (Ckpts \cup {None})],
         parts' \subseteq used', used' \subseteq Temps,
         forgotten' \subseteq Temps, dropped' \subseteq Temps,
         Proves(disk', parts' \ (forgotten' \cup dropped'))
  PROVE  IInv'
<1>1. /\ phase' = "closed" /\ resumable' = NoHints /\ reclaimable' = {} /\ active_job' = None
  BY DEF Closed, Load, Empty
<1>2. Memory' \in States
  BY <1>1 DEF Memory, States, Hints, NoHints
<1>3. Types'
  BY <1>1, <1>2 DEF Types
<1>4. Owned'
  BY <1>1 DEF Proves, Owned, Excused
<1>5. Loaded' /\ MemoryIsFaithful' /\ (phase' = "running" => active_job' \in Sigs)
  BY <1>1 DEF Loaded, MemoryIsFaithful
<1> QED BY <1>3, <1>4, <1>5 DEF IInv

\* The invariant says as much of the file before.
LEMMA Proved == IInv => Proves(disk, parts \ (forgotten \cup dropped))
<1> SUFFICES ASSUME IInv, NEW t \in parts \ (forgotten \cup dropped),
                    t \notin Replay(disk).reclaimable
             PROVE  t \in TempsOf(Replay(disk).resumable)
  BY DEF Proves
<1>1. IF phase = "running" THEN Shared(t) ELSE t \in TempsOf(Replay(disk).resumable)
  BY DEF IInv, Owned, Excused
<1> QED BY <1>1 DEF Shared, TempsOf

LEMMA OpenInv == IInv /\ Open => IInv'
<1> SUFFICES ASSUME IInv, Open PROVE IInv'
  OBVIOUS
<1>1. disk' \in Logs /\ Replay(disk') = Replay(disk) /\ Replay(disk) \in States
  BY Loadable, TruncatedLog DEF Open
<1>2. /\ phase' = "opened" /\ resumable' = Replay(disk).resumable
      /\ reclaimable' = Replay(disk).reclaimable /\ active_job' = Replay(disk).active_job
      /\ UNCHANGED <<parts, used, may, forgotten, dropped>> /\ phase = "closed"
  BY DEF Open, Load, lossVars
<1>3. Memory' \in States
  BY <1>1, <1>2 DEF Memory, States
<1>4. Types'
  BY <1>1, <1>2, <1>3 DEF IInv, Types
<1>5. Owned'
  BY <1>1, <1>2 DEF IInv, Owned, Excused
<1>6. ReplayIsFaithful'
  BY <1>1, <1>2 DEF IInv, ReplayIsFaithful
<1> QED BY <1>1, <1>2, <1>4, <1>5, <1>6 DEF IInv, Loaded, MemoryIsFaithful

LEMMA OpenFreshInv == IInv /\ OpenFresh => IInv'
<1> SUFFICES ASSUME IInv, OpenFresh PROVE IInv'
  OBVIOUS
<1> DEFINE proofs == ProofsOf(Replay(disk))
<1>1. Replay(disk) \in States
  BY Loadable
<1>2. proofs \subseteq Temps
  BY <1>1, TempsTyped DEF States, ProofsOf
<1>3. /\ disk' = <<>> /\ phase' = "opened" /\ may' = [p \in Paths |-> {None}]
      /\ UNCHANGED <<parts, used>> /\ resumable' = NoHints /\ active_job' = None
      /\ \/ reclaimable' = proofs /\ dropped' = dropped \cup proofs /\ forgotten' = forgotten
         \/ reclaimable' = {} /\ forgotten' = forgotten \cup proofs /\ dropped' = dropped
  BY DEF OpenFresh, Load, Empty
<1>4. Proves(disk, parts \ (forgotten \cup dropped))
  BY Proved
<1>5. parts \subseteq proofs \cup forgotten \cup dropped
  BY <1>4 DEF Proves, ProofsOf
<1> HIDE DEF proofs
<1>6. disk' \in Logs /\ Replay(disk') = Empty
  BY <1>3, ReplayNone DEF Logs
<1>7. Memory' \in States
  BY <1>2, <1>3 DEF Memory, States, Hints, NoHints
<1>8. Types'
  BY <1>2, <1>3, <1>6, <1>7 DEF IInv, Types
<1>9. Owned'
  BY <1>3, <1>5 DEF Owned, Excused
<1>10. ReplayIsFaithful' /\ Loaded'
  BY <1>3, <1>6 DEF ReplayIsFaithful, Loaded, Empty, NoHints
<1> QED BY <1>3, <1>8, <1>9, <1>10 DEF IInv, MemoryIsFaithful

\* A job header keeps every proof of the file.
LEMMA JobKeeps ==
  ASSUME NEW s \in States, NEW sig \in Sigs
  PROVE  ProofsOf(Applied(s, Job(sig))) = ProofsOf(s)
<1>1. TempsOf(NoHints) = {}
  BY DEF TempsOf, NoHints
<1> QED BY <1>1, AppliedJob DEF ProofsOf

LEMMA BeginJobInv == ASSUME NEW sig \in Sigs PROVE IInv /\ BeginJob(sig) => IInv'
<1> SUFFICES ASSUME IInv, BeginJob(sig) PROVE IInv'
  OBVIOUS
<1> DEFINE s == Replay(disk)
           e == Job(sig)
<1>1. s \in States /\ e \in Events
  BY Loadable, EventsAreEvents
<1>2. phase = "opened" /\ UNCHANGED <<parts, used, forgotten, dropped>>
  BY DEF BeginJob, lossVars
<1>3. resumable = s.resumable /\ active_job = s.active_job /\ Memory \in States
  BY <1>2 DEF IInv, Loaded, Types
<1>4. \A t \in parts \ (forgotten \cup dropped) : t \in s.reclaimable \cup TempsOf(s.resumable)
  BY Proved DEF Proves
<1>5. /\ parts' \subseteq used' /\ used' \subseteq Temps
      /\ forgotten' \subseteq Temps /\ dropped' \subseteq Temps
  BY <1>2 DEF IInv, Types
<1>6. CASE Interrupted(e)
  <2>1. /\ Closed /\ MayBecome(e)
        /\ disk' \in Stopped(e) \cup {Written(Healed(disk), e, TRUE)}
    BY <1>6 DEF Interrupted
  <2>2. /\ disk' \in Logs /\ Replay(disk') \in {s, Applied(s, e)} /\ ReplayIsFaithful'
        /\ may' \in [Paths -> SUBSET (Ckpts \cup {None})]
    BY <1>1, <2>1, StopFaithful
  <2>3. ProofsOf(Replay(disk')) = ProofsOf(s)
    BY <1>1, <2>2, JobKeeps
  <2>4. Proves(disk', parts' \ (forgotten' \cup dropped'))
    BY <1>2, <1>4, <2>3 DEF Proves, ProofsOf
  <2> QED BY <1>5, <2>1, <2>2, <2>4, Closing
<1>7. CASE AppendOk(e) /\ Load(Begun(sig)) /\ phase' = "running"
  <2>1. /\ disk' \in Logs /\ Replay(disk') = Applied(s, e) /\ ReplayIsFaithful'
        /\ may' \in [Paths -> SUBSET (Ckpts \cup {None})]
    BY <1>1, <1>7, OkFaithful
  <2>2. /\ resumable' = Begun(sig).resumable /\ reclaimable' = Begun(sig).reclaimable
        /\ active_job' = Begun(sig).active_job /\ phase' = "running"
    BY <1>7 DEF Load
  <2>3. NoHints \in Hints /\ ProofsOf(Memory) \subseteq Temps
        /\ resumable \in Hints /\ reclaimable \subseteq Temps
        /\ \A p \in Paths : resumable[p] # None => resumable[p].path = p
    BY <1>3, TempsTyped DEF ProofsOf, States, Memory, Hints, NoHints
  <2>4. /\ active_job' = sig
        /\ active_job \in {None, sig} =>
              resumable' = resumable /\ reclaimable' = reclaimable
        /\ active_job \notin {None, sig} =>
              resumable' = NoHints /\ reclaimable' = ProofsOf(Memory)
    BY <2>2 DEF Begun, Memory
  <2>5. resumable' \in Hints /\ reclaimable' \subseteq Temps
        /\ \A p \in Paths : resumable'[p] # None => resumable'[p].path = p
    BY <2>3, <2>4 DEF NoHints
  <2>6. Memory' \in States
    BY <2>4, <2>5 DEF Memory, States
  <2>7. Types'
    BY <1>5, <2>1, <2>2, <2>6 DEF Types
  <2>8. resumable' = Replay(disk').resumable
    BY <1>1, <1>3, <2>1, <2>4, AppliedJob
  <2>9. ProofsOf(Replay(disk')) = ProofsOf(s)
    BY <1>1, <2>1, JobKeeps
  <2>10. Owned'
    <3> SUFFICES ASSUME NEW t \in parts' \ Excused' PROVE Shared(t)'
      BY <2>2 DEF Owned
    <3>1. t \in TempsOf(Replay(disk').resumable)
      BY <1>2, <1>4, <2>9 DEF Excused, ProofsOf
    <3>2. PICK p \in Paths : Replay(disk').resumable[p] # None /\ Replay(disk').resumable[p].temp = t
      BY <3>1 DEF TempsOf
    <3> QED BY <2>8, <3>2 DEF Shared
  <2>11. MemoryIsFaithful'
    BY <2>1, <2>8 DEF MemoryIsFaithful, ReplayIsFaithful
  <2> QED BY <2>1, <2>2, <2>4, <2>7, <2>10, <2>11 DEF IInv, Loaded
<1> QED BY <1>6, <1>7 DEF BeginJob

\* What a checkpoint leaves of the temporaries is proved by the same hints in the
\* memory and in the file, before and after it.
LEMMA Remaining ==
  ASSUME IInv, phase = "running", NEW c \in Ckpts, NEW left \in SUBSET Superseded(c),
         NEW t \in ((parts \ Superseded(c)) \cup left) \ (left \cup Excused)
  PROVE  \E q \in Paths : /\ resumable[q] # None /\ resumable[q].temp = t
                          /\ Replay(disk).resumable[q] # None
                          /\ Replay(disk).resumable[q].temp = t
                          /\ q = c.path => c.temp = t
<1>1. t \in parts \ Excused /\ t \notin Superseded(c)
  OBVIOUS
<1>2. Shared(t)
  BY <1>1 DEF IInv, Owned
<1>3. PICK q \in Paths : /\ resumable[q] # None /\ resumable[q].temp = t
                         /\ Replay(disk).resumable[q] # None
                         /\ Replay(disk).resumable[q].temp = t
  BY <1>2 DEF Shared
<1>4. q = c.path => c.temp = t
  BY <1>1, <1>3 DEF Superseded
<1> QED BY <1>3, <1>4

LEMMA CheckpointInv == ASSUME NEW p \in Paths PROVE IInv /\ Checkpoint(p) => IInv'
<1> SUFFICES ASSUME IInv, Checkpoint(p) PROVE IInv'
  OBVIOUS
<1>1. PICK c \in NextCkpts(p) :
         /\ phase = "running" /\ UNCHANGED <<runs, dropped>>
         /\ \E left \in SUBSET Superseded(c) :
              LET remaining == (parts \ Superseded(c)) \cup left
              IN  /\ used' = used \cup {c.temp}
                  /\ forgotten' = forgotten \cup left
                  /\ \/ /\ AppendOk(Check(c))
                        /\ resumable' = [resumable EXCEPT ![p] = c]
                        /\ parts' \in {remaining, remaining \cup {c.temp}}
                        /\ UNCHANGED <<phase, reclaimable, active_job>>
                     \/ /\ AppendFails(Check(c))
                        /\ parts' = remaining
                        /\ UNCHANGED <<phase, memVars>>
                     \/ /\ Interrupted(Check(c))
                        /\ parts' = remaining
  BY Zenon DEF Checkpoint
<1>2. PICK left \in SUBSET Superseded(c) :
         /\ used' = used \cup {c.temp}
         /\ forgotten' = forgotten \cup left
         /\ \/ /\ AppendOk(Check(c))
               /\ resumable' = [resumable EXCEPT ![p] = c]
               /\ parts' \in {(parts \ Superseded(c)) \cup left,
                              (parts \ Superseded(c)) \cup left \cup {c.temp}}
               /\ UNCHANGED <<phase, reclaimable, active_job>>
            \/ /\ AppendFails(Check(c))
               /\ parts' = (parts \ Superseded(c)) \cup left
               /\ UNCHANGED <<phase, memVars>>
            \/ /\ Interrupted(Check(c))
               /\ parts' = (parts \ Superseded(c)) \cup left
  BY <1>1, Zenon
<1> DEFINE s == Replay(disk)
           e == Check(c)
           remaining == (parts \ Superseded(c)) \cup left
           cleared == Applied(s, e)
<1>3. c \in Ckpts /\ c.path = p /\ c.temp \in Temps
  BY DEF NextCkpts, Ckpts
<1>4. s \in States /\ e \in Events /\ s.resumable \in Hints
  BY <1>3, Loadable, EventsAreEvents DEF States
<1>5. cleared \in States /\ cleared.reclaimable = s.reclaimable
      /\ cleared.resumable = [s.resumable EXCEPT ![p] = c]
  BY <1>3, <1>4, AppliedCheck DEF States
<1>6. cleared.resumable[p] = c /\ \A q \in Paths \ {p} : cleared.resumable[q] = s.resumable[q]
  BY <1>4, <1>5 DEF Hints
<1>7. c # None
  BY <1>3, JournalAssumption
<1>8. /\ remaining \subseteq used' /\ c.temp \in used' /\ used' \subseteq Temps
      /\ forgotten' \subseteq Temps /\ dropped' = dropped /\ dropped \subseteq Temps
  BY <1>1, <1>2, <1>3 DEF IInv, Types, Superseded
<1>9. \A t \in remaining \ (forgotten' \cup dropped' \cup s.reclaimable) :
         \E q \in Paths : /\ resumable[q] # None /\ resumable[q].temp = t
                          /\ s.resumable[q] # None /\ s.resumable[q].temp = t
                          /\ q = p => c.temp = t
  BY <1>1, <1>2, <1>3, Remaining DEF Excused
<1> HIDE DEF s, e, cleared, remaining
<1>10. \A t \in remaining \ (forgotten' \cup dropped' \cup s.reclaimable) :
         \E q \in Paths : cleared.resumable[q] # None /\ cleared.resumable[q].temp = t
  <2> TAKE t \in remaining \ (forgotten' \cup dropped' \cup s.reclaimable)
  <2>1. PICK q \in Paths : /\ s.resumable[q] # None /\ s.resumable[q].temp = t
                           /\ q = p => c.temp = t
    BY <1>9
  <2>2. cleared.resumable[q] # None /\ cleared.resumable[q].temp = t
    BY <2>1, <1>6, <1>7
  <2> QED BY <2>2
<1>11. resumable \in Hints /\ reclaimable \subseteq Temps /\ active_job \in Sigs
       /\ \A q \in Paths : resumable[q] # None => resumable[q].path = q
  BY <1>1 DEF IInv, Types, States, Memory
<1>12. CASE /\ AppendOk(e) /\ resumable' = [resumable EXCEPT ![p] = c]
            /\ parts' \in {remaining, remaining \cup {c.temp}}
            /\ UNCHANGED <<phase, reclaimable, active_job>>
  <2>1. /\ disk' \in Logs /\ Replay(disk') = cleared /\ ReplayIsFaithful'
        /\ may' \in [Paths -> SUBSET (Ckpts \cup {None})]
    BY <1>4, <1>12, OkFaithful DEF s, cleared
  <2>2. resumable' \in Hints /\ resumable'[p] = c
        /\ \A q \in Paths \ {p} : resumable'[q] = resumable[q]
    BY <1>3, <1>11, <1>12 DEF Hints
  <2>3. \A q \in Paths : resumable'[q] # None => resumable'[q].path = q
    BY <1>3, <1>11, <2>2
  <2>4. Memory' \in States
    BY <1>11, <1>12, <2>2, <2>3 DEF Memory, States
  <2>5. Types'
    BY <1>1, <1>8, <1>12, <2>1, <2>4 DEF Types
  <2>6. Owned'
    <3> SUFFICES ASSUME NEW t \in parts' \ Excused' PROVE Shared(t)'
      BY <1>1, <1>12 DEF Owned
    <3>1. CASE t = c.temp
      BY <3>1, <2>1, <2>2, <1>6, <1>7 DEF Shared
    <3>2. CASE t # c.temp
      <4>1. t \in remaining \ (forgotten' \cup dropped' \cup s.reclaimable)
        BY <3>2, <1>12, <2>1, <1>5 DEF Excused
      <4>2. PICK q \in Paths : /\ resumable[q] # None /\ resumable[q].temp = t
                               /\ s.resumable[q] # None /\ s.resumable[q].temp = t
                               /\ q = p => c.temp = t
        BY <4>1, <1>9
      <4>3. q # p
        BY <3>2, <4>2
      <4>4. resumable'[q] = resumable[q] /\ Replay(disk').resumable[q] = s.resumable[q]
        BY <4>3, <2>1, <2>2, <1>6
      <4> QED BY <4>2, <4>4 DEF Shared
    <3> QED BY <3>1, <3>2
  <2>7. MemoryIsFaithful'
    <3>1. \A q \in Paths : resumable'[q] \in may'[q]
      <4>1. may' = [q \in Paths |-> IF q \in Touched(e) THEN {Value(e)} ELSE may[q]]
        BY <1>12 DEF AppendOk, Becomes
      <4>2. Touched(e) = {p} /\ Value(e) = c
        BY <1>3 DEF e, Check, Touched, Value
      <4>3. \A q \in Paths : resumable[q] \in may[q]
        BY <1>1 DEF IInv, MemoryIsFaithful
      <4> QED BY <4>1, <4>2, <4>3, <2>2
    <3> QED BY <3>1 DEF MemoryIsFaithful
  <2> QED BY <1>1, <1>11, <1>12, <2>1, <2>5, <2>6, <2>7 DEF IInv, Loaded
<1>13. ASSUME /\ MayBecome(e) /\ disk' \in Stopped(e) \cup {Written(Healed(disk), e, TRUE)}
       PROVE  /\ disk' \in Logs /\ Replay(disk') \in {s, cleared} /\ ReplayIsFaithful'
              /\ may' \in [Paths -> SUBSET (Ckpts \cup {None})]
              /\ \A q \in Paths : may[q] \subseteq may'[q]
  BY <1>4, <1>13, StopFaithful DEF s, cleared
<1>14. CASE AppendFails(e) /\ parts' = remaining /\ UNCHANGED <<phase, memVars>>
  <2>1. /\ disk' \in Logs /\ Replay(disk') \in {s, cleared} /\ ReplayIsFaithful'
        /\ may' \in [Paths -> SUBSET (Ckpts \cup {None})]
        /\ \A q \in Paths : may[q] \subseteq may'[q]
    BY <1>13, <1>14 DEF AppendFails
  <2>2. UNCHANGED <<phase, resumable, reclaimable, active_job>>
    BY <1>14 DEF memVars
  <2>3. Memory' \in States
    BY <2>2 DEF IInv, Types, Memory
  <2>4. Types'
    BY <1>1, <1>8, <1>14, <2>1, <2>2, <2>3 DEF Types
  <2>5. Owned'
    <3> SUFFICES ASSUME NEW t \in parts' \ Excused' PROVE Shared(t)'
      BY <1>1, <2>2 DEF Owned
    <3>1. t \in remaining \ (forgotten' \cup dropped' \cup s.reclaimable)
      BY <1>14, <2>1, <1>5 DEF Excused
    <3>2. PICK q \in Paths : /\ resumable[q] # None /\ resumable[q].temp = t
                             /\ s.resumable[q] # None /\ s.resumable[q].temp = t
                             /\ q = p => c.temp = t
      BY <3>1, <1>9
    <3>3. Replay(disk').resumable[q] # None /\ Replay(disk').resumable[q].temp = t
      BY <3>2, <2>1, <1>6, <1>7
    <3> QED BY <3>2, <3>3, <2>2 DEF Shared
  <2>6. MemoryIsFaithful'
    BY <1>1, <2>1, <2>2 DEF IInv, MemoryIsFaithful
  <2> QED BY <1>1, <1>11, <2>1, <2>2, <2>4, <2>5, <2>6 DEF IInv, Loaded
<1>15. CASE Interrupted(e) /\ parts' = remaining
  <2>1. Closed
    BY <1>15 DEF Interrupted
  <2>2. /\ disk' \in Logs /\ Replay(disk') \in {s, cleared} /\ ReplayIsFaithful'
        /\ may' \in [Paths -> SUBSET (Ckpts \cup {None})]
    BY <1>13, <1>15 DEF Interrupted
  <2>3. Proves(disk', parts' \ (forgotten' \cup dropped'))
    <3> SUFFICES ASSUME NEW t \in remaining \ (forgotten' \cup dropped' \cup s.reclaimable)
                 PROVE  t \in TempsOf(Replay(disk').resumable)
      BY <1>15, <2>2, <1>5 DEF Proves
    <3>1. \E q \in Paths : s.resumable[q] # None /\ s.resumable[q].temp = t
      BY <1>9
    <3>2. \E q \in Paths : Replay(disk').resumable[q] # None /\ Replay(disk').resumable[q].temp = t
      BY <3>1, <2>2, <1>10
    <3> QED BY <3>2 DEF TempsOf
  <2> QED BY <1>8, <1>15, <2>1, <2>2, <2>3, Closing
<1> QED BY <1>2, <1>12, <1>14, <1>15 DEF e, remaining

LEMMA RetireInv == ASSUME NEW p \in Paths PROVE IInv /\ Retire(p) => IInv'
<1> SUFFICES ASSUME IInv, Retire(p) PROVE IInv'
  OBVIOUS
<1> DEFINE s == Replay(disk)
           e == PartDone(p)
           cleared == Applied(s, e)
<1>1. /\ phase = "running" /\ resumable[p] # None /\ parts' = parts \ {resumable[p].temp}
      /\ UNCHANGED <<used, forgotten, dropped>>
  BY DEF Retire, lossVars
<1>2. s \in States /\ e \in Events /\ s.resumable \in Hints
  BY Loadable, EventsAreEvents DEF States
<1>3. cleared \in States /\ cleared.reclaimable = s.reclaimable
      /\ cleared.resumable = [s.resumable EXCEPT ![p] = None]
  BY <1>2, AppliedPart DEF States
<1>4. \A q \in Paths \ {p} : cleared.resumable[q] = s.resumable[q]
  BY <1>2, <1>3 DEF Hints
<1>5. /\ parts' \subseteq used' /\ used' \subseteq Temps
      /\ forgotten' \subseteq Temps /\ dropped' \subseteq Temps
  BY <1>1 DEF IInv, Types
<1>6. \A t \in parts' \ (forgotten' \cup dropped' \cup s.reclaimable) :
         \E q \in Paths \ {p} : /\ resumable[q] # None /\ resumable[q].temp = t
                                /\ s.resumable[q] # None /\ s.resumable[q].temp = t
  <2> TAKE t \in parts' \ (forgotten' \cup dropped' \cup s.reclaimable)
  <2>1. t \in parts \ Excused /\ t # resumable[p].temp
    BY <1>1 DEF Excused
  <2>2. Shared(t)
    BY <1>1, <2>1 DEF IInv, Owned
  <2> QED BY <2>1, <2>2 DEF Shared
<1>7. resumable \in Hints /\ reclaimable \subseteq Temps /\ active_job \in Sigs
      /\ \A q \in Paths : resumable[q] # None => resumable[q].path = q
  BY <1>1 DEF IInv, Types, States, Memory
<1> HIDE DEF s, e, cleared
<1>8. CASE /\ AppendOk(e) /\ resumable' = [resumable EXCEPT ![p] = None]
           /\ UNCHANGED <<phase, reclaimable, active_job>>
  <2>1. /\ disk' \in Logs /\ Replay(disk') = cleared /\ ReplayIsFaithful'
        /\ may' \in [Paths -> SUBSET (Ckpts \cup {None})]
    BY <1>2, <1>8, OkFaithful DEF s, cleared
  <2>2. resumable' \in Hints /\ resumable'[p] = None
        /\ \A q \in Paths \ {p} : resumable'[q] = resumable[q]
    BY <1>7, <1>8 DEF Hints
  <2>3. Memory' \in States
    BY <1>7, <1>8, <2>2 DEF Memory, States
  <2>4. Types'
    BY <1>1, <1>5, <1>8, <2>1, <2>3 DEF Types
  <2>5. Owned'
    <3> SUFFICES ASSUME NEW t \in parts' \ Excused' PROVE Shared(t)'
      BY <1>1, <1>8 DEF Owned
    <3>1. t \in parts' \ (forgotten' \cup dropped' \cup s.reclaimable)
      BY <2>1, <1>3 DEF Excused
    <3>2. PICK q \in Paths \ {p} : /\ resumable[q] # None /\ resumable[q].temp = t
                                   /\ s.resumable[q] # None /\ s.resumable[q].temp = t
      BY <3>1, <1>6
    <3>3. resumable'[q] = resumable[q] /\ Replay(disk').resumable[q] = s.resumable[q]
      BY <2>1, <2>2, <1>4
    <3> QED BY <3>2, <3>3 DEF Shared
  <2>6. MemoryIsFaithful'
    <3>1. may' = [q \in Paths |-> IF q \in Touched(e) THEN {Value(e)} ELSE may[q]]
      BY <1>8 DEF AppendOk, Becomes
    <3>2. Touched(e) = {p} /\ Value(e) = None
      BY DEF e, PartDone, Touched, Value
    <3>3. \A q \in Paths : resumable[q] \in may[q]
      BY <1>1 DEF IInv, MemoryIsFaithful
    <3> QED BY <3>1, <3>2, <3>3, <2>2 DEF MemoryIsFaithful
  <2> QED BY <1>1, <1>7, <1>8, <2>1, <2>4, <2>5, <2>6 DEF IInv, Loaded
<1>9. CASE Interrupted(e)
  <2>1. /\ Closed /\ MayBecome(e)
        /\ disk' \in Stopped(e) \cup {Written(Healed(disk), e, TRUE)}
    BY <1>9 DEF Interrupted
  <2>2. /\ disk' \in Logs /\ Replay(disk') \in {s, cleared} /\ ReplayIsFaithful'
        /\ may' \in [Paths -> SUBSET (Ckpts \cup {None})]
    BY <1>2, <2>1, StopFaithful DEF s, cleared
  <2>3. Proves(disk', parts' \ (forgotten' \cup dropped'))
    <3> SUFFICES ASSUME NEW t \in parts' \ (forgotten' \cup dropped' \cup s.reclaimable)
                 PROVE  t \in TempsOf(Replay(disk').resumable)
      BY <2>2, <1>3 DEF Proves
    <3>1. PICK q \in Paths \ {p} : s.resumable[q] # None /\ s.resumable[q].temp = t
      BY <1>6
    <3>2. Replay(disk').resumable[q] # None /\ Replay(disk').resumable[q].temp = t
      BY <3>1, <2>2, <1>4
    <3> QED BY <3>2 DEF TempsOf
  <2> QED BY <1>5, <2>1, <2>2, <2>3, Closing
<1> QED BY <1>8, <1>9 DEF Retire, e

LEMMA TakeReclaimableInv == ASSUME NEW t \in Temps PROVE IInv /\ TakeReclaimable(t) => IInv'
<1> SUFFICES ASSUME IInv, TakeReclaimable(t) PROVE IInv'
  OBVIOUS
<1>1. /\ phase = "running" /\ reclaimable' = reclaimable \ {t} /\ parts' \in {parts, parts \ {t}}
      /\ UNCHANGED <<disk, phase, resumable, active_job, used, may, forgotten, dropped>>
  BY DEF TakeReclaimable, lossVars
<1>2. Memory' \in States
  BY <1>1 DEF IInv, Types, States, Memory
<1>3. Types'
  BY <1>1, <1>2 DEF IInv, Types
<1>4. Owned'
  BY <1>1 DEF IInv, Owned, Excused, Shared
<1>5. ReplayIsFaithful' /\ MemoryIsFaithful'
  BY <1>1 DEF IInv, ReplayIsFaithful, MemoryIsFaithful
<1> QED BY <1>1, <1>3, <1>4, <1>5 DEF IInv, Loaded

LEMMA EndRunInv == IInv /\ EndRun => IInv'
<1> SUFFICES ASSUME IInv, EndRun PROVE IInv'
  OBVIOUS
<1> DEFINE s == Replay(disk)
<1>1. phase = "running" /\ UNCHANGED <<parts, used, forgotten>>
  BY DEF EndRun
<1>2. s \in States /\ End \in Events /\ Memory \in States /\ active_job \in Sigs
  BY <1>1, Loadable, EventsAreEvents DEF IInv, Types
<1>3. Proves(disk, parts \ (forgotten \cup dropped))
  BY Proved
<1>4. parts' \subseteq used' /\ used' \subseteq Temps /\ forgotten' \subseteq Temps
      /\ dropped \subseteq Temps
  BY <1>1 DEF IInv, Types
<1>5. CASE Interrupted(End) /\ UNCHANGED dropped
  <2>1. /\ Closed /\ MayBecome(End)
        /\ disk' \in Stopped(End) \cup {Written(Healed(disk), End, TRUE)}
    BY <1>5 DEF Interrupted
  <2>2. /\ disk' \in Logs /\ Replay(disk') \in {s, Applied(s, End)} /\ ReplayIsFaithful'
        /\ may' \in [Paths -> SUBSET (Ckpts \cup {None})]
    BY <1>2, <2>1, StopFaithful
  <2>3. Replay(disk') = s
    BY <2>2, AppliedRest
  <2>4. Proves(disk', parts' \ (forgotten' \cup dropped'))
    BY <1>1, <1>3, <1>5, <2>3 DEF Proves
  <2> QED BY <1>4, <1>5, <2>1, <2>2, <2>4, Closing
<1>6. CASE /\ disk' = Compacted /\ may' = [p \in Paths |-> {resumable[p]}]
           /\ dropped' = dropped \cup ((ProofsOf(s) \cup reclaimable) \ TempsOf(resumable))
           /\ Closed
  <2>1. resumable \in Hints /\ reclaimable \subseteq Temps
    BY <1>2 DEF States, Memory
  <2>2. disk' \in Logs /\ Replay(disk').resumable = resumable
    BY <1>2, <1>6, CompactedLog DEF Memory
  <2>3. may' \in [Paths -> SUBSET (Ckpts \cup {None})]
    BY <1>6, <2>1 DEF Hints
  <2>4. ReplayIsFaithful'
    BY <1>6, <2>2 DEF ReplayIsFaithful
  <2>5. ProofsOf(s) \subseteq Temps
    BY <1>2, TempsTyped DEF ProofsOf, States
  <2>6. dropped' \subseteq Temps
    BY <1>4, <1>6, <2>1, <2>5
  <2>7. Proves(disk', parts' \ (forgotten' \cup dropped'))
    BY <1>1, <1>3, <1>6, <2>2 DEF Proves, ProofsOf
  <2> QED BY <1>4, <1>6, <2>2, <2>3, <2>4, <2>6, <2>7, Closing
<1> QED BY <1>5, <1>6 DEF EndRun

LEMMA CrashInv == IInv /\ Crash => IInv'
<1> SUFFICES ASSUME IInv, Crash PROVE IInv'
  OBVIOUS
<1>1. Closed /\ UNCHANGED <<disk, parts, used, may, forgotten, dropped>>
  BY DEF Crash, lossVars
<1>2. Proves(disk', parts' \ (forgotten' \cup dropped'))
  BY <1>1, Proved DEF Proves
<1>3. ReplayIsFaithful' /\ disk' \in Logs
  BY <1>1 DEF IInv, ReplayIsFaithful, Types
<1> QED BY <1>1, <1>2, <1>3, Closing DEF IInv, Types

LEMMA StutterInv == IInv /\ UNCHANGED vars => IInv'
<1> SUFFICES ASSUME IInv, UNCHANGED vars PROVE IInv'
  OBVIOUS
<1>1. UNCHANGED <<disk, phase, resumable, reclaimable, active_job, parts, used, may,
                  forgotten, dropped>>
  BY DEF vars, memVars, lossVars
<1>2. Types' /\ Loaded' /\ Owned'
  BY <1>1 DEF IInv, Types, Memory, Loaded, Owned, Excused, Shared
<1> QED BY <1>1, <1>2 DEF IInv, ReplayIsFaithful, MemoryIsFaithful

-----------------------------------------------------------------------------
(* The theorems. *)

\* The inductive invariant holds in every run: every action of the journal, a kill
\* inside an append and a compaction included, preserves it.
THEOREM Invariance == Spec => []IInv
<1>1. IInv /\ [Next]_vars => IInv'
  BY OpenInv, OpenFreshInv, EndRunInv, CrashInv, BeginJobInv, CheckpointInv, RetireInv,
     TakeReclaimableInv, StutterInv DEF Next
<1> QED BY <1>1, Start, PTL DEF Spec

\* The file is a sequence of whole records and junk of which only the last can lack
\* its newline, and the loaded state has its shape (Journal::load, append).
THEOREM TypeCorrect == Spec => []TypeOK
<1>1. IInv => TypeOK
  BY DEF IInv, Types, TypeOK, Logs, Lines, Memory, States
<1> QED BY <1>1, Invariance, PTL

\* Reading the file at any moment yields for every path its last acknowledged value or
\* a later unacknowledged one (Journal::load after append's heal and torn writes).
THEOREM ReplayFaithful == Spec => []ReplayIsFaithful
<1>1. IInv => ReplayIsFaithful
  BY DEF IInv
<1> QED BY <1>1, Invariance, PTL

\* A running program works from hints that its own file can still yield (begin_job,
\* append_checkpoint, mark_part_done).
THEOREM MemoryFaithful == Spec => []MemoryIsFaithful
<1>1. IInv => MemoryIsFaithful
  BY DEF IInv
<1> QED BY <1>1, Invariance, PTL

\* A kept temporary stays provably the program's own; only what could not be opened,
\* --fresh and the compaction of a finished run give a proof up (harvest of cleared
\* hints, end).
THEOREM ProofsOutlive == Spec => []ProofsOutliveCrashes
<1>1. IInv => ProofsOutliveCrashes
  BY Proved DEF Proves, ProofsOutliveCrashes, Proven, ProofsOf
<1> QED BY <1>1, Invariance, PTL
=============================================================================
