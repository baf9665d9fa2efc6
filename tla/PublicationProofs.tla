-------------------------- MODULE PublicationProofs --------------------------
(***************************************************************************)
(* The proofs of Publication, for any number of pushers, commits and faults. *)
(***************************************************************************)
EXTENDS Publication, TLAPS

(* The commits of a pond.  What a snapshot holds is, back to any earlier     *)
(* one, either held there or introduced in between; and a series is extended *)
(* by one leaf at a time.                                                    *)
Entry == [id : Nat, file : Values, wrote : {"file", "series"}, series : Seq(Nat)]

Extends(l, k) ==
    /\ k > 1
    /\ l[k].series # <<>>
    /\ l[k - 1].series = SubSeq(l[k].series, 1, Len(l[k].series) - 1)

HeldSince(l, i, j) ==
    \A o \in Live(l[j]) : o \in Live(l[i]) \/ \E k \in i + 1 .. j : o \in Introduced(l[k])

AppendedSince(l, i, j) ==
    l[j].series = l[i].series
      \/ \E k \in i + 1 .. j : l[k].wrote = "series" /\ l[k].series = l[j].series

Lineage(l) ==
    /\ \A k \in DOMAIN l : l[k].wrote = "series" => Extends(l, k)
    /\ \A i, j \in DOMAIN l : i <= j => HeldSince(l, i, j) /\ AppendedSince(l, i, j)

Logs == {l \in Seq(Entry) : Lineage(l)}
Tips == Logs \ {<<>>}

(* The publications a pond can make.                                         *)
Steps == {Initial(t) : t \in Tips} \cup {Incremental(t, b) : t \in Tips, b \in Tips}
Objects == UNION {s.objects : s \in Steps}
Packs == UNION {s.packs : s \in Steps}
Pubs == {pub \in [generation : Nat, record : Seq(Steps)] : pub.generation = Len(pub.record)}

Session == [pc : {"idle", "data", "remote", "put", "cas", "ack"}, ack : Pubs,
            tip : Logs, row : Pubs, next : Pubs, objects : SUBSET Objects, packs : SUBSET Packs]

TypeInv ==
    /\ log \in Logs /\ made \in Nat
    /\ ack \in Pubs /\ row \in Pubs
    /\ backup \in [log : Logs, ack : Pubs]
    /\ sess \in [Proc -> Session]
    /\ \A p \in Proc :
         /\ sess[p].pc # "idle" => log # <<>>
         /\ sess[p].pc \in {"remote", "put", "cas"} => sess[p].tip # <<>>
-----------------------------------------------------------------------------
(* Sequences.                                                                *)

(* The empty log is before any log.                                        *)
LEMMA EmptyBefore ==
    ASSUME NEW S, NEW s \in Seq(S) PROVE Before(<<>>, s)
BY SMT DEF Before

(* A log is before itself.                                                 *)
LEMMA BeforeItself ==
    ASSUME NEW S, NEW s \in Seq(S) PROVE Before(s, s)
BY SMT DEF Before

(* A log is before the log with one more entry.                            *)
LEMMA BeforeAppended ==
    ASSUME NEW S, NEW s \in Seq(S), NEW e \in S
    PROVE  Append(s, e) \in Seq(S) /\ Before(s, Append(s, e))
BY SMT DEF Before

(* What Before says, entry by entry.                                       *)
LEMMA BeforeElements ==
    ASSUME NEW S, NEW s \in Seq(S), NEW t \in Seq(S)
    PROVE  Before(s, t) <=> Len(s) <= Len(t) /\ \A i \in 1 .. Len(s) : s[i] = t[i]
BY SMT DEF Before

(* A log of more than one entry, without its last, is not empty.           *)
LEMMA ShortenedOnce ==
    ASSUME NEW S, NEW s \in Seq(S), Len(s) > 1
    PROVE  SubSeq(s, 1, Len(s) - 1) # <<>>
<1>1. Len(SubSeq(s, 1, Len(s) - 1)) = Len(s) - 1 /\ Len(<<>>) = 0 /\ Len(s) - 1 # 0
  BY SMT
<1> QED BY <1>1, Zenon

(* Before is transitive.                                                   *)
LEMMA BeforeTransitive ==
    ASSUME NEW S, NEW s \in Seq(S), NEW t \in Seq(S), NEW u \in Seq(S),
           Before(s, t), Before(t, u)
    PROVE  Before(s, u)
BY BeforeElements, SMT
-----------------------------------------------------------------------------
(* Commits.                                                                  *)

Follows(l, e) ==
    \/ e.wrote = "file" /\ e.series = IF l = <<>> THEN <<>> ELSE Last(l).series
    \/ /\ e.wrote = "series" /\ l # <<>> /\ e.file = Last(l).file
       /\ \E n \in Nat : e.series = Append(Last(l).series, n)

(* The last entry of a log.                                                *)
LEMMA LastInSeq ==
    ASSUME NEW S, NEW s \in Seq(S), s # <<>>
    PROVE  /\ Len(s) \in Nat \ {0} /\ Last(s) \in S
           /\ Last(s) = s[Len(s)] /\ Len(s) \in DOMAIN s
BY SMT DEF Last

(* What a commit holds was held by its parent or is introduced by it.        *)
LEMMA HeldOrIntroduced ==
    ASSUME NEW l \in Seq(Entry), NEW e \in Entry, Follows(l, e), l # <<>>
    PROVE  \A o \in Live(e) : o \in Live(Last(l)) \/ o \in Introduced(e)
<1> DEFINE f == Last(l)
<1>0. f \in Entry
  BY LastInSeq
<1>1. f.series \in Seq(Nat) /\ e.series \in Seq(Nat)
  BY <1>0, SMT DEF Entry
<1>2. CASE e.wrote = "file"
  <2>1. e.series = f.series
    BY <1>2, SMT DEF Follows
  <2>2. {Manifest(s) : s \in {e.series} \ {<<>>}} = {Manifest(s) : s \in {f.series} \ {<<>>}}
    BY <2>1
  <2>3. {Leaf(e.series[i]) : i \in DOMAIN e.series} = {Leaf(f.series[i]) : i \in DOMAIN f.series}
    BY <2>1
  <2>4. Introduced(e) = {Tree(e)} \cup {File(e.file)}
    BY <1>2 DEF Introduced
  <2> HIDE DEF f
  <2> QED BY <2>2, <2>3, <2>4 DEF Live, f
<1>3. CASE e.wrote = "series"
  <2>1. PICK n \in Nat : e.series = Append(f.series, n)
    BY <1>3, SMT DEF Follows
  <2>2. e.file = f.file
    BY <1>3, SMT DEF Follows
  <2>3. Introduced(e) = {Tree(e)} \cup {Manifest(e.series), Leaf(Last(e.series))}
    BY <1>3 DEF Introduced
  <2>4. \A i \in DOMAIN e.series :
           \/ i \in DOMAIN f.series /\ e.series[i] = f.series[i]
           \/ e.series[i] = Last(e.series)
    BY <1>1, <2>1, SMTT(20) DEF Last
  <2> HIDE DEF f
  <2>5. SUFFICES ASSUME NEW o \in Live(e) PROVE o \in Live(f) \/ o \in Introduced(e)
    BY DEF f
  <2>6. CASE o = Tree(e)
    BY <2>6, <2>3
  <2>7. CASE o = File(e.file)
    BY <2>7, <2>2 DEF Live
  <2>8. CASE o = Manifest(e.series)
    BY <2>8, <2>3
  <2>9. ASSUME NEW i \in DOMAIN e.series, o = Leaf(e.series[i])
        PROVE  o \in Live(f) \/ o \in Introduced(e)
    <3>1. CASE i \in DOMAIN f.series /\ e.series[i] = f.series[i]
      BY <3>1, <2>9 DEF Live
    <3>2. CASE e.series[i] = Last(e.series)
      BY <3>2, <2>9, <2>3
    <3> QED BY <2>4, <3>1, <3>2
  <2> QED BY <2>6, <2>7, <2>8, <2>9 DEF Live
<1> QED BY <1>2, <1>3 DEF Entry

(* A pond's log keeps its lineage when a commit is made.                     *)
LEMMA LineageAppended ==
    ASSUME NEW l \in Logs, NEW e \in Entry, Follows(l, e)
    PROVE  Append(l, e) \in Tips
<1> DEFINE m == Append(l, e)
           n == Len(l)
<1>1. /\ l \in Seq(Entry) /\ Lineage(l) /\ n \in Nat
      /\ m \in Seq(Entry) /\ m # <<>> /\ DOMAIN m = 1 .. n + 1 /\ DOMAIN l = 1 .. n
      /\ m[n + 1] = e
      /\ \A i \in 1 .. n : m[i] = l[i] /\ l[i] \in Entry
  BY SMT DEF Logs
<1>2. l # <<>> => n > 0 /\ Last(l) = l[n] /\ l[n] \in Entry
  BY <1>1, LastInSeq, SMT
<1> HIDE DEF m
<1>3. ASSUME NEW k \in 1 .. n + 1, m[k].wrote = "series"
      PROVE  Extends(m, k)
  <2>1. CASE k \in 1 .. n
    <3>1. Extends(l, k)
      BY <1>1, <1>3, <2>1, SMT DEF Lineage
    <3> QED BY <1>1, <2>1, <3>1, SMTT(20) DEF Extends
  <2>2. CASE k = n + 1
    <3>1. l # <<>> /\ \E x \in Nat : e.series = Append(l[n].series, x)
      BY <1>1, <1>2, <1>3, <2>2, SMT DEF Follows
    <3>2. l[n].series \in Seq(Nat)
      BY <1>2, <3>1, SMT DEF Entry
    <3>3. PICK x \in Nat : e.series = Append(l[n].series, x)
      BY <3>1
    <3>4. e.series # <<>> /\ l[n].series = SubSeq(e.series, 1, Len(e.series) - 1)
      BY <3>2, <3>3, SMTT(20)
    <3>5. k > 1 /\ m[k] = e /\ m[k - 1] = l[n]
      BY <1>1, <1>2, <2>2, <3>1, SMT
    <3> QED BY <3>4, <3>5 DEF Extends
  <2> QED BY <1>1, <2>1, <2>2, SMT
<1>4. ASSUME NEW i \in 1 .. n + 1, NEW j \in 1 .. n + 1, i <= j
      PROVE  HeldSince(m, i, j) /\ AppendedSince(m, i, j)
  <2>1. CASE j \in 1 .. n
    <3>1. HeldSince(l, i, j) /\ AppendedSince(l, i, j)
      BY <1>1, <1>4, <2>1, SMT DEF Lineage
    <3>2. \A k \in i .. j : m[k] = l[k]
      BY <1>1, <1>4, <2>1, SMT
    <3>3. i \in i .. j /\ j \in i .. j /\ \A k \in i + 1 .. j : k \in i .. j
      BY <1>4, <1>1, SMT
    <3>4. HeldSince(m, i, j)
      BY <3>1, <3>2, <3>3, Zenon DEF HeldSince
    <3>5. AppendedSince(m, i, j)
      BY <3>1, <3>2, <3>3, Zenon DEF AppendedSince
    <3> QED BY <3>4, <3>5
  <2>2. CASE i = n + 1 /\ j = n + 1
    BY <2>2 DEF HeldSince, AppendedSince
  <2>3. CASE i \in 1 .. n /\ j = n + 1
    <3>1. HeldSince(l, i, n) /\ AppendedSince(l, i, n) /\ l # <<>>
      BY <1>1, <2>3, SMT DEF Lineage
    <3>2. \A k \in i .. n : m[k] = l[k]
      BY <1>1, <2>3, SMT
    <3>3. /\ m[j] = e /\ m[i] = l[i] /\ j \in i + 1 .. j
          /\ \A k \in i + 1 .. n : k \in i + 1 .. j /\ m[k] = l[k]
      BY <1>1, <2>3, SMT
    <3>4. \A o \in Live(e) : o \in Live(l[n]) \/ o \in Introduced(e)
      BY <1>1, <1>2, <3>1, HeldOrIntroduced
    <3>5. HeldSince(m, i, j)
      BY <3>1, <3>3, <3>4, Zenon DEF HeldSince
    <3>6. AppendedSince(m, i, j)
      <4>1. CASE e.wrote = "series"
        BY <3>3, <4>1, Zenon DEF AppendedSince
      <4>2. CASE e.series = l[n].series
        BY <3>1, <3>3, <4>2, Zenon DEF AppendedSince
      <4> QED BY <1>2, <3>1, <4>1, <4>2 DEF Follows
    <3> QED BY <3>5, <3>6
  <2> QED BY <1>1, <1>4, <2>1, <2>2, <2>3, SMT
<1>5. Lineage(m)
  BY <1>1, <1>3, <1>4 DEF Lineage
<1> QED BY <1>1, <1>5 DEF Tips, Logs, m
-----------------------------------------------------------------------------
(* Publications.                                                             *)

(* The first publication of a tip is a step.                               *)
LEMMA InitialStep ==
    ASSUME NEW t \in Tips
    PROVE  /\ Initial(t) \in Steps /\ Initial(t).tip = t
           /\ Initial(t).objects \subseteq Objects /\ Initial(t).packs \subseteq Packs
<1>1. Initial(t) \in Steps
  BY DEF Steps
<1>2. Initial(t).tip = t
  BY DEF Initial
<1> QED BY <1>1, <1>2 DEF Objects, Packs

(* A publication on top of an earlier tip is a step.                       *)
LEMMA IncrementalStep ==
    ASSUME NEW t \in Tips, NEW b \in Tips
    PROVE  /\ Incremental(t, b) \in Steps /\ Incremental(t, b).tip = t
           /\ Incremental(t, b).objects \subseteq Objects
           /\ Incremental(t, b).packs \subseteq Packs
<1>1. Incremental(t, b) \in Steps
  BY DEF Steps
<1>2. Incremental(t, b).tip = t
  BY DEF Incremental
<1> QED BY <1>1, <1>2 DEF Objects, Packs

(* The tip a step publishes.                                               *)
LEMMA StepTip ==
    ASSUME NEW s \in Steps PROVE s.tip \in Tips
BY InitialStep, IncrementalStep DEF Steps

(* A publication has as many steps in its record as its generation says.   *)
LEMMA PubRecord ==
    ASSUME NEW pub \in Pubs
    PROVE  /\ pub.record \in Seq(Steps) /\ pub.generation \in Nat
           /\ pub.generation = Len(pub.record)
           /\ pub = Publication(pub.generation, pub.record)
           /\ pub # Missing <=> pub.record # <<>>
<1>1. pub \in [generation : Nat, record : Seq(Steps)] /\ pub.generation = Len(pub.record)
  BY DEF Pubs
<1>2. pub = Publication(pub.generation, pub.record)
  BY <1>1 DEF Publication
<1>3. pub.record = <<>> => pub.generation = 0
  BY <1>1, SMT
<1>4. Missing.record = <<>> /\ Missing = Publication(0, <<>>)
  BY DEF Missing, Publication
<1> QED BY <1>1, <1>2, <1>3, <1>4

(* A row that is missing is a publication of generation 0.                 *)
LEMMA MissingPub == Missing \in Pubs
BY SMT DEF Missing, Publication, Pubs

(* The tip of a publication is that of its last step.                      *)
LEMMA PubTip ==
    ASSUME NEW pub \in Pubs, pub # Missing
    PROVE  /\ Tip(pub) \in Tips
           /\ Tip(pub) = pub.record[Len(pub.record)].tip
           /\ Len(pub.record) \in DOMAIN pub.record
<1>1. pub.record \in Seq(Steps) /\ pub.record # <<>>
  BY PubRecord
<1>2. Last(pub.record) \in Steps
  BY <1>1, LastInSeq
<1> QED BY <1>1, <1>2, LastInSeq, StepTip DEF Tip

(* The publication after pub.                                                *)
Successor(pub, step) == Publication(pub.generation + 1, Append(pub.record, step))

(* The successor of a publication has its record and one more step.        *)
LEMMA SuccessorPub ==
    ASSUME NEW pub \in Pubs, NEW step \in Steps
    PROVE  /\ Successor(pub, step) \in Pubs /\ Successor(pub, step) # Missing
           /\ Successor(pub, step).generation = pub.generation + 1
           /\ Successor(pub, step).record = Append(pub.record, step)
           /\ Before(pub.record, Successor(pub, step).record)
           /\ Tip(Successor(pub, step)) = step.tip
<1>1. pub.record \in Seq(Steps) /\ pub.generation \in Nat /\ pub.generation = Len(pub.record)
  BY PubRecord
<1> DEFINE r == Append(pub.record, step)
<1>2. /\ r \in Seq(Steps) /\ Len(r) = pub.generation + 1
      /\ r[Len(r)] = step /\ r # <<>>
  BY <1>1, SMT
<1>3. Before(pub.record, r)
  BY <1>1, BeforeAppended
<1> HIDE DEF r
<1>4. Successor(pub, step).generation = pub.generation + 1 /\ Successor(pub, step).record = r
  BY DEF Successor, Publication, r
<1>5. Successor(pub, step) \in [generation : Nat, record : Seq(Steps)]
  BY <1>1, <1>2, SMT DEF Successor, Publication, r
<1>6. Successor(pub, step) \in Pubs
  BY <1>1, <1>2, <1>4, <1>5 DEF Pubs
<1>7. Tip(Successor(pub, step)) = step.tip
  BY <1>2, <1>4 DEF Tip, Last
<1> QED BY <1>2, <1>3, <1>4, <1>6, <1>7, PubRecord DEF r
-----------------------------------------------------------------------------
(* Types.                                                                    *)

(* The empty log is a log.                                                 *)
LEMMA EmptyLog == <<>> \in Logs
BY SMT DEF Logs, Lineage

(* A tip is a log with an entry.                                           *)
LEMMA TipLog == \A t \in Tips : t \in Logs /\ t # <<>>
BY DEF Tips

(* An idle pusher is a session.                                            *)
LEMMA IdleSession == Idle \in Session
BY EmptyLog, MissingPub DEF Idle, Session

(* The first state has its type.                                           *)
LEMMA TypeInit == Init => TypeInv
<1> SUFFICES ASSUME Init PROVE TypeInv
  OBVIOUS
<1>1. backup \in [log : Logs, ack : Pubs]
  BY EmptyLog, MissingPub DEF Init
<1>2. sess \in [Proc -> Session] /\ \A p \in Proc : sess[p].pc = "idle"
  BY IdleSession DEF Init, Idle
<1> QED BY <1>1, <1>2, EmptyLog, MissingPub DEF Init, TypeInv

(* The steps of one process change its session only.                         *)
Updates(p, s) == sess' = [sess EXCEPT ![p] = s]

(* A step of one pusher keeps the type if its session, row and ack do.     *)
LEMMA TypeUpdates ==
    ASSUME TypeInv, NEW p \in Proc, NEW s \in Session, Updates(p, s),
           UNCHANGED <<log, made, backup>>, ack' \in Pubs, row' \in Pubs,
           s.pc # "idle" => log # <<>>,
           s.pc \in {"remote", "put", "cas"} => s.tip # <<>>
    PROVE  TypeInv'
<1>1. /\ sess \in [Proc -> Session]
      /\ \A q \in Proc : /\ sess[q].pc # "idle" => log # <<>>
                         /\ sess[q].pc \in {"remote", "put", "cas"} => sess[q].tip # <<>>
  BY DEF TypeInv
<1>2. sess' \in [Proc -> Session] /\ \A q \in Proc : sess'[q] = IF q = p THEN s ELSE sess[q]
  BY <1>1 DEF Updates
<1>3. \A q \in Proc : /\ sess'[q].pc # "idle" => log' # <<>>
                      /\ sess'[q].pc \in {"remote", "put", "cas"} => sess'[q].tip # <<>>
  BY <1>1, <1>2
<1> QED BY <1>2, <1>3 DEF TypeInv

(* What the pond's commits and its operator leave alone.                     *)
LEMMA TypePond ==
    ASSUME TypeInv, log' \in Tips, made' \in Nat, ack' \in Pubs,
           backup' \in [log : Logs, ack : Pubs], UNCHANGED <<row, sess>>
    PROVE  TypeInv'
BY TipLog DEF TypeInv

(* The fields of a session.                                                *)
LEMMA SessionTypes ==
    ASSUME TypeInv, NEW p \in Proc
    PROVE  /\ sess[p] \in Session /\ sess[p].ack \in Pubs /\ sess[p].row \in Pubs
           /\ sess[p].next \in Pubs /\ sess[p].tip \in Logs
           /\ sess[p].objects \subseteq Objects /\ sess[p].packs \subseteq Packs
BY DEF TypeInv, Session

(* A commit keeps the type.                                                *)
LEMMA CommitType ==
    ASSUME TypeInv, NEW e \in Entry, Follows(log, e), Commit(e)
    PROVE  TypeInv'
<1>1. log' \in Tips
  BY LineageAppended DEF TypeInv, Commit
<1>2. made' \in Nat
  BY SMT DEF TypeInv, Commit
<1> QED BY <1>1, <1>2, TypePond DEF TypeInv, Commit

(* The producer appends an entry that follows its log.                     *)
LEMMA ProduceCommits ==
    ASSUME TypeInv, Produce
    PROVE  \E e \in Entry : Follows(log, e) /\ Commit(e)
<1>0. log \in Seq(Entry) /\ made \in Nat
  BY DEF TypeInv, Logs
<1>1. log # <<>> => Last(log) \in Entry
  BY <1>0, LastInSeq
<1>2. ASSUME AppendSeries PROVE \E e \in Entry : Follows(log, e) /\ Commit(e)
  <2> DEFINE e == [id |-> made + 1, file |-> Last(log).file, wrote |-> "series",
                   series |-> Append(Last(log).series, made + 1)]
  <2>1. log # <<>> /\ Commit(e)
    BY <1>2 DEF AppendSeries
  <2>2. Last(log).series \in Seq(Nat) /\ Last(log).file \in Values
    BY <1>1, <2>1 DEF Entry
  <2>3. e \in Entry
    BY <1>0, <2>2, SMT DEF Entry
  <2>4. Follows(log, e)
    BY <1>0, <2>1, SMT DEF Follows
  <2> QED BY <2>1, <2>3, <2>4
<1>3. ASSUME NEW v \in Values, WriteFile(v) PROVE \E e \in Entry : Follows(log, e) /\ Commit(e)
  <2> DEFINE e == [id |-> made + 1, file |-> v, wrote |-> "file",
                   series |-> IF log = <<>> THEN <<>> ELSE Last(log).series]
  <2>1. Commit(e)
    BY <1>3 DEF WriteFile
  <2>2. log # <<>> => Last(log).series \in Seq(Nat)
    BY <1>1 DEF Entry
  <2>3. e \in Entry
    BY <1>0, <2>2, SMT DEF Entry
  <2>4. Follows(log, e)
    BY DEF Follows
  <2> QED BY <2>1, <2>3, <2>4
<1> QED BY <1>2, <1>3 DEF Produce

(* Cleared acknowledgements and copied directories keep the type.          *)
LEMMA InterveneType ==
    ASSUME TypeInv, Intervene
    PROVE  TypeInv'
<1>1. CASE ClearAcknowledgements
  BY <1>1, MissingPub DEF TypeInv, ClearAcknowledgements
<1>2. CASE CopyDirectory
  BY <1>2 DEF TypeInv, CopyDirectory
<1>3. CASE PutBackDirectory
  <2>1. backup.log \in Tips /\ backup.ack \in Pubs
    BY <1>3 DEF TypeInv, PutBackDirectory, Tips
  <2> QED BY <1>3, <2>1, TypePond DEF TypeInv, PutBackDirectory
<1> QED BY <1>1, <1>2, <1>3 DEF Intervene

(* What a push in progress puts.                                             *)
NextStep(s) == IF s.row = Missing THEN Initial(s.tip) ELSE Incremental(s.tip, Tip(s.row))

(* What a push is going to publish is a step.                              *)
LEMMA NextStepTypes ==
    ASSUME NEW s, s.row \in Pubs, s.tip \in Tips
    PROVE  /\ NextStep(s) \in Steps /\ NextStep(s).tip = s.tip
           /\ NextStep(s).objects \subseteq Objects /\ NextStep(s).packs \subseteq Packs
<1>1. CASE s.row = Missing
  BY <1>1, InitialStep DEF NextStep
<1>2. CASE s.row # Missing
  <2>1. Tip(s.row) \in Tips
    BY <1>2, PubTip
  <2> QED BY <1>2, <2>1, IncrementalStep DEF NextStep
<1> QED BY <1>1, <1>2

(* The session a push has after Prepare.                                     *)
Prepared(s) ==
    LET t == [s EXCEPT !.row = row] IN
    [s EXCEPT !.pc = "put", !.row = row, !.next = Successor(row, NextStep(t)),
              !.objects = NextStep(t).objects, !.packs = NextStep(t).packs]

(* The session of a push that has planned its publication.                 *)
LEMMA PreparedSession ==
    ASSUME TypeInv, NEW s \in Session, s.tip # <<>>
    PROVE  /\ Prepared(s) \in Session /\ Prepared(s).pc = "put" /\ Prepared(s).tip = s.tip
           /\ Prepared(s).row = row /\ Prepared(s).ack = s.ack
           /\ NextStep(Prepared(s)) = NextStep([s EXCEPT !.row = row])
           /\ Prepared(s).next = Successor(row, NextStep(Prepared(s)))
           /\ Prepared(s).objects = NextStep(Prepared(s)).objects
           /\ Prepared(s).packs = NextStep(Prepared(s)).packs
<1> DEFINE t == [s EXCEPT !.row = row]
           st == NextStep(t)
<1>1. row \in Pubs /\ t \in Session /\ t.row = row /\ t.tip = s.tip /\ s.tip \in Tips
  BY DEF TypeInv, Session, Tips
<1>2. st \in Steps /\ st.objects \subseteq Objects /\ st.packs \subseteq Packs
  BY <1>1, NextStepTypes
<1>3. Successor(row, st) \in Pubs
  BY <1>1, <1>2, SuccessorPub
<1> HIDE DEF t
<1>4. Prepared(s) = [s EXCEPT !.pc = "put", !.row = row, !.next = Successor(row, st),
                              !.objects = st.objects, !.packs = st.packs]
  BY DEF Prepared, t
<1> HIDE DEF st
<1>5. /\ Prepared(s) \in Session /\ Prepared(s).pc = "put" /\ Prepared(s).tip = s.tip
      /\ Prepared(s).row = row /\ Prepared(s).ack = s.ack
      /\ Prepared(s).next = Successor(row, st)
      /\ Prepared(s).objects = st.objects /\ Prepared(s).packs = st.packs
  BY <1>1, <1>2, <1>3, <1>4 DEF Session
<1>6. NextStep(Prepared(s)) = st
  BY <1>1, <1>5 DEF NextStep, st
<1> QED BY <1>5, <1>6 DEF st, t

(* The planning of a push changes only its session.                        *)
LEMMA PrepareUpdates ==
    ASSUME TypeInv, NEW p \in Proc, Prepare(p)
    PROVE  Updates(p, Prepared(sess[p]))
<1>1. sess[p] \in Session /\ sess \in [Proc -> Session]
  BY DEF TypeInv
<1> DEFINE s == sess[p]
           t == [s EXCEPT !.row = row]
           step == IF row = Missing THEN Initial(s.tip) ELSE Incremental(s.tip, Tip(row))
<1>2. t.row = row /\ t.tip = s.tip
  BY <1>1 DEF Session
<1>3. NextStep(t) = step
  BY <1>2 DEF NextStep
<1>4. sess' = [sess EXCEPT ![p].pc = "put", ![p].row = row,
                   ![p].next = Publication(row.generation + 1, Append(row.record, step)),
                   ![p].objects = step.objects, ![p].packs = step.packs]
  BY DEF Prepare
<1> HIDE DEF step
<1>5. sess' = [sess EXCEPT ![p] = [s EXCEPT !.pc = "put", !.row = row,
                  !.next = Successor(row, step),
                  !.objects = step.objects, !.packs = step.packs]]
  BY <1>1, <1>4 DEF Successor
<1> QED BY <1>3, <1>5 DEF Updates, Prepared

(* A push that ends, well or not, without moving the row or the              *)
(* acknowledgement.                                                          *)
Quits(p) ==
    \/ Refuse(p) \/ SwapRefused(p) \/ Crash(p)
    \/ OpenData(p) /\ Ends(p)
    \/ \E o \in Foremost(sess[p].objects) : PutPayloadOnly(p, o)
    \/ \E k \in sess[p].packs : PutPackOnly(p, k)

(* A push that ends leaves an idle session and nothing else.               *)
LEMMA QuitsIdle ==
    ASSUME NEW p \in Proc, Quits(p)
    PROVE  Updates(p, Idle) /\ UNCHANGED <<log, made, backup, ack, row>>
BY DEF Quits, Refuse, SwapRefused, Crash, OpenData, PutPayloadOnly, PutPackOnly, Ends,
       Updates, pond

(* The sessions the other steps of a push lead to.                           *)
Opened(s) == [s EXCEPT !.pc = "data", !.ack = ack]
Loaded(s) == [s EXCEPT !.pc = "remote", !.tip = log]
Found(s) == [s EXCEPT !.pc = "ack", !.row = row, !.next = row]
At(s, pc) == [s EXCEPT !.pc = pc]
PutsObjects(s) == [s EXCEPT !.objects = @ \ receipts']
PutsPack(s, k) == [s EXCEPT !.packs = @ \ {k}]

Loads(p) == OpenData(p) /\ Updates(p, Loaded(sess[p]))
Swaps(p) == CompareAndSwap(p) \/ SwapUnanswered(p)

(* The steps of a push.                                                    *)
LEMMA PushSteps ==
    ASSUME TypeInv, NEW p \in Proc, Push(p) \/ Fails(p)
    PROVE  \/ Quits(p) \/ OpenControl(p) \/ Loads(p) \/ FindConverged(p) \/ Prepare(p)
           \/ \E o \in Foremost(sess[p].objects) : PutObject(p, o)
           \/ \E k \in sess[p].packs : PutPack(p, k)
           \/ PutRecord(p) \/ Swaps(p) \/ WriteAck(p)
<1>1. sess \in [Proc -> Session]
  BY DEF TypeInv
<1>2. ASSUME OpenData(p) PROVE Quits(p) \/ Loads(p)
  <2>1. \/ Ends(p)
        \/ sess' = [sess EXCEPT ![p].pc = "remote", ![p].tip = log]
    BY <1>2 DEF OpenData
  <2>2. sess' = [sess EXCEPT ![p].pc = "remote", ![p].tip = log] => Updates(p, Loaded(sess[p]))
    BY <1>1 DEF Updates, Loaded
  <2> QED BY <1>2, <2>1, <2>2 DEF Quits, Loads
<1> QED BY <1>2 DEF Push, Fails, Quits, Swaps

(* The session each step of a push leaves.                                 *)
LEMMA PushUpdates ==
    ASSUME TypeInv, NEW p \in Proc
    PROVE  /\ OpenControl(p) => Updates(p, Opened(sess[p]))
           /\ FindConverged(p) => Updates(p, Found(sess[p]))
           /\ \A o : PutObject(p, o) => Updates(p, PutsObjects(sess[p]))
           /\ \A k : PutPack(p, k) => Updates(p, PutsPack(sess[p], k))
           /\ PutRecord(p) => Updates(p, At(sess[p], "cas"))
           /\ CompareAndSwap(p) => Updates(p, At(sess[p], "ack"))
           /\ SwapUnanswered(p) => Updates(p, Idle)
           /\ WriteAck(p) => Updates(p, Idle)
<1>1. sess \in [Proc -> Session]
  BY DEF TypeInv
<1>2. OpenControl(p) => Updates(p, Opened(sess[p]))
  BY <1>1 DEF OpenControl, Updates, Opened
<1>3. FindConverged(p) => Updates(p, Found(sess[p]))
  BY <1>1 DEF FindConverged, Updates, Found
<1>4. ASSUME NEW o, PutObject(p, o) PROVE Updates(p, PutsObjects(sess[p]))
  BY <1>1, <1>4 DEF PutObject, Updates, PutsObjects
<1>5. ASSUME NEW k, PutPack(p, k) PROVE Updates(p, PutsPack(sess[p], k))
  BY <1>1, <1>5 DEF PutPack, Updates, PutsPack
<1>6. PutRecord(p) => Updates(p, At(sess[p], "cas"))
  BY <1>1 DEF PutRecord, Updates, At
<1>7. CompareAndSwap(p) => Updates(p, At(sess[p], "ack"))
  BY <1>1 DEF CompareAndSwap, Updates, At
<1>8. (SwapUnanswered(p) => Updates(p, Idle)) /\ (WriteAck(p) => Updates(p, Idle))
  BY DEF SwapUnanswered, WriteAck, Ends, Updates
<1> QED BY <1>2, <1>3, <1>4, <1>5, <1>6, <1>7, <1>8

(* A step of a push keeps the type.                                        *)
LEMMA PushType ==
    ASSUME TypeInv, NEW p \in Proc, Push(p) \/ Fails(p)
    PROVE  TypeInv'
<1> DEFINE s == sess[p]
<1>1. /\ s \in Session /\ s.next \in Pubs /\ s.objects \subseteq Objects /\ s.packs \subseteq Packs
      /\ ack \in Pubs /\ row \in Pubs /\ log \in Logs
      /\ s.pc # "idle" => log # <<>>
      /\ s.pc \in {"remote", "put", "cas"} => s.tip # <<>>
  BY SessionTypes DEF TypeInv
<1>2. ASSUME Quits(p) \/ SwapUnanswered(p) \/ WriteAck(p) PROVE TypeInv'
  <2>1. UNCHANGED <<log, made, backup>> /\ ack' \in Pubs /\ row' \in Pubs
    BY <1>1, <1>2, QuitsIdle DEF SwapUnanswered, WriteAck, pond
  <2> QED BY <1>2, <2>1, QuitsIdle, PushUpdates, IdleSession, TypeUpdates DEF Idle
<1>3. CASE OpenControl(p)
  <2>1. Opened(s) \in Session /\ log # <<>> /\ UNCHANGED <<log, made, backup, ack, row>>
        /\ Opened(s).pc = "data"
    BY <1>1, <1>3 DEF Opened, Session, OpenControl, pond
  <2> QED BY <1>1, <1>3, <2>1, PushUpdates, TypeUpdates
<1>4. CASE Loads(p)
  <2>1. Loaded(s) \in Session /\ log # <<>> /\ UNCHANGED <<log, made, backup, ack, row>>
        /\ Loaded(s).tip = log
    BY <1>1, <1>4 DEF Loaded, Session, Loads, OpenData, pond
  <2> QED BY <1>1, <1>4, <2>1, TypeUpdates DEF Loads
<1>5. CASE FindConverged(p)
  <2>1. Found(s) \in Session /\ log # <<>> /\ UNCHANGED <<log, made, backup, ack, row>>
        /\ Found(s).pc = "ack"
    BY <1>1, <1>5 DEF Found, Session, FindConverged, pond
  <2> QED BY <1>1, <1>5, <2>1, PushUpdates, TypeUpdates
<1>6. CASE Prepare(p)
  <2>1. s.tip # <<>> /\ log # <<>> /\ UNCHANGED <<log, made, backup, ack, row>>
    BY <1>1, <1>6 DEF Prepare, pond
  <2>2. Prepared(s) \in Session /\ Prepared(s).tip = s.tip
    BY <1>1, <2>1, PreparedSession
  <2> QED BY <1>1, <1>6, <2>1, <2>2, PrepareUpdates, TypeUpdates
<1>7. ASSUME NEW o, PutObject(p, o) PROVE TypeInv'
  <2>1. PutsObjects(s) \in Session /\ PutsObjects(s).pc = s.pc /\ PutsObjects(s).tip = s.tip
    BY <1>1 DEF PutsObjects, Session
  <2>2. UNCHANGED <<log, made, backup, ack, row>>
    BY <1>7 DEF PutObject, pond
  <2> QED BY <1>1, <1>7, <2>1, <2>2, PushUpdates, TypeUpdates
<1>8. ASSUME NEW k, PutPack(p, k) PROVE TypeInv'
  <2>1. PutsPack(s, k) \in Session /\ PutsPack(s, k).pc = s.pc /\ PutsPack(s, k).tip = s.tip
    BY <1>1 DEF PutsPack, Session
  <2>2. UNCHANGED <<log, made, backup, ack, row>>
    BY <1>8 DEF PutPack, pond
  <2> QED BY <1>1, <1>8, <2>1, <2>2, PushUpdates, TypeUpdates
<1>9. CASE PutRecord(p)
  <2>1. At(s, "cas") \in Session /\ At(s, "cas").pc = "cas" /\ At(s, "cas").tip = s.tip
    BY <1>1 DEF At, Session
  <2>2. UNCHANGED <<log, made, backup, ack, row>> /\ s.pc = "put"
    BY <1>9 DEF PutRecord, pond
  <2> QED BY <1>1, <1>9, <2>1, <2>2, PushUpdates, TypeUpdates
<1>10. CASE CompareAndSwap(p)
  <2>1. At(s, "ack") \in Session /\ At(s, "ack").pc = "ack"
    BY <1>1 DEF At, Session
  <2>2. UNCHANGED <<log, made, backup, ack>> /\ row' = s.next /\ s.pc = "cas"
    BY <1>10 DEF CompareAndSwap, pond
  <2> QED BY <1>1, <1>10, <2>1, <2>2, PushUpdates, TypeUpdates
<1> QED BY PushSteps, <1>2, <1>3, <1>4, <1>5, <1>6, <1>7, <1>8, <1>9, <1>10 DEF Swaps

(* Every step keeps the type.                                              *)
LEMMA TypeNext == TypeInv /\ [Next]_vars => TypeInv'
<1> SUFFICES ASSUME TypeInv, [Next]_vars PROVE TypeInv'
  OBVIOUS
<1>1. CASE Produce
  BY <1>1, ProduceCommits, CommitType
<1>2. CASE Intervene
  BY <1>2, InterveneType
<1>3. ASSUME NEW p \in Proc, Push(p) \/ Fails(p) PROVE TypeInv'
  BY <1>3, PushType
<1>4. CASE UNCHANGED vars
  BY <1>4 DEF TypeInv, vars, pond
<1> QED BY <1>1, <1>2, <1>3, <1>4 DEF Next
-----------------------------------------------------------------------------
(* The row only grows, and everything anybody has read of it is a beginning  *)
(* of it.  A push in progress is about to publish a proper descendant of     *)
(* what it has read.                                                         *)
Was(pub) == Before(pub.record, row.record)

Chained(s) ==
    /\ Was(s.ack)
    /\ Was(s.row)
    /\ s.pc = "ack" => Was(s.next)
    /\ s.pc \in {"put", "cas"} =>
         /\ s.next = Successor(s.row, NextStep(s))
         /\ s.row # Missing => Before(Tip(s.row), s.tip) /\ Tip(s.row) # s.tip

ChainInv ==
    /\ Was(ack) /\ Was(backup.ack)
    /\ \A p \in Proc : Chained(sess[p])

Grows == Before(row.record, row'.record)

(* A publication the row has had stays one while the row grows.            *)
LEMMA WasStill ==
    ASSUME row \in Pubs, row' \in Pubs, Grows, NEW pub \in Pubs, Was(pub)
    PROVE  Before(pub.record, row'.record)
BY PubRecord, BeforeTransitive DEF Grows, Was

(* Every row was missing once.                                             *)
LEMMA MissingWas == row \in Pubs => Was(Missing)
<1>1. Missing.record = <<>>
  BY DEF Missing, Publication
<1> QED BY <1>1, PubRecord, EmptyBefore DEF Was

(* The row is one it has had.                                              *)
LEMMA RowWas == row \in Pubs => Was(row)
BY PubRecord, BeforeItself DEF Was

(* What a session knows of the row stays a past of it.                     *)
LEMMA ChainedStill ==
    ASSUME row \in Pubs, row' \in Pubs, Grows, NEW s \in Session, Chained(s)
    PROVE  /\ Before(s.ack.record, row'.record)
           /\ Before(s.row.record, row'.record)
           /\ s.pc = "ack" => Before(s.next.record, row'.record)
<1>1. s.ack \in Pubs /\ s.row \in Pubs /\ s.next \in Pubs
  BY DEF Session
<1> QED BY <1>1, WasStill DEF Chained

(* An idle session knows of nothing.                                       *)
LEMMA IdleChained == row \in Pubs => Chained(Idle)
BY MissingWas DEF Chained, Idle

(* One process's step, or the pond's.                                        *)
LEMMA ChainUpdates ==
    ASSUME TypeInv, TypeInv', ChainInv, Grows, NEW p \in Proc, NEW s, Updates(p, s),
           Chained(s)', UNCHANGED backup, Was(ack)'
    PROVE  ChainInv'
<1>1. \A q \in Proc : sess'[q] = IF q = p THEN s ELSE sess[q]
  BY DEF TypeInv, Updates
<1>2. row \in Pubs /\ row' \in Pubs /\ backup.ack \in Pubs
  BY DEF TypeInv
<1>3. Was(backup.ack)'
  BY <1>2, WasStill DEF ChainInv, Was
<1>4. ASSUME NEW q \in Proc PROVE Chained(sess[q])'
  <2>1. CASE q = p
    BY <1>1, <2>1
  <2>2. CASE q # p
    <3>1. PICK u : u = sess[q]
      OBVIOUS
    <3>2. sess'[q] = u /\ u \in Session /\ Chained(u)
      BY <1>1, <2>2, <3>1, SessionTypes DEF ChainInv
    <3>3. /\ Before(u.ack.record, row'.record) /\ Before(u.row.record, row'.record)
          /\ u.pc = "ack" => Before(u.next.record, row'.record)
      BY <1>2, <3>2, ChainedStill
    <3>4. Chained(u)'
      BY <3>2, <3>3 DEF Chained, Was
    <3> QED BY <3>2, <3>4
  <2> QED BY <2>1, <2>2
<1> QED BY <1>3, <1>4 DEF ChainInv

(* At first nothing is published.                                          *)
LEMMA ChainInit == Init => ChainInv
<1> SUFFICES ASSUME Init PROVE ChainInv
  OBVIOUS
<1>1. row \in Pubs
  BY MissingPub DEF Init
<1>2. Was(Missing) /\ Chained(Idle)
  BY <1>1, MissingWas, IdleChained
<1> QED BY <1>2 DEF Init, ChainInv

(* A step of a push keeps the chain and only extends the row.              *)
LEMMA PushChain ==
    ASSUME TypeInv, ChainInv, NEW p \in Proc, Push(p) \/ Fails(p)
    PROVE  ChainInv' /\ Grows
<1> DEFINE s == sess[p]
<1>1. /\ s \in Session /\ s.next \in Pubs /\ s.row \in Pubs /\ s.tip \in Logs
      /\ ack \in Pubs /\ row \in Pubs
      /\ Chained(s) /\ Was(ack) /\ TypeInv'
      /\ s.pc \in {"remote", "put", "cas"} => s.tip # <<>>
  BY SessionTypes, PushType DEF TypeInv, ChainInv
<1>2. row' \in Pubs /\ Was(row) /\ (row' = row => Grows)
  BY <1>1, RowWas DEF TypeInv, Grows, Was
<1>3. row' = row /\ ack' = ack => Was(ack)'
  BY <1>1 DEF Was
<1>4. ASSUME NEW t, Chained(t), row' = row PROVE Chained(t)'
  BY <1>4 DEF Chained, Was
<1>5. CASE Quits(p)
  <2>1. Updates(p, Idle) /\ UNCHANGED <<backup, ack, row>>
    BY <1>5, QuitsIdle
  <2> QED BY <1>1, <1>2, <1>3, <1>4, <2>1, IdleChained, ChainUpdates
<1>6. CASE OpenControl(p)
  <2>1. Updates(p, Opened(s)) /\ UNCHANGED <<backup, ack, row>>
    BY <1>6, PushUpdates DEF OpenControl, pond
  <2>2. Opened(s).pc = "data" /\ Opened(s).ack = ack /\ Opened(s).row = s.row
    BY <1>1 DEF Opened, Session
  <2>3. Chained(Opened(s))
    BY <1>1, <2>2 DEF Chained
  <2> QED BY <1>1, <1>2, <1>3, <1>4, <2>1, <2>3, ChainUpdates
<1>7. CASE Loads(p)
  <2>1. Updates(p, Loaded(s)) /\ UNCHANGED <<backup, ack, row>>
    BY <1>7 DEF Loads, OpenData, pond
  <2>2. Loaded(s).pc = "remote" /\ Loaded(s).ack = s.ack /\ Loaded(s).row = s.row
    BY <1>1 DEF Loaded, Session
  <2>3. Chained(Loaded(s))
    BY <1>1, <2>2 DEF Chained
  <2> QED BY <1>1, <1>2, <1>3, <1>4, <2>1, <2>3, ChainUpdates
<1>8. CASE FindConverged(p)
  <2>1. Updates(p, Found(s)) /\ UNCHANGED <<backup, ack, row>>
    BY <1>8, PushUpdates DEF FindConverged, pond
  <2>2. /\ Found(s).pc = "ack" /\ Found(s).ack = s.ack
        /\ Found(s).row = row /\ Found(s).next = row
    BY <1>1 DEF Found, Session
  <2>3. Chained(Found(s))
    BY <1>1, <1>2, <2>2 DEF Chained
  <2> QED BY <1>1, <1>2, <1>3, <1>4, <2>1, <2>3, ChainUpdates
<1>9. CASE Prepare(p)
  <2>1. Updates(p, Prepared(s)) /\ UNCHANGED <<backup, ack, row>> /\ s.pc = "remote"
    BY <1>9, PrepareUpdates DEF Prepare, pond
  <2>2. /\ Prepared(s).pc = "put" /\ Prepared(s).tip = s.tip
        /\ Prepared(s).row = row /\ Prepared(s).ack = s.ack
        /\ Prepared(s).next = Successor(row, NextStep(Prepared(s)))
    BY <1>1, <2>1, PreparedSession
  <2>3. row # Missing => Before(Tip(row), s.tip) /\ Tip(row) # s.tip
    BY <1>9 DEF Prepare, Publishable
  <2>4. Chained(Prepared(s))
    BY <1>1, <1>2, <2>2, <2>3 DEF Chained
  <2> QED BY <1>1, <1>2, <1>3, <1>4, <2>1, <2>4, ChainUpdates
<1>10. ASSUME NEW o, PutObject(p, o) PROVE ChainInv' /\ Grows
  <2>1. Updates(p, PutsObjects(s)) /\ UNCHANGED <<backup, ack, row>>
    BY <1>10, PushUpdates DEF PutObject, pond
  <2> DEFINE t == PutsObjects(s)
  <2>2. /\ t.pc = s.pc /\ t.tip = s.tip /\ t.row = s.row
        /\ t.ack = s.ack /\ t.next = s.next
    BY <1>1 DEF PutsObjects, Session
  <2> HIDE DEF t
  <2>3. Chained(t)
    BY <1>1, <2>2 DEF Chained, NextStep
  <2> QED BY <1>1, <1>2, <1>3, <1>4, <2>1, <2>3, ChainUpdates DEF t
<1>11. ASSUME NEW k, PutPack(p, k) PROVE ChainInv' /\ Grows
  <2>1. Updates(p, PutsPack(s, k)) /\ UNCHANGED <<backup, ack, row>>
    BY <1>11, PushUpdates DEF PutPack, pond
  <2> DEFINE t == PutsPack(s, k)
  <2>2. /\ t.pc = s.pc /\ t.tip = s.tip /\ t.row = s.row
        /\ t.ack = s.ack /\ t.next = s.next
    BY <1>1 DEF PutsPack, Session
  <2> HIDE DEF t
  <2>3. Chained(t)
    BY <1>1, <2>2 DEF Chained, NextStep
  <2> QED BY <1>1, <1>2, <1>3, <1>4, <2>1, <2>3, ChainUpdates DEF t
<1>12. CASE PutRecord(p)
  <2>1. Updates(p, At(s, "cas")) /\ UNCHANGED <<backup, ack, row>> /\ s.pc = "put"
    BY <1>12, PushUpdates DEF PutRecord, pond
  <2> DEFINE t == At(s, "cas")
  <2>2. /\ t.pc = "cas" /\ t.tip = s.tip /\ t.row = s.row
        /\ t.ack = s.ack /\ t.next = s.next
    BY <1>1 DEF At, Session
  <2> HIDE DEF t
  <2>3. Chained(t)
    BY <1>1, <2>1, <2>2 DEF Chained, NextStep
  <2> QED BY <1>1, <1>2, <1>3, <1>4, <2>1, <2>3, ChainUpdates DEF t
<1>13. CASE Swaps(p)
  <2>1. row = s.row /\ row' = s.next /\ s.pc = "cas" /\ UNCHANGED <<backup, ack>>
    BY <1>13 DEF Swaps, CompareAndSwap, SwapUnanswered, pond
  <2>2. s.tip \in Tips
    BY <1>1, <2>1 DEF Tips
  <2>3. row' = Successor(row, NextStep(s)) /\ NextStep(s) \in Steps
    BY <1>1, <2>1, <2>2, NextStepTypes DEF Chained
  <2>4. Grows
    BY <1>1, <2>3, SuccessorPub DEF Grows
  <2>5. Was(ack)'
    BY <1>1, <1>2, <2>1, <2>4, WasStill DEF Was
  <2>6. CASE CompareAndSwap(p)
    <3>1. PICK t : t = At(s, "ack")
      OBVIOUS
    <3>2. /\ t.pc = "ack" /\ t.row = s.row /\ t.ack = s.ack /\ t.next = s.next
          /\ Updates(p, t)
      BY <1>1, <2>6, <3>1, PushUpdates DEF At, Session
    <3>3. /\ Before(s.ack.record, row'.record) /\ Before(s.row.record, row'.record)
          /\ Before(s.next.record, row'.record)
      BY <1>1, <1>2, <2>1, <2>4, ChainedStill, PubRecord, BeforeItself
    <3>4. Chained(t)'
      BY <3>2, <3>3 DEF Chained, Was
    <3> QED BY <1>1, <2>1, <2>4, <2>5, <3>2, <3>4, ChainUpdates
  <2>7. CASE SwapUnanswered(p)
    <3>1. Updates(p, Idle)
      BY <2>7, PushUpdates
    <3>2. /\ Before(Missing.record, row'.record)
          /\ Idle.pc = "idle" /\ Idle.ack = Missing /\ Idle.row = Missing
      BY <1>2, PubRecord, EmptyBefore DEF Missing, Publication, Idle
    <3>3. Chained(Idle)'
      BY <3>2 DEF Chained, Was
    <3> QED BY <1>1, <2>1, <2>4, <2>5, <3>1, <3>3, ChainUpdates
  <2> QED BY <1>13, <2>6, <2>7 DEF Swaps
<1>14. CASE WriteAck(p)
  <2>1. Updates(p, Idle) /\ UNCHANGED <<backup, row>> /\ s.pc = "ack" /\ ack' \in {ack, s.next}
    BY <1>14, PushUpdates DEF WriteAck
  <2>2. Was(ack)'
    BY <1>1, <2>1 DEF Was, Chained
  <2> QED BY <1>1, <1>2, <1>4, <2>1, <2>2, IdleChained, ChainUpdates
<1> QED BY PushSteps, <1>5, <1>6, <1>7, <1>8, <1>9, <1>10, <1>11, <1>12, <1>13, <1>14

(* Every step keeps the chain.                                             *)
LEMMA ChainNext == TypeInv /\ ChainInv /\ [Next]_vars => ChainInv'
<1> SUFFICES ASSUME TypeInv, ChainInv, [Next]_vars PROVE ChainInv'
  OBVIOUS
<1>1. ASSUME UNCHANGED <<row, sess>>, Was(ack)', Was(backup.ack)' PROVE ChainInv'
  BY <1>1 DEF ChainInv, Chained, Was
<1>2. CASE Produce
  <2>1. UNCHANGED <<row, sess, ack, backup>>
    BY <1>2, ProduceCommits DEF Commit
  <2> QED BY <1>1, <2>1 DEF ChainInv, Was
<1>3. CASE ClearAcknowledgements
  <2>1. UNCHANGED <<row, sess, backup>> /\ ack' = Missing /\ Was(Missing)
    BY <1>3, MissingWas DEF ClearAcknowledgements, TypeInv
  <2> QED BY <1>1, <2>1 DEF ChainInv, Was
<1>4. CASE CopyDirectory
  <2>1. UNCHANGED <<row, sess, ack>> /\ backup'.ack = ack
    BY <1>4 DEF CopyDirectory
  <2> QED BY <1>1, <2>1 DEF ChainInv, Was
<1>5. CASE PutBackDirectory
  <2>1. UNCHANGED <<row, sess, backup>> /\ ack' = backup.ack
    BY <1>5 DEF PutBackDirectory
  <2> QED BY <1>1, <2>1 DEF ChainInv, Was
<1>6. ASSUME NEW p \in Proc, Push(p) \/ Fails(p) PROVE ChainInv'
  BY <1>6, PushChain
<1>7. CASE UNCHANGED vars
  <2>1. UNCHANGED <<row, sess, ack, backup>>
    BY <1>7 DEF vars, pond
  <2> QED BY <1>1, <2>1 DEF ChainInv, Was
<1> QED BY <1>2, <1>3, <1>4, <1>5, <1>6, <1>7 DEF Next, Intervene

(* The type and the chain of publications are invariant.                   *)
LEMMA Chain == Spec => [](TypeInv /\ ChainInv)
<1>1. Init => TypeInv /\ ChainInv
  BY TypeInit, ChainInit
<1>2. TypeInv /\ ChainInv /\ [Next]_vars => TypeInv' /\ ChainInv'
  BY TypeNext, ChainNext
<1> QED BY <1>1, <1>2, PTL DEF Spec

\* Whatever pushes die, race or lose their answer, and whatever the operator
\* clears or puts back, what write_ack has recorded, what a copy of the pond's
\* directory holds and what a push has read of it are publications the row
\* has had: the skip of remote_ref_is_acknowledged leaves nothing unpublished.
THEOREM AckPublishedHolds == Spec => []AckPublished
<1>1. TypeInv /\ ChainInv => AckPublished
  <2> SUFFICES ASSUME TypeInv, ChainInv PROVE AckPublished
    OBVIOUS
  <2>1. ack \in Pubs /\ backup.ack \in Pubs /\ \A p \in Proc : sess[p].ack \in Pubs
    BY SessionTypes DEF TypeInv
  <2>2. ASSUME NEW pub \in Pubs, Was(pub) PROVE Acknowledges(pub)
    BY <2>2, PubRecord DEF Acknowledges, Was
  <2> QED BY <2>1, <2>2 DEF AckPublished, ChainInv, Chained
<1> QED BY <1>1, Chain, PTL
-----------------------------------------------------------------------------
(* The row and the acknowledgement implement PublishedHistory: a step that   *)
(* moves the row publishes, and any other step acknowledges.                 *)
LEMMA Moves ==
    ASSUME TypeInv, ChainInv, [Next]_vars
    PROVE  \/ row' = row
           \/ /\ ack' = ack
              /\ \E step \in Steps :
                   /\ row' = Successor(row, step)
                   /\ row # Missing => Before(Tip(row), step.tip) /\ Tip(row) # step.tip
<1>1. ASSUME NEW p \in Proc, Swaps(p)
      PROVE  /\ ack' = ack
             /\ \E step \in Steps :
                  /\ row' = Successor(row, step)
                  /\ row # Missing => Before(Tip(row), step.tip) /\ Tip(row) # step.tip
  <2>1. row = sess[p].row /\ row' = sess[p].next /\ sess[p].pc = "cas" /\ ack' = ack
    BY <1>1 DEF Swaps, CompareAndSwap, SwapUnanswered, pond
  <2>2. sess[p].tip \in Tips /\ row \in Pubs /\ Chained(sess[p])
    BY <2>1, SessionTypes DEF TypeInv, ChainInv, Tips
  <2>3. NextStep(sess[p]) \in Steps /\ NextStep(sess[p]).tip = sess[p].tip
    BY <2>1, <2>2, NextStepTypes
  <2> QED BY <2>1, <2>2, <2>3 DEF Chained
<1>2. ASSUME NEW p \in Proc, Push(p) \/ Fails(p), ~ Swaps(p) PROVE row' = row
  BY <1>2, PushSteps, QuitsIdle
     DEF OpenControl, Loads, OpenData, FindConverged, Prepare, PutObject, PutPack,
         PutRecord, WriteAck
<1>3. CASE Produce
  BY <1>3, ProduceCommits DEF Commit
<1>4. CASE Intervene
  BY <1>4 DEF Intervene, ClearAcknowledgements, CopyDirectory, PutBackDirectory
<1>5. CASE UNCHANGED vars
  BY <1>5 DEF vars
<1> QED BY <1>1, <1>2, <1>3, <1>4, <1>5 DEF Next

HistoryOf(pub) == [i \in DOMAIN pub.record |-> pub.record[i].tip]

(* The history of a publication is the tips of its steps.                  *)
LEMMA HistoryOfPub ==
    ASSUME NEW pub \in Pubs
    PROVE  /\ HistoryOf(pub) \in Seq(Tips) /\ Len(HistoryOf(pub)) = Len(pub.record)
           /\ \A i \in 1 .. Len(pub.record) : HistoryOf(pub)[i] = pub.record[i].tip
           /\ pub = Missing => HistoryOf(pub) = <<>>
           /\ pub # Missing => /\ HistoryOf(pub) # <<>>
                               /\ HistoryOf(pub)[Len(HistoryOf(pub))] = Tip(pub)
<1> DEFINE r == pub.record
           n == Len(r)
           h == HistoryOf(pub)
<1>1. r \in Seq(Steps) /\ n \in Nat /\ DOMAIN r = 1 .. n /\ \A i \in 1 .. n : r[i] \in Steps
  BY PubRecord, SMT
<1>2. h \in [1 .. n -> Tips] /\ \A i \in 1 .. n : h[i] = r[i].tip
  BY <1>1, StepTip DEF HistoryOf
<1> HIDE DEF h
<1>3. h \in Seq(Tips) /\ Len(h) = n
  BY <1>1, <1>2, SMT
<1>4. pub = Missing => h = <<>>
  BY <1>3, SMT DEF Missing, Publication
<1>5. pub # Missing => n > 0 /\ h # <<>> /\ n \in 1 .. n
  BY <1>1, <1>3, PubRecord, SMT
<1>6. pub # Missing => h[Len(h)] = Tip(pub)
  BY <1>2, <1>3, <1>5, PubTip
<1> QED BY <1>2, <1>3, <1>4, <1>5, <1>6 DEF h

(* A successful compare_and_swap is a Publish of the abstract history.     *)
LEMMA PublishStep ==
    ASSUME row \in Pubs, row' \in Pubs, NEW step \in Steps, row' = Successor(row, step),
           row # Missing => Before(Tip(row), step.tip) /\ Tip(row) # step.tip, ack' = ack
    PROVE  Published!Publish
<1> DEFINE h == HistoryOf(row)
           g == HistoryOf(row')
           n == Len(h)
<1>1. /\ h \in Seq(Tips) /\ g \in Seq(Tips) /\ n = Len(row.record)
      /\ Len(g) = Len(row'.record) /\ row.record \in Seq(Steps)
      /\ \A i \in 1 .. n : h[i] = row.record[i].tip
      /\ \A i \in 1 .. Len(g) : g[i] = row'.record[i].tip
      /\ row # Missing => h[n] = Tip(row)
      /\ row = Missing => h = <<>>
  BY HistoryOfPub, PubRecord
<1>2. row'.record = Append(row.record, step)
  BY SuccessorPub
<1> HIDE DEF h, g
<1>3. /\ n \in Nat /\ Len(g) = n + 1 /\ g[n + 1] = step.tip
      /\ \A i \in 1 .. n : g[i] = h[i]
  <2>1. /\ Len(row'.record) = Len(row.record) + 1 /\ Len(row.record) \in Nat
        /\ row'.record[Len(row.record) + 1] = step
        /\ \A i \in 1 .. Len(row.record) : row'.record[i] = row.record[i]
    BY <1>1, <1>2, SMT
  <2>2. n \in Nat /\ Len(g) = n + 1
    BY <1>1, <2>1
  <2>3. n + 1 \in 1 .. Len(g) /\ \A i \in 1 .. n : i \in 1 .. Len(g)
    BY <2>2, SMT
  <2>4. n = Len(row.record) /\ g[n + 1] = row'.record[n + 1].tip
    BY <1>1, <2>3
  <2>5. g[n + 1] = step.tip
    BY <2>1, <2>4
  <2>6. ASSUME NEW i \in 1 .. n PROVE g[i] = h[i]
    <3>1. g[i] = row'.record[i].tip /\ h[i] = row.record[i].tip
      BY <1>1, <2>3
    <3> QED BY <2>1, <2>4, <3>1
  <2> QED BY <2>2, <2>5, <2>6
<1>4. SubSeq(g, 1, n) = h
  BY <1>1, <1>3, SMT
<1>5. ASSUME row # Missing PROVE Len(Tip(row)) < Len(step.tip) /\ SubSeq(step.tip, 1, Len(Tip(row))) = Tip(row)
  <2>1. Tip(row) \in Seq(Entry) /\ step.tip \in Seq(Entry)
    BY <1>5, PubTip, StepTip DEF Tips, Logs
  <2> QED BY <1>5, <2>1, SMT DEF Before
<1>6. h # <<>> => Published!Descends(g[Len(g)], h[Len(h)])
  BY <1>1, <1>3, <1>5 DEF Published!Descends
<1> QED BY <1>3, <1>4, <1>6 DEF Published!Publish, h, g, HistoryOf

\* The remote's row and the producer's acknowledgement are a linear history of
\* publications, each a proper descendant of the one before it, of which the
\* producer never knows more than was published: for any number of pushes that
\* race on compare_and_swap, die, or are repeated from an older directory.
THEOREM Refinement == Spec => RefinesPublishedHistory
<1>1. Init => Published!Init
  <2> SUFFICES ASSUME Init PROVE Published!Init
    OBVIOUS
  <2>1. HistoryOf(row) = <<>> /\ ack.generation = 0
    BY MissingPub, HistoryOfPub DEF Init, Missing, Publication
  <2> QED BY <2>1 DEF Published!Init, HistoryOf
<1>2. TypeInv /\ TypeInv' /\ ChainInv /\ ChainInv' /\ [Next]_vars => [Published!Next]_Published!vars
  <2> SUFFICES ASSUME TypeInv, TypeInv', ChainInv, ChainInv', [Next]_vars
               PROVE  Published!Next
    OBVIOUS
  <2>1. row \in Pubs /\ row' \in Pubs /\ ack' \in Pubs /\ Was(ack)'
    BY DEF TypeInv, ChainInv
  <2>2. CASE row' = row
    <3>1. /\ ack'.generation = Len(ack'.record) /\ ack'.generation \in Nat
          /\ row'.record \in Seq(Steps) /\ Len(HistoryOf(row')) = Len(row'.record)
      BY <2>1, PubRecord, HistoryOfPub
    <3>2. ack'.generation \in 0 .. Len(HistoryOf(row))
      BY <2>1, <2>2, <3>1, SMT DEF Was, Before
    <3> QED BY <2>2, <3>2 DEF Published!Next, Published!Acknowledge, HistoryOf
  <2> QED BY <2>1, <2>2, Moves, PublishStep DEF Published!Next
<1> QED BY <1>1, <1>2, Chain, PTL DEF Spec, RefinesPublishedHistory, Published!Spec
-----------------------------------------------------------------------------
(* The remote holds what its row refers to.                                  *)

(* What is in the remote.  A locator names a pack that is there, and so is   *)
(* what the pack holds; until the first publication every pack is a whole    *)
(* series.  A push in progress has put what it no longer has to put.  The    *)
(* row is complete, and the locator of the series it began with is of a      *)
(* whole series.                                                             *)
Locates(s, from) ==
    /\ s \in Seq(Nat) \ {<<>>}
    /\ from \in {0, Len(s) - 1}
    /\ Manifest(s) \in receipts
    /\ [series |-> s, from |-> from] \in packs
    /\ \A i \in from + 1 .. Len(s) : Leaf(s[i]) \in receipts

Kept ==
    /\ receipts \subseteq payloads
    /\ \A s \in DOMAIN locators : Locates(s, locators[s])

Whole == row = Missing => \A s \in DOMAIN locators : locators[s] = 0

Pushing(s) ==
    s.pc \in {"put", "cas"} =>
        /\ NextStep(s).objects \ s.objects \subseteq receipts
        /\ s.packs \subseteq NextStep(s).packs
        /\ \A k \in NextStep(s).packs \ s.packs : k.series \in DOMAIN locators
        /\ s.pc = "cas" => s.objects = {} /\ s.packs = {} /\ s.next.record \in records

SeriesOf(pub) ==
    {Tip(pub)[i].series : i \in Len(pub.record[1].tip) .. Len(Tip(pub))} \ {<<>>}

Complete(pub) ==
    /\ pub.record \in records
    /\ {CommitObject(Tip(pub))} \cup Live(Last(Tip(pub))) \subseteq receipts
    /\ pub.record[1].tip \in Tips
    /\ Before(pub.record[1].tip, Tip(pub))
    /\ SeriesOf(pub) \subseteq DOMAIN locators
    /\ LET s == Last(pub.record[1].tip).series IN s # <<>> => locators[s] = 0

StoreInv ==
    /\ Kept /\ Whole
    /\ \A p \in Proc : Pushing(sess[p])
    /\ row # Missing => Complete(row)

StoreGrows ==
    /\ receipts \subseteq receipts' /\ packs \subseteq packs' /\ records \subseteq records'
    /\ DOMAIN locators \subseteq DOMAIN locators'
    /\ \A s \in DOMAIN locators : locators'[s] = locators[s]

(* What a push has put stays while the store grows.                        *)
LEMMA PushingStill ==
    ASSUME StoreGrows, NEW s, Pushing(s) PROVE Pushing(s)'
BY DEF StoreGrows, Pushing, NextStep

(* The series of the first publication is among those the row refers to.   *)
LEMMA FirstSeries ==
    ASSUME NEW pub, pub.record[1].tip \in Tips, Tip(pub) \in Tips,
           Before(pub.record[1].tip, Tip(pub)), Last(pub.record[1].tip).series # <<>>
    PROVE  Last(pub.record[1].tip).series \in SeriesOf(pub)
<1> DEFINE f == pub.record[1].tip
           t == Tip(pub)
<1>1. f \in Seq(Entry) /\ f # <<>> /\ t \in Seq(Entry)
  BY DEF Tips, Logs
<1>2. Len(f) \in Len(f) .. Len(t) /\ Last(f) = t[Len(f)]
  BY <1>1, LastInSeq, SMT DEF Before
<1> QED BY <1>2 DEF SeriesOf

(* A complete publication stays complete while the store grows.            *)
LEMMA CompleteStill ==
    ASSUME StoreGrows, NEW pub \in Pubs, pub # Missing, Complete(pub) PROVE Complete(pub)'
<1>1. Tip(pub) \in Tips
  BY PubTip
<1>2. LET s == Last(pub.record[1].tip).series IN s # <<>> => s \in DOMAIN locators
  BY <1>1, FirstSeries DEF Complete
<1> QED BY <1>2 DEF StoreGrows, Complete, SeriesOf

(* The store stays closed if what is new in it is.                         *)
LEMMA KeptStill ==
    ASSUME StoreGrows, Kept, receipts' \subseteq payloads',
           \A s \in DOMAIN locators' : s \in DOMAIN locators \/ Locates(s, locators[s])'
    PROVE  Kept'
<1>1. ASSUME NEW s \in DOMAIN locators PROVE Locates(s, locators[s])'
  <2>1. Locates(s, locators[s]) /\ locators'[s] = locators[s]
    BY DEF Kept, StoreGrows
  <2> QED BY <2>1 DEF Locates, StoreGrows
<1> QED BY <1>1 DEF Kept

(* A step that leaves the store keeps what is said of it.                  *)
LEMMA StoreStill ==
    ASSUME UNCHANGED store
    PROVE  /\ StoreGrows /\ (Kept => Kept')
           /\ \A s : Pushing(s) => Pushing(s)'
BY DEF store, StoreGrows, Kept, Locates, Pushing, NextStep

(* An empty store is closed.                                               *)
LEMMA StoreInit == Init => StoreInv
<1> SUFFICES ASSUME Init PROVE StoreInv
  OBVIOUS
<1>1. DOMAIN locators = {}
  BY SMT DEF Init
<1>2. \A p \in Proc : Pushing(sess[p])
  BY DEF Init, Idle, Pushing
<1> QED BY <1>1, <1>2 DEF Init, StoreInv, Kept, Whole

(* A pack of a publication comes with the objects it holds.                  *)
LEMMA StepPacks ==
    ASSUME NEW step \in Steps, NEW k \in step.packs
    PROVE  /\ k = [series |-> k.series, from |-> k.from]
           /\ k.series \in Seq(Nat) \ {<<>>} /\ k.from \in {0, Len(k.series) - 1}
           /\ Manifest(k.series) \in step.objects
           /\ \A i \in k.from + 1 .. Len(k.series) : Leaf(k.series[i]) \in step.objects
<1>1. ASSUME NEW t \in Tips, step = Initial(t)
      PROVE  /\ k = [series |-> k.series, from |-> k.from]
             /\ k.series \in Seq(Nat) \ {<<>>} /\ k.from \in {0, Len(k.series) - 1}
             /\ Manifest(k.series) \in step.objects
             /\ \A i \in k.from + 1 .. Len(k.series) : Leaf(k.series[i]) \in step.objects
  <2> DEFINE s == Last(t).series
  <2>1. Last(t) \in Entry
    BY LastInSeq DEF Tips, Logs
  <2>2. k = [series |-> s, from |-> 0] /\ s # <<>>
    BY <1>1 DEF Initial
  <2>3. s \in Seq(Nat) /\ k.series = s /\ k.from = 0
    BY <2>1, <2>2 DEF Entry
  <2>4. Live(Last(t)) \subseteq step.objects
    BY <1>1 DEF Initial
  <2>5. Manifest(s) \in Live(Last(t)) /\ \A i \in DOMAIN s : Leaf(s[i]) \in Live(Last(t))
    BY <2>2 DEF Live
  <2> HIDE DEF s
  <2>6. \A i \in 0 + 1 .. Len(s) : i \in DOMAIN s
    BY <2>3, SMT
  <2> QED BY <2>2, <2>3, <2>4, <2>5, <2>6
<1>2. ASSUME NEW t \in Tips, NEW b \in Tips, step = Incremental(t, b)
      PROVE  /\ k = [series |-> k.series, from |-> k.from]
             /\ k.series \in Seq(Nat) \ {<<>>} /\ k.from \in {0, Len(k.series) - 1}
             /\ Manifest(k.series) \in step.objects
             /\ \A i \in k.from + 1 .. Len(k.series) : Leaf(k.series[i]) \in step.objects
  <2>1. PICK i \in Len(b) + 1 .. Len(t) : k \in IntroducedPacks(t[i])
    BY <1>2 DEF Incremental
  <2>2. t \in Seq(Entry) /\ b \in Seq(Entry) /\ Lineage(t)
    BY DEF Tips, Logs
  <2>3. i \in DOMAIN t /\ t[i] \in Entry
    BY <2>1, <2>2, SMT
  <2> DEFINE e == t[i]
             s == e.series
  <2>4. e.wrote # "file" /\ k = [series |-> s, from |-> Len(s) - 1]
    BY <2>1 DEF IntroducedPacks
  <2>5. e.wrote = "series" /\ s \in Seq(Nat)
    BY <2>3, <2>4 DEF Entry
  <2>6. s # <<>>
    BY <2>2, <2>3, <2>5 DEF Lineage, Extends
  <2>7. Manifest(s) \in step.objects /\ Leaf(Last(s)) \in step.objects
    <3>1. Manifest(s) \in Introduced(e) /\ Leaf(Last(s)) \in Introduced(e)
      BY <2>4 DEF Introduced
    <3>2. Introduced(e) \subseteq step.objects
      BY <1>2, <2>1 DEF Incremental
    <3> QED BY <3>1, <3>2
  <2> HIDE DEF s
  <2>8. \A j \in (Len(s) - 1) + 1 .. Len(s) : s[j] = Last(s)
    BY <2>5, <2>6, SMT DEF Last
  <2>9. k.series = s /\ k.from = Len(s) - 1
    BY <2>4
  <2> QED BY <2>4, <2>5, <2>6, <2>7, <2>8, <2>9
<1> QED BY <1>1, <1>2 DEF Steps

(* The packs of a first publication are whole series.                      *)
LEMMA InitialPacks ==
    ASSUME NEW t, NEW k \in Initial(t).packs PROVE k.from = 0
BY DEF Initial

(* One process's step.                                                       *)
LEMMA StoreUpdates ==
    ASSUME TypeInv, StoreInv, NEW p \in Proc, NEW s, Updates(p, s), StoreGrows,
           Pushing(s)', Kept', Whole', (row # Missing => Complete(row))'
    PROVE  StoreInv'
<1>1. \A q \in Proc : sess'[q] = IF q = p THEN s ELSE sess[q]
  BY DEF TypeInv, Updates
<1>2. ASSUME NEW q \in Proc PROVE Pushing(sess[q])'
  <2>1. CASE q = p
    BY <1>1, <2>1
  <2>2. CASE q # p
    <3>1. PICK u : u = sess[q]
      OBVIOUS
    <3>2. sess'[q] = u /\ Pushing(u)
      BY <1>1, <2>2, <3>1 DEF StoreInv
    <3>3. Pushing(u)'
      BY <3>2, PushingStill
    <3> QED BY <3>2, <3>3
  <2> QED BY <2>1, <2>2
<1> QED BY <1>2 DEF StoreInv

(* The row stays complete while it stays and the store grows.              *)
LEMMA RowStill ==
    ASSUME TypeInv, StoreInv, StoreGrows, UNCHANGED row
    PROVE  (row # Missing => Complete(row))'
<1>1. PICK pub : pub = row
  OBVIOUS
<1>2. ASSUME pub # Missing PROVE Complete(pub)'
  BY <1>1, <1>2, CompleteStill DEF StoreInv, TypeInv
<1> QED BY <1>1, <1>2

(* A step that leaves the row, the packs and their locators alone.           *)
LEMMA StoreAdds ==
    ASSUME TypeInv, StoreInv, NEW p \in Proc, NEW s, Updates(p, s), Pushing(s)',
           receipts \subseteq receipts', receipts' \subseteq payloads',
           records \subseteq records', packs \subseteq packs', UNCHANGED <<locators, row>>
    PROVE  StoreInv'
<1>1. StoreGrows
  BY DEF StoreGrows
<1>2. Kept'
  BY <1>1, KeptStill DEF StoreInv
<1>3. Whole'
  BY DEF StoreInv, Whole
<1> QED BY <1>1, <1>2, <1>3, RowStill, StoreUpdates

(* The first publication, and the next one.                                  *)
LEMMA InitialComplete ==
    ASSUME StoreInv, row = Missing, NEW t \in Tips, NEW pub \in Pubs,
           pub = Successor(Missing, Initial(t)), pub.record \in records,
           Initial(t).objects \subseteq receipts,
           \A k \in Initial(t).packs : k.series \in DOMAIN locators
    PROVE  Complete(pub)
<1> DEFINE s == Last(t).series
<1>1. Tip(pub) = t /\ pub.record = Append(<<>>, Initial(t)) /\ Initial(t).tip = t
  BY MissingPub, InitialStep, SuccessorPub DEF Missing, Publication
<1>2. pub.record[1] = Initial(t)
  BY <1>1, SMT
<1>3. t \in Seq(Entry) /\ t # <<>> /\ Before(t, t)
  BY BeforeItself DEF Tips, Logs
<1>4. {CommitObject(t)} \cup Live(Last(t)) \subseteq receipts
  BY DEF Initial
<1>5. ASSUME s # <<>> PROVE s \in DOMAIN locators /\ locators[s] = 0
  <2>1. [series |-> s, from |-> 0] \in Initial(t).packs
    BY <1>5 DEF Initial
  <2>2. s \in DOMAIN locators
    BY <2>1
  <2> QED BY <2>2 DEF StoreInv, Whole
<1>6. \A i \in Len(t) .. Len(t) : t[i] = Last(t)
  BY <1>3, SMT DEF Last
<1>7. SeriesOf(pub) \subseteq {s} \ {<<>>}
  BY <1>1, <1>2, <1>6 DEF SeriesOf
<1> QED BY <1>1, <1>2, <1>3, <1>4, <1>5, <1>7 DEF Complete

(* A publication on top of a complete one is complete once its step is put. *)
LEMMA IncrementalComplete ==
    ASSUME row \in Pubs, row # Missing, Complete(row), NEW t \in Tips, NEW pub \in Pubs,
           Before(Tip(row), t), Tip(row) # t,
           pub = Successor(row, Incremental(t, Tip(row))), pub.record \in records,
           Incremental(t, Tip(row)).objects \subseteq receipts,
           \A k \in Incremental(t, Tip(row)).packs : k.series \in DOMAIN locators
    PROVE  Complete(pub)
<1> DEFINE b == Tip(row)
           f == row.record[1].tip
           step == Incremental(t, b)
<1>1. b \in Tips /\ f \in Tips /\ Before(f, b) /\ row.record \in Seq(Steps) /\ row.record # <<>>
  <2>1. b \in Tips
    BY PubTip
  <2>2. f \in Tips /\ Before(f, b)
    BY Zenon DEF Complete
  <2>3. row.record \in Seq(Steps) /\ row.record # <<>>
    BY PubRecord
  <2> QED BY <2>1, <2>2, <2>3
<1>2. Tip(pub) = t /\ pub.record = Append(row.record, step)
  BY <1>1, IncrementalStep, SuccessorPub
<1> HIDE DEF step
<1>3. pub.record[1] = row.record[1]
  BY <1>1, <1>2, SMT
<1>4. /\ t \in Seq(Entry) /\ b \in Seq(Entry) /\ f \in Seq(Entry) /\ b # <<>> /\ f # <<>>
      /\ Lineage(t) /\ t # <<>>
  BY <1>1 DEF Tips, Logs
<1> HIDE DEF b, f
<1>5. /\ Before(b, t) /\ b # t
  BY DEF b
<1>6. /\ Len(f) \in Nat \ {0} /\ Len(b) \in Nat \ {0} /\ Len(t) \in Nat
      /\ Len(f) <= Len(b) /\ Len(b) < Len(t) /\ DOMAIN t = 1 .. Len(t)
      /\ \A i \in 1 .. Len(b) : t[i] = b[i]
      /\ SubSeq(t, 1, Len(t)) = t
  BY <1>1, <1>4, <1>5, SMT DEF Before
<1>7. Before(f, t)
  BY <1>1, <1>4, <1>5, BeforeTransitive
<1>8. \A i \in Len(b) + 1 .. Len(t) :
          /\ Introduced(t[i]) \subseteq receipts
          /\ CommitObject(SubSeq(t, 1, i)) \in receipts
          /\ \A k \in IntroducedPacks(t[i]) : k.series \in DOMAIN locators
  BY DEF Incremental, b
<1>9. CommitObject(t) \in receipts
  <2>1. Len(t) \in Len(b) + 1 .. Len(t)
    BY <1>6, SMT
  <2> QED BY <1>6, <1>8, <2>1
<1>10. Live(Last(t)) \subseteq receipts
  <2>1. Last(t) = t[Len(t)] /\ Last(b) = t[Len(b)] /\ Len(b) \in DOMAIN t /\ Len(t) \in DOMAIN t
    BY <1>6, SMT DEF Last
  <2>2. HeldSince(t, Len(b), Len(t))
    <3>1. Len(b) <= Len(t)
      BY <1>6, SMT
    <3> QED BY <1>4, <2>1, <3>1, Zenon DEF Lineage
  <2>3. Live(Last(b)) \subseteq receipts
    BY DEF Complete, b
  <2> QED BY <1>8, <2>1, <2>2, <2>3 DEF HeldSince
<1>11. ASSUME NEW i \in Len(f) .. Len(t), t[i].series # <<>>
       PROVE  t[i].series \in DOMAIN locators
  <2>1. \A j \in Len(f) .. Len(b) : b[j].series # <<>> => b[j].series \in DOMAIN locators
    BY DEF Complete, SeriesOf, b, f
  <2>3. CASE i <= Len(b)
    <3>1. i \in Len(f) .. Len(b) /\ t[i] = b[i]
      BY <1>6, <2>3, SMT
    <3> QED BY <1>11, <2>1, <3>1
  <2>4. CASE i > Len(b)
    <3>1. /\ Len(b) \in DOMAIN t /\ i \in DOMAIN t /\ Len(b) <= i
          /\ Len(b) \in Len(f) .. Len(b) /\ t[Len(b)] = b[Len(b)]
          /\ \A k \in Len(b) + 1 .. i : k \in Len(b) + 1 .. Len(t)
      BY <1>6, <2>4, SMT
    <3>2. AppendedSince(t, Len(b), i)
      BY <1>4, <3>1 DEF Lineage
    <3>3. CASE t[i].series = t[Len(b)].series
      BY <1>11, <2>1, <3>1, <3>3
    <3>4. ASSUME NEW k \in Len(b) + 1 .. i, t[k].wrote = "series", t[k].series = t[i].series
          PROVE  t[i].series \in DOMAIN locators
      <4>1. [series |-> t[k].series, from |-> Len(t[k].series) - 1] \in IntroducedPacks(t[k])
        BY <3>4 DEF IntroducedPacks
      <4> QED BY <1>8, <3>1, <3>4, <4>1
    <3> QED BY <3>2, <3>3, <3>4 DEF AppendedSince
  <2> QED BY <1>6, <2>3, <2>4, SMT
<1>12. SeriesOf(pub) = {t[i].series : i \in Len(f) .. Len(t)} \ {<<>>}
  BY <1>2, <1>3 DEF SeriesOf, f
<1>13. SeriesOf(pub) \subseteq DOMAIN locators
  BY <1>11, <1>12
<1> QED BY <1>1, <1>2, <1>3, <1>7, <1>9, <1>10, <1>13 DEF Complete, f

(* A pack is put with all that it holds.                                   *)
LEMMA PutPackStore ==
    ASSUME TypeInv, ChainInv, StoreInv, NEW p \in Proc, NEW k \in sess[p].packs, PutPack(p, k)
    PROVE  StoreInv'
<1>1. PICK s : s = sess[p]
  OBVIOUS
<1>2. /\ s \in Session /\ s.row \in Pubs /\ s.tip \in Tips /\ s.pc = "put" /\ s.objects = {}
      /\ Chained(s) /\ Pushing(s) /\ row \in Pubs
      /\ k \in s.packs
  BY <1>1, SessionTypes DEF TypeInv, ChainInv, StoreInv, PutPack, Tips
<1>3. NextStep(s) \in Steps /\ k \in NextStep(s).packs /\ NextStep(s).objects \subseteq receipts
  BY <1>2, NextStepTypes DEF Pushing
<1>4. /\ packs' = packs \cup {k}
      /\ locators' = [x \in DOMAIN locators \cup {k.series} |->
                        IF x \in DOMAIN locators THEN locators[x] ELSE k.from]
      /\ UNCHANGED <<payloads, receipts, records, row>>
  BY DEF PutPack
<1>5. StoreGrows
  BY <1>4 DEF StoreGrows
<1>6. Locates(k.series, k.from)'
  <2>1. /\ k = [series |-> k.series, from |-> k.from]
        /\ k.series \in Seq(Nat) \ {<<>>} /\ k.from \in {0, Len(k.series) - 1}
        /\ Manifest(k.series) \in receipts
        /\ \A i \in k.from + 1 .. Len(k.series) : Leaf(k.series[i]) \in receipts
    BY <1>3, StepPacks
  <2> QED BY <1>4, <2>1 DEF Locates
<1>7. Kept'
  <2>1. \A x \in DOMAIN locators' : x \in DOMAIN locators \/ (x = k.series /\ locators'[x] = k.from)
    BY <1>4
  <2>2. \A x \in DOMAIN locators' : x \in DOMAIN locators \/ Locates(x, locators[x])'
    BY <1>6, <2>1 DEF Locates
  <2> QED BY <1>4, <1>5, <2>2, KeptStill DEF StoreInv, Kept
<1>8. Whole'
  <2>1. ASSUME row = Missing PROVE k.from = 0
    <3>1. Was(s.row) /\ Missing.record = <<>>
      BY <1>2 DEF Chained, Missing, Publication
    <3>2. s.row.record \in Seq(Steps) /\ Before(s.row.record, <<>>)
      BY <1>2, <2>1, <3>1, PubRecord DEF Was
    <3>3. s.row = Missing
      BY <1>2, <3>2, PubRecord, SMT DEF Before
    <3> QED BY <1>3, <3>3, InitialPacks DEF NextStep
  <2> QED BY <1>4, <2>1 DEF StoreInv, Whole
<1>9. PICK t : t = PutsPack(s, k)
  OBVIOUS
<1>10. /\ t.pc = "put" /\ t.row = s.row /\ t.tip = s.tip /\ t.objects = s.objects
       /\ t.packs = s.packs \ {k} /\ t.next = s.next
  BY <1>2, <1>9 DEF PutsPack, Session
<1>11. Pushing(t)'
  <2>1. NextStep(t) = NextStep(s) /\ k.series \in DOMAIN locators'
    BY <1>4, <1>10 DEF NextStep
  <2>2. \A j \in NextStep(s).packs \ t.packs : j.series \in DOMAIN locators'
    BY <1>2, <1>4, <1>10, <2>1 DEF Pushing
  <2> QED BY <1>2, <1>4, <1>10, <2>1, <2>2 DEF Pushing, NextStep
<1>12. Updates(p, t)
  BY <1>1, <1>9, PushUpdates
<1>13. (row # Missing => Complete(row))'
  BY <1>4, <1>5, RowStill
<1> QED BY <1>5, <1>7, <1>8, <1>11, <1>12, <1>13, StoreUpdates

(* The row moves only to a publication that is complete.                   *)
LEMMA SwapStore ==
    ASSUME TypeInv, ChainInv, StoreInv, NEW p \in Proc, Swaps(p)
    PROVE  StoreInv'
<1>1. PICK s : s = sess[p]
  OBVIOUS
<1>2. /\ s \in Session /\ s.row \in Pubs /\ s.next \in Pubs /\ s.tip \in Tips /\ s.pc = "cas"
      /\ Chained(s) /\ Pushing(s) /\ row \in Pubs /\ s.row = row
      /\ row' = s.next /\ UNCHANGED store
  BY <1>1, SessionTypes
     DEF TypeInv, ChainInv, StoreInv, Swaps, CompareAndSwap, SwapUnanswered, Tips
<1>3. /\ NextStep(s).objects \subseteq receipts /\ s.next.record \in records
      /\ \A k \in NextStep(s).packs : k.series \in DOMAIN locators
  BY <1>2 DEF Pushing
<1>4. s.next = Successor(row, NextStep(s)) /\ s.next # Missing
  <2>1. s.next = Successor(row, NextStep(s))
    BY <1>2 DEF Chained
  <2>2. NextStep(s) \in Steps
    BY <1>2, NextStepTypes
  <2>3. Successor(row, NextStep(s)) # Missing
    BY <1>2, <2>2, SuccessorPub
  <2> QED BY <2>1, <2>3
<1>5. Complete(s.next)
  <2>1. CASE row = Missing
    BY <1>2, <1>3, <1>4, <2>1, InitialComplete DEF NextStep
  <2>2. CASE row # Missing
    <3>1. NextStep(s) = Incremental(s.tip, Tip(row)) /\ Complete(row)
      BY <1>2, <2>2 DEF NextStep, StoreInv
    <3>2. Before(Tip(row), s.tip) /\ Tip(row) # s.tip
      BY <1>2, <2>2 DEF Chained
    <3> QED BY <1>2, <1>3, <1>4, <2>2, <3>1, <3>2, IncrementalComplete
  <2> QED BY <2>1, <2>2
<1>6. StoreGrows /\ Kept'
  BY <1>2, StoreStill DEF StoreInv
<1>7. (row # Missing => Complete(row))'
  <2>1. Complete(s.next)'
    BY <1>2, <1>4, <1>5, <1>6, CompleteStill
  <2> QED BY <1>2, <2>1 DEF Complete, SeriesOf
<1>8. Whole'
  BY <1>2, <1>4 DEF Whole
<1>9. PICK t : t = At(s, "ack")
  OBVIOUS
<1>10. t.pc = "ack" /\ Idle.pc = "idle"
  BY <1>2, <1>9 DEF At, Session, Idle
<1>11. Pushing(t)' /\ Pushing(Idle)'
  BY <1>10 DEF Pushing
<1>12. Updates(p, t) \/ Updates(p, Idle)
  BY <1>1, <1>9, PushUpdates DEF Swaps
<1> QED BY <1>6, <1>7, <1>8, <1>11, <1>12, StoreUpdates

(* A step of a push keeps the store.                                       *)
LEMMA PushStore ==
    ASSUME TypeInv, ChainInv, StoreInv, NEW p \in Proc, Push(p) \/ Fails(p)
    PROVE  StoreInv'
<1>1. PICK s : s = sess[p]
  OBVIOUS
<1>2. s \in Session /\ Pushing(s) /\ receipts \subseteq payloads
  BY <1>1, SessionTypes DEF StoreInv, Kept
<1>3. ASSUME NEW t, t.pc \notin {"put", "cas"}, Updates(p, t), UNCHANGED <<row, store>>
      PROVE  StoreInv'
  BY <1>2, <1>3, StoreAdds DEF Pushing, store
<1>4. CASE Quits(p)
  <2>1. /\ Updates(p, Idle) /\ UNCHANGED <<row, receipts, records, locators>>
        /\ payloads \subseteq payloads' /\ packs \subseteq packs'
    BY <1>4, QuitsIdle
       DEF Quits, Refuse, SwapRefused, Crash, OpenData, PutPayloadOnly, PutPackOnly, store
  <2>2. Pushing(Idle)'
    BY DEF Idle, Pushing
  <2> QED BY <1>2, <2>1, <2>2, StoreAdds
<1>5. CASE OpenControl(p)
  <2>1. Updates(p, Opened(s)) /\ UNCHANGED <<row, store>> /\ Opened(s).pc = "data"
    BY <1>1, <1>2, <1>5, PushUpdates DEF OpenControl, Opened, Session
  <2> QED BY <1>3, <2>1
<1>6. CASE Loads(p)
  <2>1. Updates(p, Loaded(s)) /\ UNCHANGED <<row, store>> /\ Loaded(s).pc = "remote"
    BY <1>1, <1>2, <1>6 DEF Loads, OpenData, Loaded, Session
  <2> QED BY <1>3, <2>1
<1>7. CASE FindConverged(p)
  <2>1. Updates(p, Found(s)) /\ UNCHANGED <<row, store>> /\ Found(s).pc = "ack"
    BY <1>1, <1>2, <1>7, PushUpdates DEF FindConverged, Found, Session
  <2> QED BY <1>3, <2>1
<1>8. CASE WriteAck(p)
  <2>1. Updates(p, Idle) /\ UNCHANGED <<row, store>> /\ Idle.pc = "idle"
    BY <1>8, PushUpdates DEF WriteAck, Idle
  <2> QED BY <1>3, <2>1
<1>9. CASE Prepare(p)
  <2>1. PICK t : t = Prepared(s)
    OBVIOUS
  <2>2. s.tip # <<>> /\ UNCHANGED <<row, store>>
    BY <1>1, <1>9 DEF Prepare, TypeInv
  <2>3. /\ t.pc = "put" /\ Updates(p, t)
        /\ t.objects = NextStep(t).objects /\ t.packs = NextStep(t).packs
    BY <1>1, <1>2, <1>9, <2>1, <2>2, PreparedSession, PrepareUpdates
  <2>4. Pushing(t)'
    BY <2>3 DEF Pushing, NextStep
  <2> QED BY <1>2, <2>2, <2>3, <2>4, StoreAdds DEF store
<1>10. ASSUME NEW o, PutObject(p, o) PROVE StoreInv'
  <2>1. PICK t : t = [s EXCEPT !.objects = s.objects \ receipts']
    OBVIOUS
  <2>2. /\ s.pc = "put" /\ receipts' = receipts \cup {o} /\ payloads' = payloads \cup {o}
        /\ UNCHANGED <<row, packs, locators, records>>
        /\ Updates(p, t)
    BY <1>1, <1>10, <2>1, PushUpdates DEF PutObject, PutsObjects
  <2>3. /\ t.pc = "put" /\ t.row = s.row /\ t.tip = s.tip /\ t.packs = s.packs
        /\ t.objects = s.objects \ receipts'
    BY <1>2, <2>1, <2>2 DEF Session
  <2>4. NextStep(t) = NextStep(s)
    BY <2>3 DEF NextStep
  <2>5. NextStep(t).objects \ t.objects \subseteq receipts'
    BY <1>2, <2>2, <2>3, <2>4 DEF Pushing
  <2>6. Pushing(t)'
    BY <1>2, <2>2, <2>3, <2>4, <2>5 DEF Pushing, NextStep
  <2> QED BY <1>2, <2>2, <2>6, StoreAdds
<1>11. CASE PutRecord(p)
  <2>1. PICK t : t = At(s, "cas")
    OBVIOUS
  <2>2. /\ s.pc = "put" /\ s.objects = {} /\ s.packs = {}
        /\ records' = records \cup {s.next.record}
        /\ UNCHANGED <<row, payloads, receipts, packs, locators>> /\ Updates(p, t)
    BY <1>1, <1>11, <2>1, PushUpdates DEF PutRecord
  <2>3. /\ t.pc = "cas" /\ t.row = s.row /\ t.tip = s.tip /\ t.packs = s.packs
        /\ t.objects = s.objects /\ t.next = s.next
    BY <1>2, <2>1 DEF Session, At
  <2>4. NextStep(t) = NextStep(s)
    BY <2>3 DEF NextStep
  <2>5. Pushing(t)'
    BY <1>2, <2>2, <2>3, <2>4 DEF Pushing, NextStep
  <2> QED BY <1>2, <2>2, <2>5, StoreAdds
<1> QED BY PushSteps, PutPackStore, SwapStore, <1>4, <1>5, <1>6, <1>7, <1>8, <1>9, <1>10, <1>11

(* Every step keeps the store.                                             *)
LEMMA StoreNext == TypeInv /\ ChainInv /\ StoreInv /\ [Next]_vars => StoreInv'
<1> SUFFICES ASSUME TypeInv, ChainInv, StoreInv, [Next]_vars PROVE StoreInv'
  OBVIOUS
<1>1. ASSUME UNCHANGED <<row, sess, store>> PROVE StoreInv'
  <2>1. StoreGrows /\ Kept' /\ \A p \in Proc : Pushing(sess[p])'
    BY <1>1, StoreStill DEF StoreInv, Pushing, NextStep
  <2>2. Whole'
    BY <1>1 DEF StoreInv, Whole, store
  <2> QED BY <1>1, <2>1, <2>2, RowStill DEF StoreInv
<1>2. CASE Produce
  BY <1>1, <1>2, ProduceCommits DEF Commit
<1>3. CASE Intervene
  BY <1>1, <1>3 DEF Intervene, ClearAcknowledgements, CopyDirectory, PutBackDirectory
<1>4. ASSUME NEW p \in Proc, Push(p) \/ Fails(p) PROVE StoreInv'
  BY <1>4, PushStore
<1>5. CASE UNCHANGED vars
  BY <1>1, <1>5 DEF vars
<1> QED BY <1>2, <1>3, <1>4, <1>5 DEF Next

(* A pack that does not begin with its series was made when its series was   *)
(* extended after the first publication, and what it extends is published.   *)
LEMMA Readability ==
    ASSUME TypeInv, StoreInv, row # Missing
    PROVE  SeriesReadable
<1> DEFINE t == Tip(row)
           f == row.record[1].tip
<1>1. /\ t \in Tips /\ f \in Tips /\ Before(f, t) /\ Kept
      /\ SeriesOf(row) \subseteq DOMAIN locators /\ PublishedSeries = SeriesOf(row)
      /\ Last(f).series # <<>> => locators[Last(f).series] = 0
  BY PubTip DEF TypeInv, StoreInv, Complete, SeriesOf, PublishedSeries
<1>2. /\ t \in Seq(Entry) /\ f \in Seq(Entry) /\ f # <<>> /\ Lineage(t)
  BY <1>1 DEF Tips, Logs
<1>3. SeriesOf(row) = {t[i].series : i \in Len(f) .. Len(t)} \ {<<>>}
  BY DEF SeriesOf
<1> HIDE DEF t, f
<1>4. /\ Len(f) \in Nat \ {0} /\ Len(t) \in Nat /\ Len(f) <= Len(t) /\ DOMAIN t = 1 .. Len(t)
      /\ Last(f) = t[Len(f)]
      /\ \A i \in 1 .. Len(t) : t[i] \in Entry
  BY <1>1, <1>2, SMT DEF Before, Last
<1>5. ASSUME NEW s \in PublishedSeries, locators[s] > 0
      PROVE  SubSeq(s, 1, locators[s]) \in PublishedSeries
  <2>1. PICK i \in Len(f) .. Len(t) : s = t[i].series
    BY <1>1, <1>3
  <2>2. s # <<>> /\ s \in DOMAIN locators
    BY <1>1, <1>3
  <2>3. Locates(s, locators[s])
    BY <1>1, <2>2 DEF Kept
  <2>4. s \in Seq(Nat) /\ locators[s] = Len(s) - 1 /\ Len(s) > 1
    BY <1>5, <2>3, SMT DEF Locates
  <2>5. AppendedSince(t, Len(f), i)
    BY <1>2, <1>4, <2>1, SMT DEF Lineage
  <2>6. t[i].series # t[Len(f)].series
    BY <1>1, <1>4, <1>5, <2>1, <2>2, SMT
  <2>7. PICK k \in Len(f) + 1 .. i : t[k].wrote = "series" /\ t[k].series = s
    BY <2>1, <2>5, <2>6 DEF AppendedSince
  <2>8. k \in DOMAIN t /\ k - 1 \in Len(f) .. Len(t)
    BY <1>4, <2>1, <2>7, SMT
  <2>9. t[k - 1].series = SubSeq(s, 1, Len(s) - 1)
    BY <1>2, <2>7, <2>8 DEF Lineage, Extends
  <2>10. SubSeq(s, 1, Len(s) - 1) # <<>>
    BY <2>4, ShortenedOnce
  <2> QED BY <1>1, <1>3, <2>4, <2>8, <2>9, <2>10
<1>6. ASSUME NEW s \in PublishedSeries PROVE s \in DOMAIN locators /\ Locates(s, locators[s])
  BY <1>1 DEF Kept
<1> QED BY <1>5, <1>6 DEF SeriesReadable, Locates

\* At every moment, whatever pushes were interrupted between two of their
\* requests (put_immutable_object, put_immutable_pack, the record), what the
\* row of the remote refers to is there: its record, the commit, every object
\* of its snapshot with payload and receipt, and a readable chain of packs for
\* every state of the series since the first publication.
THEOREM RowCompleteHolds == Spec => []RowComplete
<1>1. Init => StoreInv
  BY StoreInit
<1>2. TypeInv /\ ChainInv /\ StoreInv /\ [Next]_vars => StoreInv'
  BY StoreNext
<1>3. TypeInv /\ StoreInv => RowComplete
  <2> SUFFICES ASSUME TypeInv, StoreInv, row # Missing
               PROVE  /\ row.record \in records
                      /\ {CommitObject(Tip(row))} \cup Live(Last(Tip(row))) \subseteq receipts \cap payloads
                      /\ SeriesReadable
    BY DEF RowComplete
  <2>1. Complete(row) /\ receipts \subseteq payloads
    BY DEF StoreInv, Kept
  <2> QED BY <2>1, Readability DEF Complete
<1> QED BY <1>1, <1>2, <1>3, Chain, PTL DEF Spec
=============================================================================
