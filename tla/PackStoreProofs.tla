--------------------------- MODULE PackStoreProofs ---------------------------
(***************************************************************************)
(* The proofs of PackStore, for any threshold, any layouts and any number  *)
(* of commits, upgrades and crashes.                                       *)
(***************************************************************************)
EXTENDS PackStore, FiniteSetTheorems, WellFoundedInduction, TLAPS

(* The packs a repack can write.                                           *)
Packs == {[series |-> n, objects |-> CutInto(n, size)] : n \in States \ {0}, size \in Nat \ {0}}

Runs == [pc : {"idle", "objects", "layout", "prune", "retain", "sweep"}, live : Nat,
         keep : Packs \cup {None}, todo : SUBSET (Nat \cup Packs \cup (Nat \X Nat)),
         at : Packs \cup {None}]

Readers == [pc : {"idle", "resolved", "reading", "verify", "fetch", "failed"},
            kind : {"pull", "publish"}, series : Nat, names : SUBSET Packs,
            found : SUBSET Packs, want : SUBSET (Nat \X Nat), runs : 0..2, old : BOOLEAN]

TypeInv ==
    /\ scenario \in Scenarios /\ layout \in 1..Len(scenario.layouts)
    /\ live \in States /\ ships \subseteq States
    /\ objects \subseteq Nat \X Nat /\ packs \subseteq Packs /\ dirs \subseteq Nat
    /\ run \in Runs /\ reader \in Readers
    /\ run.pc \in {"objects", "sweep"} => run.todo \subseteq Nat \X Nat
    /\ run.pc = "objects" => run.keep \in Packs

-----------------------------------------------------------------------------
(* Smallest elements.                                                      *)

(* A set of numbers has a smallest element.                                *)
LEMMA Smallest ==
    ASSUME NEW T, T \subseteq Nat, T # {}
    PROVE  \E x \in T : \A y \in T : x <= y
<1>1. PICK x \in T : \A y \in T : ~ (<<y, x>> \in OpToRel(<, Nat))
  BY NatLessThanWellFounded, WFMin, Zenon
<1>2. ASSUME NEW y \in T PROVE ~ (y < x)
  <2>1. ~ (<<y, x>> \in OpToRel(<, Nat)) /\ y \in Nat /\ x \in Nat
    BY <1>1, Zenon
  <2> QED BY <2>1, SMT DEF OpToRel
<1>3. \A y \in T : x <= y
  BY <1>2, SMT
<1> QED BY <1>3

(* The smaller of two numbers.                                             *)
LEMMA SmallestOfPair ==
    ASSUME NEW a \in Int, NEW b \in Int
    PROVE  Min({a, b}) = IF a <= b THEN a ELSE b
<1>1. \E x \in {a, b} : \A y \in {a, b} : x =< y
  BY SMT
<1> DEFINE m == Min({a, b})
<1>2. m \in {a, b} /\ \A y \in {a, b} : m =< y
  BY <1>1, Zenon DEF Min
<1> HIDE DEF m
<1>3. m = IF a <= b THEN a ELSE b
  BY <1>2, SMT
<1> QED BY <1>3 DEF m

(* The object a loop takes next is one of those it has left.               *)
LEMMA FirstOfIn ==
    ASSUME NEW os, os \subseteq Nat \X Nat, os # {}
    PROVE  FirstOf(os) \in os
<1> DEFINE T == {o[1] : o \in os}
<1>1. T \subseteq Nat /\ T # {}
  OBVIOUS
<1>2. PICK x \in T : \A y \in T : x <= y
  BY <1>1, Smallest
<1>3. PICK o \in os : x = o[1]
  BY <1>2
<1>4. \A q \in os : o[1] <= q[1]
  BY <1>2, <1>3
<1> QED BY <1>4, Zenon DEF FirstOf

-----------------------------------------------------------------------------
(* Packs.                                                                  *)

EndOf(j, n, size) == IF j + size - 1 <= n THEN j + size - 1 ELSE n

(* The objects of a pack begin at every size-th leaf.                      *)
LEMMA CutIntoRuns ==
    ASSUME NEW n \in Nat, NEW size \in Nat \ {0}
    PROVE  CutInto(n, size) = {<<j, EndOf(j, n, size)>> : j \in {i \in 1..n : (i - 1) % size = 0}}
<1>1. ASSUME NEW j \in 1..n PROVE Min({j + size - 1, n}) = EndOf(j, n, size)
  <2>1. j + size - 1 \in Int /\ n \in Int
    BY SMT
  <2> HIDE DEF EndOf
  <2> QED BY <2>1, SmallestOfPair DEF EndOf
<1> QED BY <1>1 DEF CutInto

(* An object is a first and a last leaf of its series.                     *)
LEMMA CutIntoPairs ==
    ASSUME NEW n \in Nat, NEW size \in Nat \ {0}
    PROVE  CutInto(n, size) \subseteq (1..n) \X (1..n)
<1>1. ASSUME NEW j \in 1..n PROVE EndOf(j, n, size) \in 1..n
  BY SMT DEF EndOf
<1> QED BY <1>1, CutIntoRuns

(* A pack has a series, a set of objects and a fanout.                     *)
LEMMA PackFacts ==
    ASSUME NEW p \in Packs
    PROVE  /\ p.series \in States /\ p.series \in Nat /\ p.series # 0
           /\ p.objects \subseteq Nat \X Nat /\ Fanout(p) \in Nat /\ p # None
<1>1. PICK n \in States \ {0}, size \in Nat \ {0} :
          p = [series |-> n, objects |-> CutInto(n, size)]
  BY DEF Packs
<1>2. n \in Nat /\ n # 0 /\ p.series = n /\ p.objects = CutInto(n, size)
  BY <1>1, PackAssumption
<1>3. p.objects \subseteq (1..n) \X (1..n)
  BY <1>2, CutIntoPairs
<1>4. IsFiniteSet(1..n) /\ 1..n \subseteq Nat
  BY <1>2, FS_Interval, SMT
<1>5. IsFiniteSet((1..n) \X (1..n))
  BY <1>4, FS_Product
<1>6. IsFiniteSet(p.objects)
  BY <1>3, <1>5, FS_Subset
<1>7. Fanout(p) \in Nat
  BY <1>6, FS_CardinalityType DEF Fanout
<1>8. p # None
  BY <1>2 DEF None
<1> QED BY <1>2, <1>3, <1>4, <1>7, <1>8

(* Of some packs, those with the fewest objects are some.                  *)
LEMMA FewestIn ==
    ASSUME NEW ps, ps \subseteq Packs, ps # {}
    PROVE  Fewest(ps) # {} /\ Fewest(ps) \subseteq ps
<1> DEFINE T == {Fanout(p) : p \in ps}
<1>1. T \subseteq Nat /\ T # {}
  BY PackFacts
<1>2. PICK x \in T : \A y \in T : x <= y
  BY <1>1, Smallest
<1>3. PICK p \in ps : x = Fanout(p)
  BY <1>2
<1>4. \A q \in ps : Fanout(p) <= Fanout(q)
  BY <1>2, <1>3
<1> QED BY <1>4 DEF Fewest

(* The current pack of a series is a pack of that series that is there.    *)
LEMMA CurrentPackIn ==
    ASSUME packs \subseteq Packs, NEW n, CurrentPack(n) # None
    PROVE  CurrentPack(n) \in packs /\ CurrentPack(n).series = n
<1>1. Advertised(n) # {}
  BY DEF CurrentPack
<1>2. Advertised(n) \subseteq Packs
  BY DEF Advertised
<1>3. CurrentPack(n) \in Fewest(Advertised(n))
  BY <1>1, <1>2, FewestIn DEF CurrentPack
<1>4. CurrentPack(n) \in Advertised(n)
  BY <1>1, <1>2, <1>3, FewestIn
<1> QED BY <1>4 DEF Advertised

(* An element of a sequence over a set is in the set.                      *)
LEMMA ElementInSeq ==
    ASSUME NEW S, NEW s \in Seq(S), NEW i \in 1..Len(s)
    PROVE  s[i] \in S
BY SMT

(* A repack writes a pack of the series it was asked to repack.            *)
LEMMA Repacked ==
    ASSUME TypeInv, NEW n \in ships, NeedsRepack(n)
    PROVE  RepackedPack(n) \in Packs /\ RepackedPack(n).series = n
<1>1. Layout.rows \in Nat \ {0} /\ Layout.fits \in Nat \ {0}
  <2>1. /\ scenario.layouts \in Seq([rows : Nat \ {0}, fits : Nat \ {0}])
        /\ layout \in 1..Len(scenario.layouts)
    BY ScenarioAssumption DEF TypeInv
  <2>2. Layout \in [rows : Nat \ {0}, fits : Nat \ {0}]
    BY <2>1, ElementInSeq DEF Layout
  <2> QED BY <2>2
<1>2. Min({Layout.rows, Layout.fits}) \in Nat \ {0}
  BY <1>1, SmallestOfPair, SMT
<1>3. n \in States /\ n # 0
  BY PackAssumption, SMT DEF TypeInv, NeedsRepack
<1> QED BY <1>2, <1>3 DEF RepackedPack, Packs

-----------------------------------------------------------------------------
(* Types.                                                                  *)

(* A new store has its type.                                               *)
LEMMA TypeInit == Init => TypeInv
<1> SUFFICES ASSUME Init PROVE TypeInv
  OBVIOUS
<1>1. layout \in 1..Len(scenario.layouts)
  <2>1. scenario.layouts \in Seq([rows : Nat \ {0}, fits : Nat \ {0}]) /\ scenario.layouts # <<>>
    BY ScenarioAssumption DEF Init
  <2> QED BY <2>1, SMT DEF Init
<1>2. run \in Runs /\ run.pc = "idle"
  BY DEF Init, Idle, Runs
<1>3. reader \in Readers
  BY SMT DEF Init, NoReader, Readers
<1> QED BY <1>1, <1>2, <1>3 DEF Init, TypeInv

(* A survey begins a repack of its series, or goes on to prune.            *)
LEMMA SurveyRun ==
    ASSUME TypeInv, NEW n \in ships, Survey(n)
    PROVE  /\ run' \in Runs /\ run'.live = n /\ run'.at = None
           /\ \/ /\ run'.pc = "objects" /\ run'.keep = RepackedPack(n)
                 /\ RepackedPack(n) \in Packs /\ RepackedPack(n).series = n
                 /\ run'.todo = run'.keep.objects /\ run'.todo \subseteq Nat \X Nat
              \/ /\ run'.pc = "prune" /\ run'.todo = dirs
                 /\ run'.keep # None => run'.keep \in packs /\ run'.keep.series = n
<1>1. n \in Nat /\ dirs \subseteq Nat /\ packs \subseteq Packs
  BY PackAssumption DEF TypeInv
<1>2. CASE NeedsRepack(n)
  <2>1. RepackedPack(n) \in Packs /\ RepackedPack(n).series = n
    BY <1>2, Repacked
  <2>2. RepackedPack(n).objects \subseteq Nat \X Nat
    BY <2>1, PackFacts
  <2>3. run' = [Idle EXCEPT !.pc = "objects", !.live = n, !.keep = RepackedPack(n),
                            !.todo = RepackedPack(n).objects]
    BY <1>2 DEF Survey
  <2> QED BY <1>1, <2>1, <2>2, <2>3 DEF Idle, Runs
<1>3. CASE ~ NeedsRepack(n)
  <2> DEFINE k == IF n > Threshold THEN CurrentPack(n) ELSE None
  <2>1. k # None => k \in packs /\ k.series = n
    BY <1>1, CurrentPackIn
  <2>2. run' = [Idle EXCEPT !.pc = "prune", !.live = n, !.todo = dirs, !.keep = k]
    BY <1>3 DEF Survey
  <2> HIDE DEF k
  <2>3. k \in Packs \cup {None}
    BY <1>1, <2>1
  <2> QED BY <1>1, <2>1, <2>2, <2>3 DEF Idle, Runs
<1> QED BY <1>2, <1>3

(* A survey during a read is counted, and disturbs nothing else of it.     *)
LEMMA OverlapRuns ==
    ASSUME TypeInv, NEW n, Survey(n)
    PROVE  /\ reader' \in Readers
           /\ reader'.pc = reader.pc /\ reader'.names = reader.names /\ reader'.old = reader.old
           /\ reader'.found = reader.found /\ reader'.want = reader.want
           /\ reader.pc # "idle" => reader'.runs = IF reader.runs = 0 THEN 1 ELSE 2
<1>1. reader \in Readers /\ reader.runs \in 0..2
  BY DEF TypeInv, Readers
<1>2. Min({2, reader.runs + 1}) = IF reader.runs = 0 THEN 1 ELSE 2
  BY <1>1, SmallestOfPair, SMT
<1>3. (IF reader.runs = 0 THEN 1 ELSE 2) \in 0..2
  BY SMT
<1> QED BY <1>1, <1>2, <1>3 DEF Survey, Overlap, Readers

(* A loop that has visited d has all but d left.                           *)
LEMMA VisitedRun ==
    ASSUME TypeInv, NEW d
    PROVE  /\ Visited(d) \in Runs /\ Visited(d).todo = run.todo \ {d}
           /\ Visited(d).pc = run.pc /\ Visited(d).live = run.live
           /\ Visited(d).keep = run.keep /\ Visited(d).at = run.at
BY DEF TypeInv, Visited, Runs

(* The steps of a run that visit one entry of its list, and those that     *)
(* leave the run where it is.                                              *)
Visits(d) ==
    \/ PruneLive(d) \/ MarkDir(d) \/ RemoveDirMarker(d)
    \/ RetainSelected(d) \/ MarkPack(d)
Stays(d) ==
    RemoveDirEntry(d) \/ RemoveDir(d) \/ RemoveLayoutMarker(d)

(* The steps of a maintenance run: visits, steps that stay, and the others. *)
LEMMA MaintainSteps ==
    ASSUME Maintain
    PROVE  \/ \E d : Visits(d) \/ Stays(d) \/ (d \in packs /\ RemovePackMarker(d))
           \/ WritePackObject \/ PublishPackIndex \/ WriteTableLayoutMarker
           \/ EndPrune \/ RemovePackIndex \/ EndRetain \/ SweepObject \/ Finish
BY Zenon DEF Maintain, Visits, Stays

(* A maintenance step keeps the type.                                      *)
LEMMA MaintainType ==
    ASSUME TypeInv, Maintain
    PROVE  TypeInv'
<1>1. /\ run \in Runs /\ objects \subseteq Nat \X Nat
      /\ packs \subseteq Packs /\ dirs \subseteq Nat
      /\ run.todo \subseteq Nat \cup Packs \cup (Nat \X Nat) /\ run.keep \in Packs \cup {None}
      /\ run.pc \in {"objects", "sweep"} => run.todo \subseteq Nat \X Nat
      /\ run.pc = "objects" => run.keep \in Packs
  BY DEF TypeInv, Runs
<1>2. ASSUME UNCHANGED <<env, reader>>, objects' \subseteq Nat \X Nat, packs' \subseteq Packs,
             dirs' \subseteq Nat, run' \in Runs,
             run'.pc \in {"objects", "sweep"} => run'.todo \subseteq Nat \X Nat,
             run'.pc = "objects" => run'.keep \in Packs
      PROVE  TypeInv'
  BY <1>2 DEF TypeInv, env, bounds
<1>3. ASSUME NEW d, Visits(d) PROVE TypeInv'
  <2>1. UNCHANGED <<env, reader, objects, packs, dirs>> /\ run' = Visited(d)
    BY <1>3 DEF Visits, PruneLive, MarkDir, RemoveDirMarker, RetainSelected, MarkPack
  <2> QED BY <1>1, <1>2, <2>1, VisitedRun
<1>4. ASSUME NEW d, Stays(d) PROVE TypeInv'
  <2>1. UNCHANGED <<env, reader, objects, run>> /\ packs' \subseteq packs /\ dirs' \subseteq dirs
    BY <1>4 DEF Stays, RemoveDirEntry, RemoveDir, RemoveLayoutMarker
  <2> QED BY <1>1, <1>2, <2>1
<1>5. ASSUME NEW p \in packs, RemovePackMarker(p) PROVE TypeInv'
  <2>1. run' \in Runs /\ run'.pc = "retain"
    BY <1>1, <1>5 DEF RemovePackMarker, Runs
  <2> QED BY <1>1, <1>2, <1>5, <2>1 DEF RemovePackMarker
<1>6. CASE WritePackObject
  <2>1. FirstOf(run.todo) \in run.todo /\ run.todo \subseteq Nat \X Nat
    BY <1>1, <1>6, FirstOfIn DEF WritePackObject
  <2>2. run' = Visited(FirstOf(run.todo))
    BY <1>6 DEF WritePackObject, Visited
  <2> QED BY <1>1, <1>2, <1>6, <2>1, <2>2, VisitedRun DEF WritePackObject
<1>7. CASE SweepObject
  <2>1. /\ run' = Visited(FirstOf(run.todo)) /\ objects' \subseteq objects /\ run.pc = "sweep"
        /\ UNCHANGED <<packs, dirs, env, reader>>
    BY <1>7 DEF SweepObject
  <2> QED BY <1>1, <1>2, <2>1, VisitedRun
<1>8. CASE PublishPackIndex
  <2>1. run.keep \in Packs /\ run.keep.series \in Nat
    BY <1>1, <1>8, PackFacts DEF PublishPackIndex
  <2>2. packs' \subseteq Packs /\ dirs' \subseteq Nat
    BY <1>1, <1>8, <2>1 DEF PublishPackIndex
  <2>3. run' \in Runs /\ run'.pc \in {"layout", "prune"}
    BY <1>1, <1>8, <2>2 DEF PublishPackIndex, Runs
  <2> QED BY <1>1, <1>2, <1>8, <2>2, <2>3 DEF PublishPackIndex
<1>9. CASE WriteTableLayoutMarker
  <2>1. run' \in Runs /\ run'.pc = "prune"
    BY <1>1, <1>9 DEF WriteTableLayoutMarker, Runs
  <2> QED BY <1>1, <1>2, <1>9, <2>1 DEF WriteTableLayoutMarker
<1>10. CASE EndPrune
  <2>1. /\ SweepList(packs) \subseteq Nat \X Nat /\ Advertised(run.live) \subseteq Packs
        /\ run' = IF run.keep = None
                  THEN [run EXCEPT !.pc = "sweep", !.todo = SweepList(packs)]
                  ELSE [run EXCEPT !.pc = "retain", !.todo = Advertised(run.live)]
        /\ UNCHANGED <<disk, env, reader>>
    BY <1>1, <1>10 DEF EndPrune, SweepList, Advertised
  <2>2. /\ run' \in Runs /\ run'.pc # "objects"
        /\ run'.pc = "sweep" => run'.todo \subseteq Nat \X Nat
    BY <1>1, <2>1 DEF Runs
  <2> QED BY <1>1, <1>2, <2>1, <2>2 DEF disk
<1>11. CASE EndRetain
  <2>1. /\ SweepList(packs) \subseteq Nat \X Nat
        /\ run' = [run EXCEPT !.pc = "sweep", !.todo = SweepList(packs)]
        /\ UNCHANGED <<objects, packs, dirs, env, reader>>
    BY <1>1, <1>11 DEF EndRetain, SweepList
  <2>2. run' \in Runs /\ run'.pc = "sweep" /\ run'.todo \subseteq Nat \X Nat
    BY <1>1, <2>1 DEF Runs
  <2> QED BY <1>1, <1>2, <2>1, <2>2
<1>12. CASE RemovePackIndex
  <2>1. run' \in Runs /\ run'.pc = "retain" /\ packs' \subseteq packs
    BY <1>1, <1>12 DEF RemovePackIndex, Runs
  <2> QED BY <1>1, <1>2, <1>12, <2>1 DEF RemovePackIndex
<1>13. CASE Finish
  <2>1. run' \in Runs /\ run'.pc = "idle"
    BY <1>13 DEF Finish, Idle, Runs
  <2> QED BY <1>1, <1>2, <1>13, <2>1 DEF Finish, disk
<1> QED BY MaintainSteps, <1>3, <1>4, <1>5, <1>6, <1>7, <1>8, <1>9, <1>10, <1>11, <1>12, <1>13

(* No reader is a reader state.                                            *)
LEMMA NoReaderType == NoReader \in Readers
BY SMT DEF NoReader, Readers

(* A reader that has failed is a reader state.                             *)
LEMMA FailedType == TypeInv => Failed \in Readers
BY NoReaderType DEF TypeInv, Failed, Readers

(* The objects of some packs.                                              *)
LEMMA PackObjects ==
    ASSUME NEW ps, ps \subseteq Packs
    PROVE  UNION {p.objects : p \in ps} \subseteq Nat \X Nat
BY PackFacts

(* A step of a reader keeps the type.                                      *)
LEMMA ReadType ==
    ASSUME TypeInv, Read
    PROVE  TypeInv'
<1>1. /\ reader \in Readers /\ packs \subseteq Packs /\ live \in Nat /\ scenario \in Scenarios
      /\ reader.names \subseteq Packs /\ reader.found \subseteq Packs
  BY PackAssumption DEF TypeInv, Readers
<1>2. UNCHANGED <<disk, env, run>>
  BY DEF Read, Resolve, ListPacks, ReadPackIndex, SelectPack, BuildPlan, FetchObject, EndFetch, Retry
<1>3. ASSUME reader' \in Readers PROVE TypeInv'
  BY <1>2, <1>3 DEF TypeInv, disk, env, bounds
<1>4. ASSUME NEW kind \in scenario.readers, Resolve(kind) PROVE reader' \in Readers
  <2>1. kind \in {"pull", "publish"}
    BY <1>1, ScenarioAssumption
  <2>2. (IF run.pc = "idle" THEN 0 ELSE 1) \in 0..2
    BY SMT
  <2>3. reader' = [NoReader EXCEPT !.pc = "resolved", !.kind = kind, !.series = live,
                                   !.runs = IF run.pc = "idle" THEN 0 ELSE 1]
    BY <1>4 DEF Resolve
  <2> QED BY <1>1, <2>1, <2>2, <2>3, NoReaderType DEF Readers
<1>5. ASSUME ListPacks PROVE reader' \in Readers
  <2> DEFINE listed == IF reader.kind = "pull" THEN Advertised(reader.series) ELSE packs
             o == \E p \in listed : p \in stale \cup {run.at} \/ p.series \in staleDirs
  <2>1. listed \subseteq Packs /\ o \in BOOLEAN
    BY <1>1 DEF Advertised
  <2>2. reader' = [reader EXCEPT !.pc = "reading", !.names = listed, !.old = o]
    BY <1>5 DEF ListPacks
  <2> HIDE DEF listed, o
  <2> QED BY <1>1, <2>1, <2>2 DEF Readers
<1>6. ASSUME NEW p \in reader.names, ReadPackIndex(p) PROVE reader' \in Readers
  <2>1. p \in Packs
    BY <1>1
  <2>2. \/ reader' = [reader EXCEPT !.names = @ \ {p}, !.found = @ \cup {p}]
        \/ reader' = [reader EXCEPT !.names = @ \ {p}]
        \/ reader' = Failed
    BY <1>6 DEF ReadPackIndex
  <2>3. CASE reader' = [reader EXCEPT !.names = @ \ {p}, !.found = @ \cup {p}]
    BY <1>1, <2>1, <2>3 DEF Readers
  <2>4. CASE reader' = [reader EXCEPT !.names = @ \ {p}]
    BY <1>1, <2>4 DEF Readers
  <2> QED BY <2>2, <2>3, <2>4, FailedType
<1>7. ASSUME SelectPack PROVE reader' \in Readers
  <2>1. CASE reader.found = {}
    BY <1>7, <2>1, NoReaderType DEF SelectPack
  <2>2. CASE reader.found # {}
    <3>1. PICK p \in Fewest(reader.found) :
              reader' = [reader EXCEPT !.pc = "fetch", !.found = {}, !.want = p.objects]
      BY <1>7, <2>2 DEF SelectPack
    <3>2. p.objects \subseteq Nat \X Nat
      BY <1>1, PackFacts DEF Fewest
    <3> QED BY <1>1, <3>1, <3>2 DEF Readers
  <2> QED BY <2>1, <2>2
<1>8. ASSUME BuildPlan \/ EndFetch PROVE reader' \in Readers
  <2> DEFINE w == UNION {p.objects : p \in reader.found}
  <2>1. w \subseteq Nat \X Nat
    BY <1>1, PackObjects
  <2>2. \/ reader' = [reader EXCEPT !.pc = "verify", !.want = w]
        \/ reader' = [reader EXCEPT !.pc = "fetch", !.want = w]
        \/ reader' = NoReader
    BY <1>8 DEF BuildPlan, EndFetch
  <2> HIDE DEF w
  <2>a. w \in SUBSET (Nat \X Nat) /\ reader \in Readers
    BY <1>1, <2>1, Zenon
  <2>3. CASE reader' = [reader EXCEPT !.pc = "verify", !.want = w]
    BY <2>a, <2>3, Zenon DEF Readers
  <2>4. CASE reader' = [reader EXCEPT !.pc = "fetch", !.want = w]
    BY <2>a, <2>4, Zenon DEF Readers
  <2> QED BY <2>2, <2>3, <2>4, NoReaderType, Zenon
<1>9. ASSUME FetchObject PROVE reader' \in Readers
  BY <1>1, <1>9, FailedType DEF FetchObject, Readers
<1>10. ASSUME Retry PROVE reader' \in Readers
  BY <1>10, NoReaderType DEF Retry
<1> QED BY <1>3, <1>4, <1>5, <1>6, <1>7, <1>8, <1>9, <1>10 DEF Read

(* Every step keeps the type.                                              *)
LEMMA TypeNext == TypeInv /\ [Next]_vars => TypeInv'
<1> SUFFICES ASSUME TypeInv, [Next]_vars PROVE TypeInv'
  OBVIOUS
<1>1. CASE OpenShip
  BY <1>1 DEF OpenShip, TypeInv, disk, bounds
<1>2. ASSUME NEW n \in ships, Survey(n) PROVE TypeInv'
  <2>1. ships' \subseteq States /\ UNCHANGED <<disk, layout, live, bounds>>
    BY <1>2 DEF Survey, TypeInv
  <2>2. /\ run' \in Runs
        /\ run'.pc \in {"objects", "sweep"} => run'.todo \subseteq Nat \X Nat
        /\ run'.pc = "objects" => run'.keep \in Packs
    BY <1>2, SurveyRun
  <2> QED BY <1>2, <2>1, <2>2, OverlapRuns DEF TypeInv, disk, bounds
<1>3. CASE Maintain
  BY <1>3, MaintainType
<1>4. CASE Crash
  <2>1. Idle \in Runs /\ Idle.pc = "idle"
    BY DEF Idle, Runs
  <2> QED BY <1>4, <2>1 DEF Crash, TypeInv, disk
<1>5. ASSUME NEW n \in States, Commit(n) PROVE TypeInv'
  BY <1>5 DEF Commit, TypeInv, disk
<1>6. CASE Upgrade
  <2>1. scenario.layouts \in Seq([rows : Nat \ {0}, fits : Nat \ {0}])
    BY ScenarioAssumption DEF TypeInv
  <2>2. layout' \in 1..Len(scenario.layouts)
    BY <1>6, <2>1, SMT DEF TypeInv, Upgrade
  <2> QED BY <1>6, <2>2 DEF Upgrade, TypeInv, disk, bounds
<1>7. CASE Read
  BY <1>7, ReadType
<1>8. CASE UNCHANGED vars
  BY <1>8 DEF vars, TypeInv, disk, env, bounds
<1> QED BY <1>1, <1>2, <1>3, <1>4, <1>5, <1>6, <1>7, <1>8 DEF Next

-----------------------------------------------------------------------------
(* The disk and the run.  What an index names is on disk.  The pack a run  *)
(* keeps is there from its publication to the sweep, and is not among the  *)
(* packs the run removes; the sweep spares what the indexes name.          *)
DiskInv ==
    /\ \A p \in packs : p.objects \subseteq objects
    /\ run.pc = "objects" => run.keep.objects \ run.todo \subseteq objects
    /\ run.pc \in {"layout", "prune"} /\ run.keep # None => run.keep \in packs
    /\ run.pc = "retain" => run.keep \in packs /\ \A p \in run.todo : p.series = run.live
    /\ run.pc # "idle" /\ run.keep # None => run.keep.series = run.live
    /\ run.pc \in {"objects", "layout", "prune"} => run.at = None
    /\ run.pc = "retain" /\ run.at # None => run.at.series = run.live /\ run.at # run.keep
    /\ run.pc = "sweep" => \A p \in packs : p.objects \cap run.todo = {}

(* A step that leaves the store and the run keeps DiskInv.                 *)
LEMMA DiskStill ==
    ASSUME DiskInv, UNCHANGED <<objects, packs, run>> PROVE DiskInv'
BY DEF DiskInv

(* A new store is consistent.                                              *)
LEMMA DiskInit == Init => DiskInv
BY DEF Init, Idle, DiskInv

(* A survey keeps DiskInv.                                                 *)
LEMMA SurveyDisk ==
    ASSUME TypeInv, DiskInv, NEW n \in ships, Survey(n)
    PROVE  DiskInv'
<1>1. UNCHANGED <<objects, packs>>
  BY DEF Survey, disk
<1> QED BY <1>1, SurveyRun DEF DiskInv

(* A maintenance step keeps DiskInv: objects are there before their index. *)
LEMMA MaintainDisk ==
    ASSUME TypeInv, DiskInv, Maintain
    PROVE  DiskInv'
<1>1. run \in Runs /\ packs \subseteq Packs
  BY DEF TypeInv
<1>2. ASSUME NEW d, Visits(d) PROVE DiskInv'
  <2>1. UNCHANGED <<objects, packs>> /\ run' = Visited(d) /\ run.pc \in {"prune", "retain"}
    BY <1>2 DEF Visits, PruneLive, MarkDir, RemoveDirMarker, RetainSelected, MarkPack
  <2> QED BY <2>1, VisitedRun DEF DiskInv
<1>3. ASSUME NEW d, Stays(d) PROVE DiskInv'
  <2>1. CASE RemoveDirEntry(d)
    <3>1. /\ run.pc = "prune" /\ UNCHANGED <<objects, run>> /\ packs' \subseteq packs
          /\ \A p \in packs : p.series # d => p \in packs'
          /\ d \notin LiveSeries(run.live)
      BY <2>1 DEF RemoveDirEntry, Advertised
    <3>2. run.keep # None => run.keep \in packs'
      BY <1>1, <3>1, PackFacts DEF DiskInv, LiveSeries
    <3> QED BY <3>1, <3>2 DEF DiskInv
  <2>2. CASE RemoveDir(d) \/ RemoveLayoutMarker(d)
    BY <2>2, DiskStill DEF RemoveDir, RemoveLayoutMarker
  <2> QED BY <1>3, <2>1, <2>2 DEF Stays
<1>4. ASSUME NEW q \in packs, RemovePackMarker(q) PROVE DiskInv'
  <2>1. /\ UNCHANGED <<objects, packs>> /\ run' = [run EXCEPT !.at = q] /\ run.pc = "retain"
        /\ q \in run.todo /\ q # run.keep
    BY <1>4 DEF RemovePackMarker
  <2>2. /\ run'.pc = "retain" /\ run'.todo = run.todo /\ run'.at = q
        /\ run'.keep = run.keep /\ run'.live = run.live
    BY <1>1, <2>1 DEF Runs
  <2> QED BY <2>1, <2>2 DEF DiskInv
<1>5. CASE WritePackObject
  <2>1. /\ UNCHANGED packs /\ run.pc = "objects" /\ run' = Visited(FirstOf(run.todo))
        /\ objects' = objects \cup {FirstOf(run.todo)}
    BY <1>5 DEF WritePackObject, Visited
  <2> QED BY <2>1, VisitedRun DEF DiskInv
<1>6. CASE SweepObject
  <2>1. /\ UNCHANGED packs /\ run.pc = "sweep" /\ run' = Visited(FirstOf(run.todo))
        /\ objects' = objects \ {FirstOf(run.todo)} /\ run.todo # {}
    BY <1>6 DEF SweepObject
  <2>2. FirstOf(run.todo) \in run.todo
    BY <2>1, FirstOfIn DEF TypeInv
  <2>3. \A p \in packs : p.objects \subseteq objects'
    BY <2>1, <2>2 DEF DiskInv
  <2> QED BY <2>1, <2>3, VisitedRun DEF DiskInv
<1>7. CASE PublishPackIndex
  <2>1. /\ run.keep \in Packs /\ packs' = packs \cup {run.keep} /\ UNCHANGED objects
        /\ run.pc = "objects" /\ run.todo = {}
    BY <1>7 DEF PublishPackIndex, TypeInv
  <2>2. /\ run'.pc \in {"layout", "prune"} /\ run'.keep = run.keep
        /\ run'.live = run.live /\ run'.at = run.at
    BY <1>1, <1>7 DEF PublishPackIndex, Runs
  <2> QED BY <2>1, <2>2 DEF DiskInv
<1>8. CASE WriteTableLayoutMarker
  <2>1. UNCHANGED <<objects, packs>> /\ run.pc = "layout"
    BY <1>8 DEF WriteTableLayoutMarker
  <2>2. /\ run'.pc = "prune" /\ run'.keep = run.keep /\ run'.live = run.live
        /\ run'.at = run.at
    BY <1>1, <1>8 DEF WriteTableLayoutMarker, Runs
  <2> QED BY <2>1, <2>2 DEF DiskInv
<1>9. CASE EndPrune
  <2>1. UNCHANGED <<objects, packs>> /\ run.pc = "prune" /\ run.at = None
    BY <1>9 DEF EndPrune, disk, DiskInv
  <2>2. CASE run.keep = None
    <3>1. /\ run'.pc = "sweep" /\ run'.keep = run.keep /\ run'.todo = SweepList(packs)
      BY <1>1, <1>9, <2>2 DEF EndPrune, Runs
    <3> QED BY <2>1, <2>2, <3>1 DEF DiskInv, SweepList
  <2>3. CASE run.keep # None
    <3>1. /\ run'.pc = "retain" /\ run'.keep = run.keep /\ run'.live = run.live
          /\ run'.at = run.at /\ run'.todo = Advertised(run.live)
      BY <1>1, <1>9, <2>3 DEF EndPrune, Runs
    <3> QED BY <2>1, <2>3, <3>1 DEF DiskInv, Advertised
  <2> QED BY <2>2, <2>3
<1>10. CASE EndRetain
  <2>1. UNCHANGED <<objects, packs>> /\ run.pc = "retain"
    BY <1>10 DEF EndRetain
  <2>2. /\ run'.pc = "sweep" /\ run'.keep = run.keep /\ run'.live = run.live
        /\ run'.todo = SweepList(packs)
    BY <1>1, <1>10 DEF EndRetain, Runs
  <2> QED BY <2>1, <2>2 DEF DiskInv, SweepList
<1>11. CASE RemovePackIndex
  <2>1. /\ UNCHANGED objects /\ run.pc = "retain" /\ run.at # None
        /\ packs' = packs \ {run.at}
    BY <1>11 DEF RemovePackIndex
  <2>2. /\ run'.pc = "retain" /\ run'.keep = run.keep /\ run'.live = run.live
        /\ run'.at = None /\ run'.todo = run.todo \ {run.at}
    BY <1>1, <1>11 DEF RemovePackIndex, Runs
  <2> QED BY <2>1, <2>2 DEF DiskInv
<1>12. CASE Finish
  <2>1. UNCHANGED <<objects, packs>> /\ run'.pc = "idle"
    BY <1>12 DEF Finish, disk, Idle
  <2> QED BY <2>1 DEF DiskInv
<1> QED BY MaintainSteps, <1>2, <1>3, <1>4, <1>5, <1>6, <1>7, <1>8, <1>9, <1>10, <1>11, <1>12

(* A reader changes nothing in the store.                                  *)
LEMMA ReadLeaves == Read => UNCHANGED <<disk, env, run>>
BY DEF Read, Resolve, ListPacks, ReadPackIndex, SelectPack, BuildPlan, FetchObject, EndFetch, Retry

(* Every step keeps DiskInv.                                               *)
LEMMA DiskNext == TypeInv /\ DiskInv /\ [Next]_vars => DiskInv'
<1> SUFFICES ASSUME TypeInv, DiskInv, [Next]_vars PROVE DiskInv'
  OBVIOUS
<1>1. ASSUME NEW n \in ships, Survey(n) PROVE DiskInv'
  BY <1>1, SurveyDisk
<1>2. CASE Maintain
  BY <1>2, MaintainDisk
<1>3. CASE Crash
  <2>1. UNCHANGED <<objects, packs>> /\ run'.pc = "idle"
    BY <1>3 DEF Crash, disk, Idle
  <2> QED BY <2>1 DEF DiskInv
<1>4. CASE OpenShip \/ (\E n \in States : Commit(n)) \/ Upgrade \/ Read \/ UNCHANGED vars
  <2>1. UNCHANGED <<disk, run>>
    BY <1>4, ReadLeaves DEF OpenShip, Commit, Upgrade, vars
  <2> QED BY <2>1, DiskStill DEF disk
<1> QED BY <1>1, <1>2, <1>3, <1>4 DEF Next

-----------------------------------------------------------------------------
(* The grace of readers.  A pack is safe for a reader until its second run *)
(* if nothing marked it before the run in progress began to mark: that run *)
(* may mark it, but has then visited it and does not come back.            *)
Safe(p) ==
    /\ p \in packs
    /\ run.pc \in {"objects", "layout"} \/ (run.pc = "idle" /\ reader.runs = 0)
         => p \notin stale /\ p.series \notin staleDirs
    /\ run.pc = "prune" => p \notin stale /\ ~ (p.series \in staleDirs /\ p.series \in run.todo)
    /\ run.pc = "retain" => ~ (p \in stale /\ p \in run.todo) /\ p # run.at

Watching == reader.pc \in {"reading", "verify", "fetch"} /\ reader.runs # 2 /\ ~ reader.old

Watch ==
    /\ reader.pc \notin {"idle", "failed"} /\ run.pc # "idle" => reader.runs # 0
    /\ reader.pc = "resolved" => reader.found = {} /\ reader.want = {}
    /\ Watching => \A p \in reader.names \cup reader.found : Safe(p)
    /\ Watching => \A o \in reader.want : \E p \in packs : Safe(p) /\ o \in p.objects
    /\ reader.pc = "failed" => reader.runs = 2 \/ reader.old

(* A step that leaves the read, and the packs it relies on, keeps Watch.   *)
LEMMA WatchKept ==
    ASSUME Watch,
           reader'.pc = reader.pc, reader'.names = reader.names, reader'.found = reader.found,
           reader'.want = reader.want, Watching' => Watching,
           reader.pc \notin {"idle", "failed"} /\ run'.pc # "idle" => reader'.runs # 0,
           reader.pc = "failed" => reader'.runs = 2 \/ reader'.old,
           Watching' => \A p \in packs : Safe(p) => Safe(p)'
    PROVE  Watch'
<1>1. ASSUME Watching' PROVE \A p \in reader'.names \cup reader'.found : Safe(p)'
  BY <1>1 DEF Watch, Safe
<1>2. ASSUME Watching', NEW o \in reader'.want PROVE \E p \in packs' : Safe(p)' /\ o \in p.objects
  <2>1. PICK p \in packs : Safe(p) /\ o \in p.objects
    BY <1>2 DEF Watch
  <2>2. Safe(p)'
    BY <1>2, <2>1
  <2> QED BY <2>1, <2>2 DEF Safe
<1> QED BY <1>1, <1>2 DEF Watch

(* A survey keeps Watch: the read has one more run to fear.                *)
LEMMA SurveyWatch ==
    ASSUME TypeInv, Watch, NEW n \in ships, Survey(n)
    PROVE  Watch'
<1>1. run.pc = "idle" /\ UNCHANGED <<packs, stale, staleDirs>>
  BY DEF Survey, disk
<1>2. reader.runs \in {0, 1, 2}
  BY SMT DEF TypeInv, Readers
<1>3. Watching' => Watching /\ reader.runs = 0
  BY <1>2, OverlapRuns DEF Watching
<1>4. run'.pc \in {"objects", "prune"}
  BY SurveyRun
<1>5. Watching' => \A p \in packs : Safe(p) => Safe(p)'
  BY <1>1, <1>3, <1>4 DEF Safe
<1>6. reader.pc # "idle" => reader'.runs # 0
  BY OverlapRuns
<1>7. reader.pc = "failed" => reader'.runs = 2 \/ reader'.old
  BY OverlapRuns DEF Watch
<1> QED BY <1>3, <1>5, <1>6, <1>7, OverlapRuns, WatchKept

(* What a reader relies on survives the one run that overlaps it.          *)
LEMMA MaintainSafe ==
    ASSUME TypeInv, DiskInv, Maintain, NEW p \in packs, Safe(p), reader.runs # 0
    PROVE  Safe(p)'
<1>1. run \in Runs /\ packs \subseteq Packs /\ p \in Packs /\ p.series # 0 /\ p # None
  BY PackFacts DEF TypeInv
<1>2. UNCHANGED reader
  BY DEF Maintain, WritePackObject, PublishPackIndex, WriteTableLayoutMarker, PruneLive, MarkDir,
         RemoveDirEntry, RemoveDir, RemoveDirMarker, EndPrune, RetainSelected, MarkPack,
         RemoveLayoutMarker, RemovePackMarker, RemovePackIndex, EndRetain, SweepObject, Finish
<1>3. ASSUME NEW d, Visits(d) PROVE Safe(p)'
  <2>1. /\ UNCHANGED packs /\ run'.pc = run.pc /\ run'.at = run.at /\ run'.todo = run.todo \ {d}
        /\ run.pc \in {"prune", "retain"}
        /\ stale' \subseteq stale \cup {d} /\ staleDirs' \subseteq staleDirs \cup {d}
        /\ run.pc = "prune" => UNCHANGED stale
    BY <1>3, VisitedRun
       DEF Visits, PruneLive, MarkDir, RemoveDirMarker, RetainSelected, MarkPack
  <2> QED BY <2>1 DEF Safe
<1>4. ASSUME NEW d, Stays(d) PROVE Safe(p)'
  <2>1. CASE RemoveDirEntry(d)
    <3>1. /\ run.pc = "prune" /\ UNCHANGED <<run, staleDirs>> /\ stale' \subseteq stale
          /\ \A q \in packs : q.series # d => q \in packs'
          /\ d \in staleDirs /\ d \in run.todo
      BY <2>1 DEF RemoveDirEntry, Advertised
    <3> QED BY <3>1 DEF Safe
  <2>2. CASE RemoveDir(d) \/ RemoveLayoutMarker(d)
    BY <1>2, <2>2 DEF RemoveDir, RemoveLayoutMarker, Safe
  <2> QED BY <1>4, <2>1, <2>2 DEF Stays
<1>5. ASSUME NEW q \in packs, RemovePackMarker(q) PROVE Safe(p)'
  <2>1. /\ UNCHANGED packs /\ run.pc = "retain" /\ q \in run.todo /\ q \in stale
        /\ stale' \subseteq stale /\ run' = [run EXCEPT !.at = q]
    BY <1>5 DEF RemovePackMarker
  <2>2. run'.pc = "retain" /\ run'.todo = run.todo /\ run'.at = q
    BY <1>1, <2>1 DEF Runs
  <2> QED BY <2>1, <2>2 DEF Safe
<1>6. CASE WritePackObject
  <2>1. /\ UNCHANGED <<packs, stale, staleDirs>> /\ run' = Visited(FirstOf(run.todo))
        /\ run.pc = "objects"
    BY <1>6 DEF WritePackObject, Visited
  <2>2. run'.pc = run.pc
    BY <2>1, VisitedRun
  <2> QED BY <2>1, <2>2 DEF Safe
<1>7. CASE PublishPackIndex \/ WriteTableLayoutMarker
  <2>1. /\ UNCHANGED <<stale, staleDirs>> /\ packs \subseteq packs'
        /\ run.pc \in {"objects", "layout"}
    BY <1>7 DEF PublishPackIndex, WriteTableLayoutMarker
  <2>2. CASE PublishPackIndex
    <3>1. run'.pc \in {"layout", "prune"}
      BY <1>1, <2>2 DEF PublishPackIndex, Runs
    <3> QED BY <2>1, <3>1 DEF Safe
  <2>3. CASE WriteTableLayoutMarker
    <3>1. run'.pc = "prune"
      BY <1>1, <2>3 DEF WriteTableLayoutMarker, Runs
    <3> QED BY <2>1, <3>1 DEF Safe
  <2> QED BY <1>7, <2>2, <2>3
<1>8. CASE EndPrune
  <2>1. UNCHANGED <<packs, stale, staleDirs>> /\ run.pc = "prune" /\ run.at = None
    BY <1>8 DEF EndPrune, disk, DiskInv
  <2>2. run'.pc \in {"retain", "sweep"} /\ run'.at = None
    BY <1>1, <1>8, <2>1 DEF EndPrune, Runs
  <2> QED BY <1>1, <2>1, <2>2 DEF Safe
<1>9. CASE EndRetain \/ SweepObject
  <2>1. UNCHANGED packs
    BY <1>9 DEF EndRetain, SweepObject
  <2>2. run'.pc = "sweep"
    BY <1>1, <1>9, VisitedRun DEF EndRetain, SweepObject, Runs
  <2> QED BY <2>1, <2>2 DEF Safe
<1>10. CASE RemovePackIndex
  <2>1. UNCHANGED stale /\ run.pc = "retain" /\ packs' = packs \ {run.at}
    BY <1>10 DEF RemovePackIndex
  <2>2. run'.pc = "retain" /\ run'.at = None /\ run'.todo \subseteq run.todo
    BY <1>1, <1>10 DEF RemovePackIndex, Runs
  <2> QED BY <1>1, <2>1, <2>2 DEF Safe
<1>11. CASE Finish
  <2>1. UNCHANGED packs /\ run'.pc = "idle"
    BY <1>11 DEF Finish, disk, Idle
  <2> QED BY <1>2, <2>1 DEF Safe
<1> QED BY MaintainSteps, <1>3, <1>4, <1>5, <1>6, <1>7, <1>8, <1>9, <1>10, <1>11

(* A step of the reader keeps Watch.                                       *)
LEMMA ReadWatch ==
    ASSUME TypeInv, DiskInv, Watch, Read
    PROVE  Watch'
<1>1. /\ reader \in Readers /\ packs \subseteq Packs /\ reader.runs \in {0, 1, 2}
      /\ \A p \in packs : p.objects \subseteq objects
      /\ reader.want \subseteq Nat \X Nat
  BY SMT DEF TypeInv, Readers, DiskInv
<1>2. UNCHANGED <<packs, stale, staleDirs, run>>
  BY ReadLeaves DEF disk
<1>3. ASSUME reader' = NoReader PROVE Watch'
  BY <1>3 DEF Watch, Watching, NoReader
<1>4. ASSUME reader' = Failed, ~ Watching, reader.pc \in {"reading", "verify", "fetch"} PROVE Watch'
  <2>1. /\ reader'.pc = "failed" /\ reader'.runs = reader.runs /\ reader'.old = reader.old
    BY <1>4 DEF Failed, NoReader
  <2> QED BY <1>4, <2>1 DEF Watch, Watching
<1>5. ASSUME reader.pc \in {"reading", "verify", "fetch"},
             reader'.pc \in {"reading", "verify", "fetch"},
             reader'.runs = reader.runs, reader'.old = reader.old,
             reader'.names \cup reader'.found \subseteq reader.names \cup reader.found,
             \A o \in reader'.want :
                 o \in reader.want \/ \E p \in reader.names \cup reader.found : o \in p.objects
      PROVE  Watch'
  <2>1. Watching' => Watching
    BY <1>5 DEF Watching
  <2>2. \A p : Safe(p) => Safe(p)'
    BY <1>2, <1>5 DEF Safe
  <2>3. ASSUME Watching', NEW o \in reader'.want PROVE \E p \in packs' : Safe(p)' /\ o \in p.objects
    <3>1. \E p \in packs : Safe(p) /\ o \in p.objects
      BY <1>5, <2>1, <2>3 DEF Watch, Safe
    <3> QED BY <1>2, <2>2, <3>1
  <2>4. Watching' => \A p \in reader'.names \cup reader'.found : Safe(p)'
    BY <1>5, <2>1, <2>2 DEF Watch
  <2>5. run'.pc # "idle" => reader'.runs # 0
    BY <1>2, <1>5 DEF Watch
  <2> QED BY <1>5, <2>3, <2>4, <2>5 DEF Watch
<1>6. ASSUME NEW kind \in scenario.readers, Resolve(kind) PROVE Watch'
  <2>1. /\ reader'.pc = "resolved" /\ reader'.found = {} /\ reader'.want = {}
        /\ run.pc # "idle" => reader'.runs = 1
    BY <1>6 DEF Resolve, NoReader
  <2> QED BY <1>2, <2>1 DEF Watch, Watching
<1>7. ASSUME ListPacks PROVE Watch'
  <2> DEFINE listed == IF reader.kind = "pull" THEN Advertised(reader.series) ELSE packs
             o == \E p \in listed : p \in stale \cup {run.at} \/ p.series \in staleDirs
  <2>1. listed \subseteq packs
    BY DEF Advertised
  <2>2. reader' = [reader EXCEPT !.pc = "reading", !.names = listed, !.old = o]
    BY <1>7 DEF ListPacks
  <2>3. \A p \in listed : ~ o => p \notin stale /\ p # run.at /\ p.series \notin staleDirs
    OBVIOUS
  <2> HIDE DEF listed, o
  <2>4. /\ reader'.pc = "reading" /\ reader'.names = listed /\ reader'.old = o
        /\ reader'.found = reader.found /\ reader'.want = reader.want /\ reader'.runs = reader.runs
    BY <1>1, <2>2 DEF Readers
  <2>5. /\ reader.found = {} /\ reader.want = {}
        /\ run.pc # "idle" => reader.runs # 0
    BY <1>7 DEF ListPacks, Watch
  <2>6. ~ o => \A p \in listed : Safe(p)'
    BY <1>2, <2>1, <2>3 DEF Safe
  <2>7. Watching' => \A p \in reader'.names \cup reader'.found : Safe(p)'
    BY <2>4, <2>5, <2>6 DEF Watching
  <2>8. run'.pc # "idle" => reader'.runs # 0
    BY <1>2, <2>4, <2>5
  <2> QED BY <2>4, <2>5, <2>7, <2>8 DEF Watch
<1>8. ASSUME NEW p \in reader.names, ReadPackIndex(p) PROVE Watch'
  <2>1. reader.pc = "reading"
    BY <1>8 DEF ReadPackIndex
  <2>2. CASE reader' = Failed /\ p \notin packs
    BY <1>4, <2>1, <2>2 DEF Watch, Safe
  <2>3. CASE \/ reader' = [reader EXCEPT !.names = @ \ {p}, !.found = @ \cup {p}]
             \/ reader' = [reader EXCEPT !.names = @ \ {p}]
    <3>1. /\ reader'.pc = reader.pc /\ reader'.runs = reader.runs /\ reader'.old = reader.old
          /\ reader'.names = reader.names \ {p} /\ reader'.want = reader.want
      BY <1>1, <2>3 DEF Readers
    <3>2. reader'.found \in {reader.found, reader.found \cup {p}}
      BY <1>1, <2>3 DEF Readers
    <3>3. reader'.names \cup reader'.found \subseteq reader.names \cup reader.found
      BY <3>1, <3>2
    <3> QED BY <1>5, <2>1, <3>1, <3>3
  <2> QED BY <1>8, <2>2, <2>3 DEF ReadPackIndex
<1>9. ASSUME SelectPack PROVE Watch'
  <2>1. CASE reader' = NoReader
    BY <1>3, <2>1
  <2>2. CASE reader' # NoReader
    <3>1. PICK p \in Fewest(reader.found) :
              reader' = [reader EXCEPT !.pc = "fetch", !.found = {}, !.want = p.objects]
      BY <1>9, <2>2 DEF SelectPack
    <3>2. p \in reader.found /\ reader.pc = "reading"
      BY <1>9 DEF Fewest, SelectPack
    <3>3. /\ reader'.pc = "fetch" /\ reader'.runs = reader.runs /\ reader'.old = reader.old
          /\ reader'.names = reader.names /\ reader'.found = {} /\ reader'.want = p.objects
      BY <1>1, <3>1 DEF Readers
    <3> QED BY <1>5, <3>2, <3>3
  <2> QED BY <2>1, <2>2
<1>10. ASSUME BuildPlan \/ EndFetch PROVE Watch'
  <2> DEFINE w == UNION {p.objects : p \in reader.found}
  <2>1. /\ \/ reader' = [reader EXCEPT !.pc = "verify", !.want = w]
           \/ reader' = [reader EXCEPT !.pc = "fetch", !.want = w]
           \/ reader' = NoReader
        /\ reader.pc \in {"reading", "verify", "fetch"}
    BY <1>10 DEF BuildPlan, EndFetch
  <2>2. \A o \in w : \E p \in reader.found : o \in p.objects
    OBVIOUS
  <2> HIDE DEF w
  <2>3. CASE reader' # NoReader
    <3>1. /\ reader'.pc \in {"verify", "fetch"} /\ reader'.runs = reader.runs
          /\ reader'.old = reader.old /\ reader'.names = reader.names
          /\ reader'.found = reader.found /\ reader'.want = w
      BY <1>1, <2>1, <2>3 DEF Readers
    <3> QED BY <1>5, <2>1, <2>2, <3>1
  <2> QED BY <1>3, <2>3
<1>11. ASSUME FetchObject PROVE Watch'
  <2>1. FirstOf(reader.want) \in reader.want /\ reader.pc \in {"verify", "fetch"}
    BY <1>1, <1>11, FirstOfIn DEF FetchObject
  <2>2. CASE FirstOf(reader.want) \in objects
    <3>1. reader' = [reader EXCEPT !.want = @ \ {FirstOf(reader.want)}]
      BY <1>11, <2>2 DEF FetchObject
    <3>2. /\ reader'.pc = reader.pc /\ reader'.runs = reader.runs /\ reader'.old = reader.old
          /\ reader'.names = reader.names /\ reader'.found = reader.found
          /\ reader'.want \subseteq reader.want
      BY <1>1, <3>1 DEF Readers
    <3> QED BY <1>5, <2>1, <3>2
  <2>3. CASE FirstOf(reader.want) \notin objects
    <3>1. reader' = Failed
      BY <1>11, <2>3 DEF FetchObject
    <3>2. ~ Watching
      BY <1>1, <2>1, <2>3 DEF Watch
    <3> QED BY <1>4, <2>1, <3>1, <3>2
  <2> QED BY <2>2, <2>3
<1>12. ASSUME Retry PROVE Watch'
  BY <1>3, <1>12 DEF Retry
<1> QED BY <1>6, <1>7, <1>8, <1>9, <1>10, <1>11, <1>12 DEF Read

(* Every step keeps Watch.                                                 *)
LEMMA WatchNext == TypeInv /\ DiskInv /\ Watch /\ [Next]_vars => Watch'
<1> SUFFICES ASSUME TypeInv, DiskInv, Watch, [Next]_vars PROVE Watch'
  OBVIOUS
<1>1. ASSUME NEW n \in ships, Survey(n) PROVE Watch'
  BY <1>1, SurveyWatch
<1>2. CASE Maintain
  <2>1. UNCHANGED reader /\ run.pc # "idle"
    BY <1>2 DEF Maintain, WritePackObject, PublishPackIndex, WriteTableLayoutMarker, PruneLive,
         MarkDir, RemoveDirEntry, RemoveDir, RemoveDirMarker, EndPrune, RetainSelected, MarkPack,
         RemoveLayoutMarker, RemovePackMarker, RemovePackIndex, EndRetain, SweepObject, Finish
  <2>2. reader.pc \notin {"idle", "failed"} => reader.runs # 0
    BY <2>1 DEF Watch
  <2>3. Watching' => Watching /\ reader.runs # 0
    BY <2>1, <2>2 DEF Watching
  <2>4. Watching' => \A p \in packs : Safe(p) => Safe(p)'
    BY <1>2, <2>3, MaintainSafe
  <2>5. reader.pc = "failed" => reader.runs = 2 \/ reader.old
    BY DEF Watch
  <2> QED BY <2>1, <2>2, <2>3, <2>4, <2>5, WatchKept
<1>3. CASE Crash
  <2>1. UNCHANGED <<packs, stale, staleDirs, reader>> /\ run'.pc = "idle" /\ run.pc # "idle"
    BY <1>3 DEF Crash, disk, Idle
  <2>2. Watching' => Watching /\ reader.runs # 0
    BY <2>1 DEF Watching, Watch
  <2>3. Watching' => \A p \in packs : Safe(p) => Safe(p)'
    BY <2>1, <2>2 DEF Safe
  <2>4. reader.pc = "failed" => reader.runs = 2 \/ reader.old
    BY DEF Watch
  <2> QED BY <2>1, <2>2, <2>3, <2>4, WatchKept
<1>4. CASE OpenShip \/ (\E n \in States : Commit(n)) \/ Upgrade \/ UNCHANGED vars
  <2>1. UNCHANGED <<packs, stale, staleDirs, run, reader>>
    BY <1>4 DEF OpenShip, Commit, Upgrade, vars, disk
  <2>2. \A p \in packs : Safe(p) => Safe(p)'
    BY <2>1 DEF Safe
  <2>3. Watching' => Watching
    BY <2>1 DEF Watching
  <2>4. /\ reader.pc \notin {"idle", "failed"} /\ run.pc # "idle" => reader.runs # 0
        /\ reader.pc = "failed" => reader.runs = 2 \/ reader.old
    BY DEF Watch
  <2> QED BY <2>1, <2>2, <2>3, <2>4, WatchKept
<1>5. CASE Read
  BY <1>5, ReadWatch
<1> QED BY <1>1, <1>2, <1>3, <1>4, <1>5 DEF Next

-----------------------------------------------------------------------------
(* A repack covers its leaves exactly once: leaf i is in the run that      *)
(* begins at the last multiple of the size before it, and in no other.     *)

(* Division with remainder.                                                *)
LEMMA DivMod ==
    ASSUME NEW a \in Int, NEW size \in Int, size > 0
    PROVE  a = size * (a \div size) + (a % size)
BY SMT

(* A multiple leaves no remainder.                                         *)
LEMMA Multiple ==
    ASSUME NEW q \in Nat, NEW size \in Nat \ {0}
    PROVE  (size * q) % size = 0
BY SMT

(* Before every leaf, or at it, an object begins.                          *)
LEMMA LastBegin ==
    ASSUME NEW a \in Nat, NEW size \in Nat \ {0}
    PROVE  \E b \in Nat : b % size = 0 /\ b <= a /\ a < b + size
<1>1. a \in Int /\ size \in Int /\ size > 0
  BY SMT
<1>2. PICK q : q = a \div size
  OBVIOUS
<1>3. PICK r : r = a % size
  OBVIOUS
<1>4. a = size * q + r
  BY <1>1, <1>2, <1>3, DivMod
<1>5. q \in Int /\ r \in 0..(size - 1)
  BY <1>1, <1>2, <1>3, SMT
<1>6. q \in Nat
  BY <1>1, <1>4, <1>5, SMT
<1>7. PICK b : b = size * q
  OBVIOUS
<1>8. b % size = 0
  BY <1>6, <1>7, Multiple
<1>9. b \in Nat /\ b <= a /\ a < b + size
  <2>1. b \in Int /\ b >= 0
    BY <1>6, <1>7, SMT
  <2> QED BY <1>4, <1>5, <1>7, <2>1, SMT
<1> QED BY <1>8, <1>9, Zenon

(* The remainder of a leaf is its place in its object.                     *)
LEMMA InsideARun ==
    ASSUME NEW a \in Nat, NEW size \in Nat \ {0}, NEW c \in Nat, c < size, a % size = 0
    PROVE  (a + c) % size = c
BY SMT

(* Two objects begin at least one object apart.                            *)
LEMMA RunsApart ==
    ASSUME NEW a \in Nat, NEW b \in Nat, NEW size \in Nat \ {0},
           a % size = 0, b % size = 0, a < b
    PROVE  a + size <= b
<1> SUFFICES ASSUME b < a + size PROVE FALSE
  BY SMT
<1>1. PICK c \in Nat : c = b - a
  BY SMT
<1>2. c < size /\ c # 0 /\ b = a + c
  BY <1>1, SMT
<1>3. (a + c) % size = c
  BY <1>2, InsideARun
<1> QED BY <1>2, <1>3

(* Every leaf is in just one object of its pack.                           *)
LEMMA LeafInOneRun ==
    ASSUME NEW n \in Nat, NEW size \in Nat \ {0}, NEW i \in 1..n
    PROVE  Cardinality({x \in CutInto(n, size) : x[1] <= i /\ i <= x[2]}) = 1
<1> DEFINE First == {k \in 1..n : (k - 1) % size = 0}
<1>1. PICK m \in Nat : m = i - 1
  BY SMT
<1>2. PICK b \in Nat : b % size = 0 /\ b <= i - 1 /\ i - 1 < b + size
  BY <1>1, LastBegin
<1>3. PICK j \in 1..n : j = b + 1
  BY <1>2, SMT
<1>4. j \in First
  BY <1>2, <1>3, SMT
<1>5. j <= i /\ i <= EndOf(j, n, size)
  BY <1>2, <1>3, SMT DEF EndOf
<1>6. ASSUME NEW k \in First, k <= i, i <= EndOf(k, n, size) PROVE k = j
  <2>1. PICK a \in Nat : a = k - 1
    BY SMT
  <2>2. a % size = 0 /\ a <= i - 1 /\ i - 1 < a + size
    BY <1>6, <2>1, SMT DEF EndOf
  <2>3. ~ (a < b) /\ ~ (b < a)
    <3>1. a < b => a + size <= b
      BY <1>2, <2>2, RunsApart
    <3>2. b < a => b + size <= a
      BY <1>2, <2>2, RunsApart
    <3> QED BY <1>2, <2>2, <3>1, <3>2, SMT
  <2> QED BY <1>3, <2>1, <2>3, SMT
<1>7. CutInto(n, size) = {<<k, EndOf(k, n, size)>> : k \in First}
  BY CutIntoRuns
<1> HIDE DEF First
<1>8. {x \in CutInto(n, size) : x[1] <= i /\ i <= x[2]} = {<<j, EndOf(j, n, size)>>}
  BY <1>4, <1>5, <1>6, <1>7
<1> QED BY <1>8, FS_Singleton

(* The bound on the states is a state.                                     *)
LEMMA HighestState ==
    Max(States) \in States /\ Max(States) \in Nat /\ \A n \in States : n <= Max(States)
<1>1. PICK m \in States : \A n \in States : n <= m
  BY PackAssumption
<1>2. \E x \in States : \A y \in States : x >= y
  BY <1>1, PackAssumption
<1>3. Max(States) \in States /\ \A n \in States : Max(States) >= n
  BY <1>2, Zenon DEF Max
<1> QED BY <1>3, PackAssumption

(* A pack holds every leaf of its series just once.                        *)
LEMMA PackCovers ==
    ASSUME NEW p \in Packs
    PROVE  Covers(p)
<1>1. PICK n \in States \ {0}, size \in Nat \ {0} :
          p = [series |-> n, objects |-> CutInto(n, size)]
  BY DEF Packs
<1>2. n \in Nat /\ p.series = n /\ p.objects = CutInto(n, size)
  BY <1>1, PackAssumption
<1>3. p.objects \subseteq (1..n) \X (1..n)
  BY <1>2, CutIntoPairs
<1>4. 1..n \subseteq Leaves
  BY <1>2, HighestState, SMT DEF Leaves
<1>5. p.objects \subseteq Objects
  BY <1>3, <1>4 DEF Objects
<1>6. ASSUME NEW i \in Leaves
      PROVE  Cardinality({o \in p.objects : o[1] <= i /\ i <= o[2]}) = IF i <= n THEN 1 ELSE 0
  <2>1. i \in Nat /\ i >= 1
    BY HighestState, SMT DEF Leaves
  <2>2. CASE i <= n
    <3>1. i \in 1..n
      BY <1>2, <2>1, <2>2, SMT
    <3>2. Cardinality({o \in CutInto(n, size) : o[1] <= i /\ i <= o[2]}) = 1
      BY <1>2, <3>1, LeafInOneRun
    <3> QED BY <1>2, <2>2, <3>2
  <2>3. CASE ~ (i <= n)
    <3>1. {o \in p.objects : o[1] <= i /\ i <= o[2]} = {}
      BY <1>2, <1>3, <2>1, <2>3
    <3> QED BY <2>3, <3>1, FS_EmptySet
  <2> QED BY <2>2, <2>3
<1> QED BY <1>2, <1>5, <1>6 DEF Covers

-----------------------------------------------------------------------------
(* Wherever a run stands or died, an advertised pack covers its series     *)
(* exactly once and every object it names is on disk, for any threshold,   *)
(* layouts and number of runs, commits, upgrades and crashes.              *)
THEOREM NoDanglingHolds == Spec => []NoDangling
<1>1. Init => TypeInv /\ DiskInv
  BY TypeInit, DiskInit
<1>2. (TypeInv /\ DiskInv) /\ [Next]_vars => (TypeInv /\ DiskInv)'
  BY TypeNext, DiskNext
<1>3. TypeInv /\ DiskInv => NoDangling
  BY PackCovers DEF TypeInv, DiskInv, NoDangling
<1> QED BY <1>1, <1>2, <1>3, PTL DEF Spec

(* A reader without a lock, a pull or a publication, loses an index or an  *)
(* object it listed only if two runs overlapped it, or if what it listed   *)
(* was already marked stale or being removed: retain_selected_pack_only    *)
(* and prune_obsolete_series_dirs mark in one run and remove in the next.  *)
THEOREM GraceHolds == Spec => []Grace
<1>1. Init => TypeInv /\ DiskInv /\ Watch
  BY TypeInit, DiskInit DEF Init, NoReader, Watch, Watching
<1>2. (TypeInv /\ DiskInv /\ Watch) /\ [Next]_vars => (TypeInv /\ DiskInv /\ Watch)'
  BY TypeNext, DiskNext, WatchNext
<1>3. Watch => Grace
  BY DEF Watch, Grace
<1> QED BY <1>1, <1>2, <1>3, PTL DEF Spec

(* While the series stays at a state that has a pack, it is left with none *)
(* only by a run whose Ship was opened at another state and that finds the *)
(* directory already marked by an earlier run.                             *)
THEOREM NeverUnpackedHolds == Spec => NeverUnpacked
<1> DEFINE Unpacks == live' = live /\ Advertised(live) # {} /\ Advertised(live)' = {}
<1>1. Init => TypeInv /\ DiskInv
  BY TypeInit, DiskInit
<1>2. (TypeInv /\ DiskInv) /\ [Next]_vars => (TypeInv /\ DiskInv)'
  BY TypeNext, DiskNext
<1>3. ASSUME TypeInv, DiskInv, [Next]_vars, Unpacks
      PROVE  run.live # live /\ live \in staleDirs
  <2>1. ~ (packs \subseteq packs')
    BY <1>3 DEF Advertised
  <2>2. PICK p \in packs : p.series = live /\ live # 0
    BY <1>3, PackFacts DEF Advertised, TypeInv
  <2>3. Maintain
    BY <1>3, <2>1, ReadLeaves DEF Next, OpenShip, Survey, Crash, Commit, Upgrade, vars, disk
  <2>4. CASE RemovePackIndex
    <3>1. run.pc = "retain" /\ run.at # None /\ packs' = packs \ {run.at}
      BY <2>4 DEF RemovePackIndex
    <3>2. run.keep \in packs' /\ run.keep.series = run.live /\ run.at.series = run.live
      <4>1. run.keep \in packs /\ run.at # run.keep /\ run.at.series = run.live
        BY <1>3, <3>1 DEF DiskInv
      <4>2. run.keep # None
        BY <1>3, <4>1, PackFacts DEF TypeInv
      <4> QED BY <1>3, <3>1, <4>1, <4>2 DEF DiskInv
    <3>3. run.at.series = live
      BY <1>3, <2>2, <3>1 DEF Advertised
    <3> QED BY <1>3, <3>1, <3>2, <3>3 DEF Advertised
  <2>5. CASE \E d \in States : RemoveDirEntry(d)
    <3>1. PICK d \in States : RemoveDirEntry(d)
      BY <2>5
    <3>2. /\ d \notin LiveSeries(run.live) /\ d \in staleDirs
          /\ \A q \in packs : q.series # d => q \in packs'
      BY <3>1 DEF RemoveDirEntry, Advertised
    <3>3. d = live
      BY <1>3, <2>2, <3>2 DEF Advertised
    <3> QED BY <2>2, <3>2, <3>3 DEF LiveSeries
  <2>6. ASSUME ~ RemovePackIndex, ~ \E d \in States : RemoveDirEntry(d) PROVE FALSE
    BY <2>1, <2>3, <2>6
       DEF Maintain, WritePackObject, PublishPackIndex, WriteTableLayoutMarker, PruneLive,
           MarkDir, RemoveDir, RemoveDirMarker, EndPrune, RetainSelected, MarkPack,
           RemoveLayoutMarker, RemovePackMarker, EndRetain, SweepObject, Finish, disk
  <2> QED BY <2>4, <2>5, <2>6
<1>4. TypeInv /\ DiskInv /\ [Next]_vars => [Unpacks => run.live # live /\ live \in staleDirs]_vars
  BY <1>3
<1> QED BY <1>1, <1>2, <1>4, PTL DEF Spec, NeverUnpacked

=============================================================================
