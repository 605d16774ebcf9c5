--------------------------- MODULE DataHome_proofs ---------------------------
(***************************************************************************)
(* Proofs about the data directory (module DataHome and what it composes), *)
(* for any processes, names, folders, symbols, days, providers, jobs and   *)
(* requests: the file that had the reserved name is never lost, a deleted  *)
(* folder's contents move to where it was and nothing else moves, a price  *)
(* file is one unbroken series, a ranking is of the day it was made for.   *)
(*                                                                          *)
(* Universes.  A process that moves the file first looks which legacy      *)
(* names are linked to it and only then unlinks, so what it found may be   *)
(* stale: another process may have unlinked some of these names meanwhile. *)
(* What never goes stale is an order: under each name somebody found, or   *)
(* under one that is tried before it, the file is still there (ScansHold). *)
(* The first name found is the one kept, so no unlink takes the last one.  *)
(*                                                                          *)
(* Folders.  Shown parents are computed by climbing the manifest, whose     *)
(* folders have a level each, and form a forest of their own (Forest),     *)
(* which is what lets Line be climbed in turn and a move be refused into   *)
(* what it would take along.                                               *)
(*                                                                          *)
(* Prices.  Jobs take no lock on a symbol, so between the load of a file   *)
(* and the store of what was merged with it the file may be another one.   *)
(* The invariant therefore never relates a job to the file, only to what   *)
(* the job has in hand: its days are one unbroken stretch, and each range  *)
(* it still has to ask for meets that stretch at a day no later than today *)
(* (Meets).  Days only pass, so nothing another job does can break that.   *)
(***************************************************************************)
EXTENDS DataHome, FiniteSetTheorems, WellFoundedInduction, TLAPS

LegacyIndex == 1 .. Len(LegacyNames)

Place == [step : {"idle", "load", "heal", "clean", "look", "link", "remove", "use", "write"},
          name : Names, after : {"idle", "remove", "use"}, try : 1 .. Len(LegacyNames) + 1,
          unseen : SUBSET Range(LegacyNames), linked : SUBSET Range(LegacyNames),
          next : 0 .. Len(LegacyNames) + 1]

PlaceOK(now) ==
    /\ now.unseen \cap now.linked = {}
    /\ now.step = "link" => now.try <= Len(LegacyNames)
    /\ now.step \in {"remove", "use"} \/ now.after # "idle" => now.name # Reserved

PlacesOK == at \in [Procs -> Place] /\ \A p \in Procs : PlaceOK(at[p])

(* A name is linked to a file of its own or to the one being moved.          *)
LinksOK ==
    /\ link \in [Names -> Names \cup {NoFile}]
    /\ \A n \in Names : link[n] \in {n, Reserved, NoFile}

MemoryOK ==
    /\ data \in [Names -> Contents \cup {Torn}]
    /\ loaded \in [Procs -> [Names \ {Reserved} -> Contents \cup {NoFile}]]
    /\ dropped \in BOOLEAN

ScansHold ==
    \A p \in Procs, i \in LegacyIndex :
        LegacyNames[i] \in at[p].linked =>
            dropped \/ \E j \in 1 .. i : link[LegacyNames[j]] = Reserved

IInv == PlacesOK /\ LinksOK /\ MemoryOK /\ ScansHold /\ LegacyFileKept

-----------------------------------------------------------------------------
(* Operators.                                                                *)

(* A set of numbers that is not empty has a least one.                       *)
LEMMA HasLeast ==
    ASSUME NEW S \in SUBSET Nat, S # {}
    PROVE  \E x \in S : \A y \in S : x <= y
<1> DEFINE R == OpToRel(<, Nat)
<1>1. IsWellFoundedOn(R, Nat)
  BY NatLessThanWellFounded
<1>2. \A i, j \in Nat : i < j => <<i, j>> \in R
  BY DEF OpToRel
<1> HIDE DEF R
<1>3. PICK x \in S : \A y \in S : <<y, x>> \notin R
  BY <1>1, WFMin
<1>4. ASSUME NEW y \in S PROVE x <= y
  <2>1. x \in Nat /\ y \in Nat /\ ~(y < x)
    BY <1>2, <1>3
  <2> QED BY <2>1
<1> QED BY <1>4

LEMMA MinIsLeast ==
    ASSUME NEW S \in SUBSET Nat, S # {}
    PROVE  Min(S) \in S /\ \A y \in S : Min(S) <= y
  BY HasLeast DEF Min

(* SelectInSeq finds the first position whose element is wanted.             *)
LEMMA SelectsFirst ==
    ASSUME NEW X, NEW seq \in Seq(X), NEW T, \E i \in 1 .. Len(seq) : seq[i] \in T
    PROVE  LET k == SelectInSeq(seq, LAMBDA n : n \in T)
           IN  /\ k \in 1 .. Len(seq) /\ seq[k] \in T
               /\ \A i \in 1 .. Len(seq) : seq[i] \in T => k <= i
<1> DEFINE I == {i \in 1 .. Len(seq) : seq[i] \in T}
<1>1. I # {} /\ I \in SUBSET Nat
  OBVIOUS
<1>2. SelectInSeq(seq, LAMBDA n : n \in T) = Min(I)
  BY <1>1 DEF SelectInSeq
<1> QED BY <1>1, <1>2, MinIsLeast

(* The legacy names are names, other than the reserved one, each at one      *)
(* position.                                                                 *)
LEMMA LegacyFacts ==
    /\ LegacyNames \in Seq(Range(LegacyNames)) /\ Len(LegacyNames) \in Nat
    /\ Len(LegacyNames) >= 2
    /\ \A i \in LegacyIndex : LegacyNames[i] \in Range(LegacyNames)
    /\ \A n \in Range(LegacyNames) : \E i \in LegacyIndex : n = LegacyNames[i]
    /\ \A n \in Range(LegacyNames) : n \in Names /\ n # Reserved
    /\ \A i, j \in LegacyIndex : LegacyNames[i] = LegacyNames[j] => i = j
    /\ Reserved \in Names /\ NoFile \notin Names
<1>1. LegacyNames \in Seq(Range(LegacyNames)) /\ Len(LegacyNames) >= 2
  BY UniverseAssumption
<1>2. Len(LegacyNames) \in Nat /\ DOMAIN LegacyNames = LegacyIndex
  BY <1>1 DEF LegacyIndex
<1>3. \A i \in LegacyIndex : LegacyNames[i] \in Range(LegacyNames)
  BY <1>2 DEF Range
<1>4. \A n \in Range(LegacyNames) : \E i \in LegacyIndex : n = LegacyNames[i]
  BY <1>2 DEF Range
<1>5. /\ \A n \in Range(LegacyNames) : n \in Names /\ n # Reserved
      /\ Reserved \in Names /\ NoFile \notin Names
  BY UniverseAssumption DEF Names
<1>6. \A i, j \in LegacyIndex : LegacyNames[i] = LegacyNames[j] => i = j
  BY UniverseAssumption, <1>2
<1> QED BY <1>1, <1>2, <1>3, <1>4, <1>5, <1>6

(* The name that is kept is the first of those found.                        *)
LEMMA KeptIsFirst ==
    ASSUME NEW L \in SUBSET Range(LegacyNames), L # {}
    PROVE  \E k \in LegacyIndex : /\ Kept(L) = LegacyNames[k] /\ LegacyNames[k] \in L
                                  /\ \A i \in LegacyIndex : LegacyNames[i] \in L => k <= i
<1>1. \E i \in 1 .. Len(LegacyNames) : LegacyNames[i] \in L
  BY LegacyFacts DEF LegacyIndex
<1> DEFINE k == SelectInSeq(LegacyNames, LAMBDA n : n \in L)
<1>2. /\ k \in 1 .. Len(LegacyNames) /\ LegacyNames[k] \in L
      /\ \A i \in 1 .. Len(LegacyNames) : LegacyNames[i] \in L => k <= i
  BY <1>1, LegacyFacts, SelectsFirst
<1>3. Kept(L) = LegacyNames[k]
  BY DEF Kept
<1> QED BY <1>2, <1>3 DEF LegacyIndex

-----------------------------------------------------------------------------
(* Initial states.                                                           *)

LEMMA IdleIsAPlace == Idle \in Place
  BY LegacyFacts DEF Idle, Place

LEMMA UniversesInitial ==
    ASSUME UniversesInit
    PROVE  IInv
<1> USE LegacyFacts
<1>1. PlacesOK
  BY IdleIsAPlace DEF UniversesInit, PlacesOK, PlaceOK, Idle
<1>2. MemoryOK
  BY DEF UniversesInit, MemoryOK, Exists
<1>3. LinksOK
  <2>1. LegacyNames[1] \in Range(LegacyNames) /\ LegacyNames[2] \in Range(LegacyNames)
    BY DEF LegacyIndex
  <2>2. link \in Directories
    BY DEF UniversesInit
  <2>3. link \in [Names -> Names \cup {NoFile}]
    BY <2>1, <2>2 DEF Directories
  <2>4. \A n \in Names : link[n] \in {n, Reserved, NoFile}
    BY <2>1, <2>2 DEF Directories
  <2> QED BY <2>3, <2>4 DEF LinksOK
<1>4. ScansHold
  BY DEF UniversesInit, ScansHold, Idle
<1>5. LegacyFileKept
  <2>1. link[Reserved] \in {Reserved, NoFile}
    BY <1>3 DEF LinksOK
  <2> QED BY <2>1 DEF UniversesInit, LegacyFileKept, Exists
<1> QED BY <1>1, <1>2, <1>3, <1>4, <1>5 DEF IInv

-----------------------------------------------------------------------------
(* What the steps of a request have in common.                               *)

LEMMA HealingIsAPlace ==
    ASSUME NEW now \in Place, PlaceOK(now), NEW next \in 0 .. Len(LegacyNames) + 1
    PROVE  Healing(now, next) \in Place /\ PlaceOK(Healing(now, next))
           /\ Healing(now, next).linked = {}
  BY LegacyFacts DEF Place, PlaceOK, Healing

(* A step of a process changes where it is and nobody else.                  *)
LEMMA PlacesStep ==
    ASSUME PlacesOK, NEW p \in Procs, NEW new \in Place, PlaceOK(new),
           at' = [at EXCEPT ![p] = new]
    PROVE  PlacesOK'
<1>1. at' \in [Procs -> Place]
  BY DEF PlacesOK
<1>2. ASSUME NEW q \in Procs PROVE PlaceOK(at'[q])
  BY DEF PlacesOK
<1> QED BY <1>1, <1>2 DEF PlacesOK, PlaceOK

(* A step that unlinks nothing and finds no name keeps the order.            *)
LEMMA ScansStep ==
    ASSUME IInv, NEW p \in Procs, NEW new, new.linked \subseteq at[p].linked,
           at' = [at EXCEPT ![p] = new], link' = link, dropped' = dropped
    PROVE  ScansHold' /\ LegacyFileKept'
<1>1. ASSUME NEW q \in Procs PROVE at'[q].linked \subseteq at[q].linked
  BY DEF IInv, PlacesOK
<1> QED BY <1>1 DEF IInv, ScansHold, LegacyFileKept

(* A step that only moves its process on.                                    *)
LEMMA OnlyMoves ==
    ASSUME IInv, NEW p \in Procs, NEW new \in Place, PlaceOK(new),
           new.linked \subseteq at[p].linked, at' = [at EXCEPT ![p] = new],
           UNCHANGED <<link, dropped>>, MemoryOK'
    PROVE  IInv'
<1>1. PlacesOK'
  BY PlacesStep DEF IInv
<1>2. ScansHold' /\ LegacyFileKept'
  BY ScansStep
<1>3. LinksOK'
  BY DEF IInv, LinksOK
<1> QED BY <1>1, <1>2, <1>3 DEF IInv

LEMMA Memory ==
    ASSUME MemoryOK, UNCHANGED <<data, loaded, dropped>>
    PROVE  MemoryOK'
  BY DEF MemoryOK

LEMMA Forgets ==
    ASSUME MemoryOK, NEW p \in Procs, NEW gone_, Forgotten(p, gone_), data' = data,
           dropped' \in BOOLEAN
    PROVE  MemoryOK'
<1>1. [n \in DOMAIN loaded[p] |-> IF n \in gone_ THEN NoFile ELSE loaded[p][n]]
        \in [Names \ {Reserved} -> Contents \cup {NoFile}]
  BY DEF MemoryOK
<1>2. loaded' \in [Procs -> [Names \ {Reserved} -> Contents \cup {NoFile}]]
  BY <1>1 DEF Forgotten, MemoryOK
<1> QED BY <1>2 DEF MemoryOK

(* Wherever a process is, a load may be all it goes on with.                 *)
LEMMA MigratedIsAPlace ==
    ASSUME PlacesOK, NEW p \in Procs, Migrated(p)
    PROVE  \E new \in Place : /\ PlaceOK(new) /\ new.linked = at[p].linked
                              /\ at' = [at EXCEPT ![p] = new]
<1> DEFINE new == [at[p] EXCEPT !.step = "load"]
<1>1. at[p] \in Place /\ PlaceOK(at[p])
  BY DEF PlacesOK
<1>2. new \in Place /\ new.linked = at[p].linked
  BY <1>1 DEF Place
<1>3. PlaceOK(new)
  BY <1>1 DEF Place, PlaceOK
<1>4. at' = [at EXCEPT ![p] = new]
  BY DEF Migrated
<1> QED BY <1>2, <1>3, <1>4

-----------------------------------------------------------------------------
(* Steps that unlink nothing.                                                *)

LEMMA AskKeeps ==
    ASSUME IInv, NEW p \in Procs, NEW n \in Names, NEW after \in {"idle", "use", "remove"},
           AskUniverse(p, n, after)
    PROVE  IInv'
<1> USE LegacyFacts
<1> DEFINE asked == [Idle EXCEPT !.name = n, !.after = after]
           new == IF Exists(Reserved) THEN Healing(asked, 1)
                  ELSE [Idle EXCEPT !.step = "load", !.name = n, !.after = after]
<1>1. /\ asked \in Place /\ asked.unseen = {} /\ asked.linked = {} /\ asked.step = "idle"
      /\ asked.name = n /\ asked.after = after
  BY IdleIsAPlace DEF Idle, Place
<1>0. PlaceOK(asked)
  BY <1>1 DEF AskUniverse, PlaceOK
<1>2. new \in Place /\ PlaceOK(new) /\ new.linked = {}
  <2>1. CASE Exists(Reserved)
    <3>1. 1 \in 0 .. Len(LegacyNames) + 1
      OBVIOUS
    <3> QED BY <1>0, <1>1, <2>1, <3>1, HealingIsAPlace
  <2>2. CASE ~Exists(Reserved)
    <3>1. new = [asked EXCEPT !.step = "load"]
      BY <2>2 DEF Idle
    <3> HIDE DEF asked, new
    <3>2. new \in Place /\ new.linked = {} /\ new.unseen = {} /\ new.step = "load"
          /\ new.name = n /\ new.after = after
      BY <1>1, <3>1 DEF Place
    <3> QED BY <3>2 DEF PlaceOK, AskUniverse
  <2> QED BY <2>1, <2>2
<1>3. at' = [at EXCEPT ![p] = new]
  BY DEF AskUniverse
<1> HIDE DEF new
<1> QED BY <1>2, <1>3, Memory, OnlyMoves DEF AskUniverse, IInv

LEMMA ScanNameKeeps ==
    ASSUME IInv, NEW p \in Procs, NEW n \in Range(LegacyNames), ScanName(p, n)
    PROVE  IInv'
<1> USE LegacyFacts
<1> DEFINE found == IF SameFile(Reserved, n) THEN {n} ELSE {}
           new == [at[p] EXCEPT !.unseen = @ \ {n}, !.linked = @ \cup found]
<1>1. at[p] \in Place /\ PlaceOK(at[p])
  BY DEF IInv, PlacesOK
<1>2. at' = [at EXCEPT ![p] = new]
  BY <1>1 DEF ScanName, IInv, PlacesOK, Place
<1>3. new \in Place /\ new.linked = at[p].linked \cup found
  BY <1>1 DEF Place
<1>4. PlaceOK(new)
  BY <1>1 DEF Place, PlaceOK
<1>5. n \in found => link[n] = Reserved
  BY DEF SameFile, Exists, IInv, LinksOK
<1> HIDE DEF new
<1>6. PlacesOK'
  BY <1>2, <1>3, <1>4, PlacesStep DEF IInv
<1>7. ScansHold'
  <2> SUFFICES ASSUME NEW q \in Procs, NEW i \in LegacyIndex,
                      LegacyNames[i] \in at'[q].linked
               PROVE  dropped \/ \E j \in 1 .. i : link[LegacyNames[j]] = Reserved
    BY DEF ScansHold, ScanName
  <2>1. CASE LegacyNames[i] \in at[q].linked
    BY <2>1 DEF IInv, ScansHold
  <2>2. CASE LegacyNames[i] \notin at[q].linked
    <3>1. q = p /\ LegacyNames[i] = n /\ n \in found
      BY <1>2, <1>3, <2>2 DEF IInv, PlacesOK
    <3>2. i \in 1 .. i
      BY DEF LegacyIndex
    <3> QED BY <1>5, <3>1, <3>2
  <2> QED BY <2>1, <2>2
<1>8. LinksOK' /\ LegacyFileKept' /\ MemoryOK'
  BY Memory DEF ScanName, IInv, LinksOK, LegacyFileKept
<1> QED BY <1>6, <1>7, <1>8 DEF IInv

LEMMA ScanEndsKeeps ==
    ASSUME IInv, NEW p \in Procs, ScanEnds(p)
    PROVE  IInv'
<1> USE LegacyFacts
<1> DEFINE now == at[p]
           new == IF now.linked # {} THEN [now EXCEPT !.step = "clean"]
                  ELSE IF now.next = 0 THEN [now EXCEPT !.step = "load"]
                  ELSE [now EXCEPT !.step = "look", !.try = now.next]
<1>1. now \in Place /\ PlaceOK(now)
  BY DEF IInv, PlacesOK
<1>2. at' = [at EXCEPT ![p] = new]
  BY DEF ScanEnds, IInv, PlacesOK
<1>3. new \in Place /\ PlaceOK(new) /\ new.linked = now.linked
  <2>1. CASE now.linked # {}
    BY <1>1, <2>1 DEF Place, PlaceOK
  <2>2. CASE now.linked = {} /\ now.next = 0
    BY <1>1, <2>2 DEF Place, PlaceOK
  <2>3. CASE now.linked = {} /\ now.next # 0
    <3>1. now.next \in 1 .. Len(LegacyNames) + 1
      BY <1>1, <2>3 DEF Place
    <3>2. new = [now EXCEPT !.step = "look", !.try = now.next]
      BY <2>3
    <3> QED BY <1>1, <3>1, <3>2 DEF Place, PlaceOK
  <2> QED BY <2>1, <2>2, <2>3
<1> HIDE DEF new
<1> QED BY <1>2, <1>3, Memory, OnlyMoves DEF ScanEnds, IInv

LEMMA CleanRefusedKeeps ==
    ASSUME IInv, NEW p \in Procs, CleanRefused(p) \/ OutOfNames(p) \/ LinkRefused(p)
    PROVE  IInv'
<1>1. Migrated(p) /\ UNCHANGED <<link, data, loaded, dropped>>
  BY DEF CleanRefused, OutOfNames, LinkRefused
<1>2. PICK new \in Place : /\ PlaceOK(new) /\ new.linked = at[p].linked
                           /\ at' = [at EXCEPT ![p] = new]
  BY <1>1, MigratedIsAPlace DEF IInv
<1> QED BY <1>1, <1>2, Memory, OnlyMoves DEF IInv

LEMMA LookKeeps ==
    ASSUME IInv, NEW p \in Procs, LookForName(p)
    PROVE  IInv'
<1> USE LegacyFacts
<1> DEFINE now == at[p]
           new == IF ~Exists(LegacyNames[now.try]) THEN [now EXCEPT !.step = "link"]
                  ELSE Healing(now, now.try + 1)
<1>1. now \in Place /\ PlaceOK(now) /\ now.try \in 1 .. Len(LegacyNames)
  BY DEF IInv, PlacesOK, LookForName, Place
<1>2. at' = [at EXCEPT ![p] = new]
  BY DEF LookForName, IInv, PlacesOK
<1>3. new \in Place /\ PlaceOK(new) /\ new.linked \subseteq now.linked
  <2>1. CASE ~Exists(LegacyNames[now.try])
    BY <1>1, <2>1 DEF Place, PlaceOK
  <2>2. CASE Exists(LegacyNames[now.try])
    BY <1>1, <2>2, HealingIsAPlace
  <2> QED BY <2>1, <2>2
<1> HIDE DEF new
<1> QED BY <1>2, <1>3, Memory, OnlyMoves DEF LookForName, IInv

(* A link never takes the place of another.                                  *)
LEMMA LinkKeeps ==
    ASSUME IInv, NEW p \in Procs, LinkName(p)
    PROVE  IInv'
<1> USE LegacyFacts
<1> DEFINE now == at[p]
           n == LegacyNames[now.try]
<1>0. now \in Place /\ PlaceOK(now) /\ now.step = "link"
  BY DEF IInv, PlacesOK, LinkName
<1>1. now.try \in LegacyIndex
  BY <1>0 DEF Place, PlaceOK, LegacyIndex
<1>2. n \in Names /\ n # Reserved
  BY <1>1
<1>3. MemoryOK'
  BY Memory DEF LinkName, IInv
<1>4. CASE Exists(n)
  <2> DEFINE new == Healing(now, now.try + 1)
  <2>1. at' = [at EXCEPT ![p] = new] /\ link' = link
    BY <1>4 DEF LinkName
  <2>2. new \in Place /\ PlaceOK(new) /\ new.linked \subseteq now.linked
    <3>1. \A t \in LegacyIndex : t + 1 \in 0 .. Len(LegacyNames) + 1
      BY DEF LegacyIndex
    <3> QED BY <1>0, <1>1, <3>1, HealingIsAPlace
  <2> HIDE DEF new
  <2> QED BY <1>3, <2>1, <2>2, OnlyMoves DEF LinkName
<1>5. CASE ~Exists(n)
  <2> DEFINE new == Healing(now, 0)
  <2>1. /\ at' = [at EXCEPT ![p] = new]
        /\ link' = [link EXCEPT ![n] = link[Reserved]] /\ link[Reserved] = Reserved
        /\ dropped' = dropped
    BY <1>5 DEF LinkName, IInv, LinksOK, Exists
  <2>2. new \in Place /\ PlaceOK(new) /\ new.linked = {}
    BY <1>0, HealingIsAPlace
  <2> HIDE DEF new
  <2>3. PlacesOK'
    BY <2>1, <2>2, PlacesStep DEF IInv
  <2>4. \A m \in Names : link'[m] = IF m = n THEN Reserved ELSE link[m]
    BY <2>1 DEF IInv, LinksOK
  <2>5. LinksOK' /\ LegacyFileKept'
    BY <1>2, <2>1, <2>4 DEF IInv, LinksOK, LegacyFileKept
  <2>6. ScansHold'
    <3> SUFFICES ASSUME NEW q \in Procs, NEW i \in LegacyIndex,
                        LegacyNames[i] \in at'[q].linked, ~dropped
                 PROVE  \E j \in 1 .. i : link'[LegacyNames[j]] = Reserved
      BY <2>1 DEF ScansHold
    <3>1. LegacyNames[i] \in at[q].linked
      BY <2>1, <2>2 DEF IInv, PlacesOK
    <3>2. PICK j \in 1 .. i : link[LegacyNames[j]] = Reserved
      BY <3>1 DEF IInv, ScansHold
    <3>3. j \in LegacyIndex
      BY DEF LegacyIndex
    <3> QED BY <2>4, <3>2, <3>3
  <2> QED BY <1>3, <2>3, <2>5, <2>6 DEF IInv
<1> QED BY <1>4, <1>5

(* A file is taken into memory once it is whole.                             *)
LEMMA LoadKeeps ==
    ASSUME IInv, NEW p \in Procs, LoadFiles(p)
    PROVE  IInv'
<1> USE LegacyFacts
<1> DEFINE now == at[p]
           new == IF now.after = "idle" THEN Idle
                  ELSE [Idle EXCEPT !.step = now.after, !.name = now.name]
<1>1. now \in Place /\ PlaceOK(now)
  BY DEF IInv, PlacesOK
<1>2. new \in Place /\ PlaceOK(new) /\ new.linked \subseteq now.linked
  <2>1. Idle.linked = {} /\ Idle.unseen = {} /\ Idle.after = "idle" /\ Idle.step = "idle"
    BY DEF Idle
  <2>2. CASE now.after = "idle"
    BY <2>1, <2>2, IdleIsAPlace DEF PlaceOK
  <2>3. CASE now.after # "idle"
    <3>1. now.after \in {"use", "remove"} /\ now.name \in Names
      BY <1>1, <2>3 DEF Place
    <3>2. new = [Idle EXCEPT !.step = now.after, !.name = now.name]
      BY <2>3
    <3>3. /\ new \in Place /\ new.linked = {} /\ new.unseen = {} /\ new.after = "idle"
          /\ new.step = now.after /\ new.name = now.name
      BY <2>1, <3>1, <3>2, IdleIsAPlace DEF Place
    <3> HIDE DEF new
    <3> QED BY <1>1, <3>1, <3>3 DEF PlaceOK
  <2> QED BY <2>2, <2>3
<1>3. at' = [at EXCEPT ![p] = new]
  BY DEF LoadFiles
<1> HIDE DEF new
<1>4. AfterLoad(p) \in [Names \ {Reserved} -> Contents \cup {NoFile}]
  <2> SUFFICES ASSUME NEW n \in Names \ {Reserved}, Exists(n), data[link[n]] # Torn
               PROVE  data[link[n]] \in Contents
    BY DEF AfterLoad, IInv, MemoryOK
  <2>1. link[n] \in Names
    BY DEF Exists, IInv, LinksOK
  <2> QED BY <2>1 DEF IInv, MemoryOK
<1>5. MemoryOK'
  BY <1>4 DEF LoadFiles, IInv, MemoryOK
<1> QED BY <1>2, <1>3, <1>5, OnlyMoves DEF LoadFiles

LEMMA BackToIdle ==
    ASSUME IInv, NEW p \in Procs, at' = [at EXCEPT ![p] = Idle],
           UNCHANGED <<link, dropped>>, MemoryOK'
    PROVE  IInv'
<1>1. PlaceOK(Idle) /\ Idle.linked \subseteq at[p].linked
  BY DEF PlaceOK, Idle
<1> QED BY <1>1, IdleIsAPlace, OnlyMoves

LEMMA RemoveUnknownKeeps ==
    ASSUME IInv, NEW p \in Procs, RemoveUnknown(p) \/ UseUniverse(p)
    PROVE  IInv'
  BY BackToIdle, Memory DEF RemoveUnknown, UseUniverse, IInv

LEMMA EndSaveKeeps ==
    ASSUME IInv, NEW p \in Procs, NEW c \in Contents, EndSave(p, c)
    PROVE  IInv'
<1> DEFINE n == at[p].name
<1>1. n \in Names
  BY DEF IInv, PlacesOK, Place
<1>2. Exists(n) => link[n] \in Names
  BY <1>1 DEF Exists, IInv, LinksOK
<1>3. data' \in [Names -> Contents \cup {Torn}]
  BY <1>2 DEF EndSave, IInv, MemoryOK
<1>4. loaded' \in [Procs -> [Names \ {Reserved} -> Contents \cup {NoFile}]]
  BY DEF EndSave, IInv, MemoryOK
<1>5. MemoryOK'
  BY <1>3, <1>4 DEF EndSave, IInv, MemoryOK
<1> QED BY <1>5, BackToIdle DEF EndSave

LEMMA CrashKeeps ==
    ASSUME IInv, NEW p \in Procs, CrashProcess(p)
    PROVE  IInv'
<1>1. MemoryOK'
  BY DEF CrashProcess, IInv, MemoryOK
<1> QED BY <1>1, BackToIdle DEF CrashProcess

(* A file that is written keeps its inode, and a new name gets its own.      *)
LEMMA BeginSaveKeeps ==
    ASSUME IInv, NEW p \in Procs, NEW n \in Names \ {Reserved}, BeginSave(p, n)
    PROVE  IInv'
<1> DEFINE inode == IF Exists(n) THEN link[n] ELSE n
           new == [Idle EXCEPT !.step = "write", !.name = n]
<1>1. /\ inode \in Names /\ inode \in {n, Reserved}
      /\ link[n] = Reserved => inode = Reserved
  BY LegacyFacts DEF Exists, IInv, LinksOK
<1>2. /\ link' = [link EXCEPT ![n] = inode] /\ data' = [data EXCEPT ![inode] = Torn]
      /\ at' = [at EXCEPT ![p] = new] /\ UNCHANGED <<loaded, dropped>>
  BY DEF BeginSave
<1>3. new \in Place /\ PlaceOK(new) /\ new.linked = {}
  <2>1. Idle.linked = {} /\ Idle.unseen = {} /\ Idle.after = "idle"
    BY DEF Idle
  <2>2. new \in Place /\ new.linked = {} /\ new.unseen = {} /\ new.after = "idle"
        /\ new.step = "write"
    BY <2>1, IdleIsAPlace DEF Place
  <2> HIDE DEF new
  <2> QED BY <2>2 DEF PlaceOK
<1> HIDE DEF inode, new
<1>4. PlacesOK'
  BY <1>2, <1>3, PlacesStep DEF IInv
<1>5. MemoryOK'
  BY <1>1, <1>2 DEF IInv, MemoryOK
<1>6. \A m \in Names : link'[m] = IF m = n THEN inode ELSE link[m]
  BY <1>2 DEF IInv, LinksOK
<1>7. LinksOK'
  BY <1>1, <1>2, <1>6 DEF IInv, LinksOK
<1>8. \A m \in Names : link[m] = Reserved => link'[m] = Reserved
  BY <1>1, <1>6
<1>9. LegacyFileKept'
  BY <1>2, <1>8 DEF IInv, LegacyFileKept
<1>10. ScansHold'
  <2> SUFFICES ASSUME NEW q \in Procs, NEW i \in LegacyIndex,
                      LegacyNames[i] \in at'[q].linked, ~dropped
               PROVE  \E j \in 1 .. i : link'[LegacyNames[j]] = Reserved
    BY <1>2 DEF ScansHold
  <2>1. LegacyNames[i] \in at[q].linked
    BY <1>2, <1>3 DEF IInv, PlacesOK
  <2>2. PICK j \in 1 .. i : link[LegacyNames[j]] = Reserved
    BY <2>1 DEF IInv, ScansHold
  <2>3. j \in LegacyIndex
    BY LegacyFacts DEF LegacyIndex
  <2> QED BY <1>8, <2>2, <2>3, LegacyFacts
<1> QED BY <1>4, <1>5, <1>7, <1>9, <1>10 DEF IInv

-----------------------------------------------------------------------------
(* Steps that unlink.                                                        *)

LEMMA UnlinkEffect ==
    ASSUME LinksOK, NEW n \in Names, Unlinked(n)
    PROVE  LinksOK' /\ \A m \in Names : link'[m] = IF m = n THEN NoFile ELSE link[m]
<1>1. \A m \in Names : link'[m] = IF m = n THEN NoFile ELSE link[m]
  BY DEF Unlinked, LinksOK
<1>2. link' \in [Names -> Names \cup {NoFile}]
  BY DEF Unlinked, LinksOK
<1> QED BY <1>1, <1>2 DEF LinksOK

(* What is unlinked is tried after a name under which the file still is.     *)
LEMMA RemoveDuplicateKeeps ==
    ASSUME IInv, NEW p \in Procs, NEW n \in Range(LegacyNames), RemoveDuplicate(p, n)
    PROVE  IInv'
<1> DEFINE now == at[p]
           new == [now EXCEPT !.linked = @ \ {n}]
<1>1. now \in Place /\ PlaceOK(now)
  BY DEF IInv, PlacesOK
<1>2. /\ n \in now.linked /\ n # Kept(now.linked) /\ n \in Names
      /\ Unlinked(n) /\ Forgotten(p, {n}) /\ UNCHANGED <<data, dropped>>
      /\ at' = [at EXCEPT ![p].linked = @ \ {n}]
  BY LegacyFacts DEF RemoveDuplicate
<1>3. at' = [at EXCEPT ![p] = new]
  BY <1>2 DEF IInv, PlacesOK
<1>4. new \in Place /\ PlaceOK(new) /\ new.linked = now.linked \ {n}
  BY <1>1 DEF Place, PlaceOK
<1> HIDE DEF new
<1>5. PlacesOK'
  BY <1>3, <1>4, PlacesStep DEF IInv
<1>6. MemoryOK'
  BY <1>2, Forgets DEF IInv, MemoryOK
<1>7. LinksOK' /\ \A m \in Names : link'[m] = IF m = n THEN NoFile ELSE link[m]
  BY <1>2, UnlinkEffect DEF IInv
<1>8. now.linked \in SUBSET Range(LegacyNames) /\ now.linked # {}
  BY <1>1, <1>2 DEF Place
<1>9. PICK k \in LegacyIndex : /\ Kept(now.linked) = LegacyNames[k]
                               /\ LegacyNames[k] \in now.linked
                               /\ \A i \in LegacyIndex : LegacyNames[i] \in now.linked => k <= i
  BY <1>8, KeptIsFirst
<1>10. PICK x \in LegacyIndex : n = LegacyNames[x]
  BY LegacyFacts
<1>11. k < x
  <2>1. k <= x /\ k # x
    BY <1>2, <1>9, <1>10
  <2> QED BY <2>1, LegacyFacts DEF LegacyIndex
<1>12. ~dropped => \E j \in 1 .. k : link'[LegacyNames[j]] = Reserved
  <2> SUFFICES ASSUME ~dropped PROVE \E j \in 1 .. k : link'[LegacyNames[j]] = Reserved
    OBVIOUS
  <2>1. PICK j \in 1 .. k : link[LegacyNames[j]] = Reserved
    BY <1>9 DEF IInv, ScansHold
  <2>2. j \in LegacyIndex /\ j # x
    <3>1. Len(LegacyNames) \in Nat
      BY LegacyFacts
    <3> QED BY <1>11, <3>1 DEF LegacyIndex
  <2>3. LegacyNames[j] \in Names /\ LegacyNames[j] # n
    BY <1>10, <2>2, LegacyFacts
  <2> QED BY <1>7, <2>1, <2>3
<1>13. ScansHold'
  <2> SUFFICES ASSUME NEW q \in Procs, NEW i \in LegacyIndex,
                      LegacyNames[i] \in at'[q].linked, ~dropped
               PROVE  \E j \in 1 .. i : link'[LegacyNames[j]] = Reserved
    BY <1>2 DEF ScansHold
  <2>1. LegacyNames[i] \in at[q].linked
    BY <1>3, <1>4 DEF IInv, PlacesOK
  <2>2. PICK j \in 1 .. i : link[LegacyNames[j]] = Reserved
    BY <2>1 DEF IInv, ScansHold
  <2>3. j \in LegacyIndex
    BY LegacyFacts DEF LegacyIndex
  <2>4. CASE j # x
    <3>1. LegacyNames[j] \in Names /\ LegacyNames[j] # n
      BY <1>10, <2>3, <2>4, LegacyFacts
    <3> QED BY <1>7, <2>2, <3>1
  <2>5. CASE j = x
    <3>1. PICK m \in 1 .. k : link'[LegacyNames[m]] = Reserved
      BY <1>12
    <3>2. m \in 1 .. i
      BY <1>11, <2>5, LegacyFacts DEF LegacyIndex
    <3> QED BY <3>1, <3>2
  <2> QED BY <2>4, <2>5
<1>14. LegacyFileKept'
  <2> SUFFICES ASSUME ~dropped PROVE \E m \in Names : link'[m] = Reserved
    BY <1>2 DEF LegacyFileKept
  <2>1. PICK j \in 1 .. k : link'[LegacyNames[j]] = Reserved
    BY <1>12
  <2>2. j \in LegacyIndex
    BY LegacyFacts DEF LegacyIndex
  <2> QED BY <2>1, <2>2, LegacyFacts
<1> QED BY <1>5, <1>6, <1>7, <1>13, <1>14 DEF IInv

(* The reserved name goes once one of the names that were found is left.     *)
LEMMA RemoveReservedKeeps ==
    ASSUME IInv, NEW p \in Procs, RemoveReserved(p)
    PROVE  IInv'
<1>1. /\ Cardinality(at[p].linked) = 1 /\ Unlinked(Reserved) /\ Forgotten(p, at[p].linked)
      /\ Migrated(p) /\ UNCHANGED <<data, dropped>>
  BY DEF RemoveReserved
<1>2. PICK new \in Place : /\ PlaceOK(new) /\ new.linked = at[p].linked
                           /\ at' = [at EXCEPT ![p] = new]
  BY <1>1, MigratedIsAPlace DEF IInv
<1>3. PlacesOK'
  BY <1>2, PlacesStep DEF IInv
<1>4. MemoryOK'
  BY <1>1, Forgets DEF IInv, MemoryOK
<1>5. LinksOK' /\ \A m \in Names : link'[m] = IF m = Reserved THEN NoFile ELSE link[m]
  BY <1>1, UnlinkEffect, LegacyFacts DEF IInv
<1>6. \A i \in LegacyIndex : link'[LegacyNames[i]] = link[LegacyNames[i]]
  BY <1>5, LegacyFacts
<1>7. ScansHold'
  <2> SUFFICES ASSUME NEW q \in Procs, NEW i \in LegacyIndex,
                      LegacyNames[i] \in at'[q].linked, ~dropped
               PROVE  \E j \in 1 .. i : link'[LegacyNames[j]] = Reserved
    BY <1>1 DEF ScansHold
  <2>1. LegacyNames[i] \in at[q].linked
    BY <1>2 DEF IInv, PlacesOK
  <2>2. PICK j \in 1 .. i : link[LegacyNames[j]] = Reserved
    BY <2>1 DEF IInv, ScansHold
  <2>3. j \in LegacyIndex
    BY LegacyFacts DEF LegacyIndex
  <2> QED BY <1>6, <2>2, <2>3
<1>8. LegacyFileKept'
  <2> SUFFICES ASSUME ~dropped PROVE \E m \in Names : link'[m] = Reserved
    BY <1>1 DEF LegacyFileKept
  <2>0. at[p].linked # {}
    BY <1>1, FS_EmptySet
  <2>1. at[p].linked # {} /\ at[p].linked \subseteq Range(LegacyNames)
    BY <2>0 DEF IInv, PlacesOK, Place
  <2>2. PICK i \in LegacyIndex : LegacyNames[i] \in at[p].linked
    BY <2>1, LegacyFacts
  <2>3. PICK j \in 1 .. i : link[LegacyNames[j]] = Reserved
    BY <2>2 DEF IInv, ScansHold
  <2>4. j \in LegacyIndex
    BY LegacyFacts DEF LegacyIndex
  <2> QED BY <1>6, <2>3, <2>4, LegacyFacts
<1> QED BY <1>3, <1>4, <1>5, <1>7, <1>8 DEF IInv

(* A client that removes the file that was moved knows it is gone.           *)
LEMMA RemoveUniverseKeeps ==
    ASSUME IInv, NEW p \in Procs, RemoveUniverse(p)
    PROVE  IInv'
<1> DEFINE n == at[p].name
<1>1. /\ Forgotten(p, {n}) /\ Unlinked(n) /\ dropped' = (dropped \/ link[n] = Reserved)
      /\ at' = [at EXCEPT ![p] = Idle] /\ data' = data
  BY DEF RemoveUniverse
<1>2. n \in Names /\ PlaceOK(Idle) /\ Idle.linked = {}
  BY DEF IInv, PlacesOK, Place, PlaceOK, Idle
<1> HIDE DEF n
<1>3. PlacesOK'
  BY <1>1, <1>2, PlacesStep, IdleIsAPlace DEF IInv
<1>4. MemoryOK'
  BY <1>1, Forgets DEF IInv, MemoryOK
<1>5. LinksOK' /\ \A m \in Names : link'[m] = IF m = n THEN NoFile ELSE link[m]
  BY <1>1, <1>2, UnlinkEffect DEF IInv
<1>6. ~dropped' => ~dropped /\ \A m \in Names : link[m] = Reserved => link'[m] = Reserved
  BY <1>1, <1>5
<1>7. ScansHold'
  <2> SUFFICES ASSUME NEW q \in Procs, NEW i \in LegacyIndex,
                      LegacyNames[i] \in at'[q].linked, ~dropped'
               PROVE  \E j \in 1 .. i : link'[LegacyNames[j]] = Reserved
    BY DEF ScansHold
  <2>1. LegacyNames[i] \in at[q].linked
    BY <1>1, <1>2 DEF IInv, PlacesOK
  <2>2. PICK j \in 1 .. i : link[LegacyNames[j]] = Reserved
    BY <1>6, <2>1 DEF IInv, ScansHold
  <2>3. j \in LegacyIndex
    BY LegacyFacts DEF LegacyIndex
  <2> QED BY <1>6, <2>2, <2>3, LegacyFacts
<1>8. LegacyFileKept'
  BY <1>6 DEF IInv, LegacyFileKept
<1> QED BY <1>3, <1>4, <1>5, <1>7, <1>8 DEF IInv

LEMMA ClearKeeps ==
    ASSUME IInv, ClearUniverses
    PROVE  IInv'
<1>1. PlacesOK'
  BY DEF ClearUniverses, IInv, PlacesOK
<1>2. LinksOK' /\ MemoryOK'
  BY DEF ClearUniverses, IInv, LinksOK, MemoryOK
<1>3. ScansHold' /\ LegacyFileKept'
  BY DEF ClearUniverses, ScansHold, LegacyFileKept
<1> QED BY <1>1, <1>2, <1>3 DEF IInv

-----------------------------------------------------------------------------
(* The specification.                                                        *)

LEMMA Untouched ==
    ASSUME IInv, UNCHANGED universeVars
    PROVE  IInv'
<1>1. UNCHANGED <<link, data, loaded, at, dropped>>
  BY DEF universeVars
<1>2. PlacesOK' /\ LinksOK' /\ MemoryOK'
  BY <1>1 DEF IInv, PlacesOK, LinksOK, MemoryOK
<1>3. ScansHold' /\ LegacyFileKept'
  BY <1>1 DEF IInv, ScansHold, LegacyFileKept
<1> QED BY <1>2, <1>3 DEF IInv

LEMMA RequestKeeps ==
    ASSUME IInv, NEW p \in Procs, UniverseRequest(p)
    PROVE  IInv'
<1>1. CASE AskUniverse(p, Reserved, "idle")
  BY <1>1, AskKeeps, LegacyFacts
<1>2. ASSUME NEW n \in Names \ {Reserved}, NEW after \in {"use", "remove"},
             AskUniverse(p, n, after)
      PROVE  IInv'
  BY <1>2, AskKeeps
<1>3. ASSUME NEW n \in Names \ {Reserved}, BeginSave(p, n) PROVE IInv'
  BY <1>3, BeginSaveKeeps
<1>4. CASE CrashProcess(p)
  BY <1>4, CrashKeeps
<1>5. CASE ClearUniverses
  BY <1>5, ClearKeeps
<1> QED BY <1>1, <1>2, <1>3, <1>4, <1>5 DEF UniverseRequest

LEMMA StepKeeps ==
    ASSUME IInv, NEW p \in Procs, UniverseStep(p)
    PROVE  IInv'
<1>1. ASSUME NEW n \in Range(LegacyNames), ScanName(p, n) PROVE IInv'
  BY <1>1, ScanNameKeeps
<1>2. ASSUME NEW n \in Range(LegacyNames), RemoveDuplicate(p, n) PROVE IInv'
  BY <1>2, RemoveDuplicateKeeps
<1>3. CASE ScanEnds(p)
  BY <1>3, ScanEndsKeeps
<1>4. CASE RemoveReserved(p)
  BY <1>4, RemoveReservedKeeps
<1>5. CASE CleanRefused(p) \/ OutOfNames(p) \/ LinkRefused(p)
  BY <1>5, CleanRefusedKeeps
<1>6. CASE LookForName(p)
  BY <1>6, LookKeeps
<1>7. CASE LinkName(p)
  BY <1>7, LinkKeeps
<1>8. CASE LoadFiles(p)
  BY <1>8, LoadKeeps
<1>9. CASE RemoveUnknown(p)
  BY <1>9, RemoveUnknownKeeps
<1>10. ASSUME NEW c \in Contents, EndSave(p, c) PROVE IInv'
  BY <1>10, EndSaveKeeps
<1> QED BY <1>1, <1>2, <1>3, <1>4, <1>5, <1>6, <1>7, <1>8, <1>9, <1>10 DEF UniverseStep

LEMMA Inductive ==
    ASSUME IInv, [Next]_homeVars
    PROVE  IInv'
<1>1. ASSUME NEW p \in Procs, UniverseRequest(p) PROVE IInv'
  BY <1>1, RequestKeeps
<1>2. ASSUME NEW p \in Procs, UniverseStep(p) PROVE IInv'
  BY <1>2, StepKeeps
<1>3. ASSUME NEW p \in Procs, UniverseRemoved(p) PROVE IInv'
  BY <1>3, RemoveUniverseKeeps DEF UniverseRemoved
<1>4. ASSUME NEW p \in Procs, UniverseUsed(p) PROVE IInv'
  BY <1>4, RemoveUnknownKeeps DEF UniverseUsed
<1>5. ASSUME NEW p \in Procs, FolderRequest(p) PROVE IInv'
  BY <1>5, Untouched DEF FolderRequest, FoldersAlone
<1>6. CASE FolderStep
  BY <1>6, Untouched DEF FolderStep, FoldersAlone
<1>7. ASSUME NEW j \in Jobs, PriceRequest(j) \/ PriceStep(j) PROVE IInv'
  BY <1>7, Untouched DEF PriceRequest, PriceStep, PricesAlone, SignalsAlone
<1>8. ASSUME NEW q \in Asks, SignalRequest(q) \/ SignalJobStep(q) PROVE IInv'
  BY <1>8, Untouched DEF SignalRequest, SignalJobStep, SignalsAlone
<1>9. CASE PricesRestart \/ Tomorrow
  BY <1>9, Untouched DEF PricesRestart, Tomorrow, PricesAlone, SignalsAlone
<1>10. CASE UNCHANGED homeVars
  BY <1>10, Untouched DEF homeVars
<1> QED BY <1>1, <1>2, <1>3, <1>4, <1>5, <1>6, <1>7, <1>8, <1>9, <1>10 DEF Next

(* Saves, deletions and moves of universes keep the order of what scans found *)
(* (migrate_reserved_universe_id, heal_linked_destinations).                 *)
THEOREM UniversesCorrect == Spec => []IInv
<1>1. Init => IInv
  BY UniversesInitial DEF Init
<1>2. IInv /\ [Next]_homeVars => IInv'
  BY Inductive
<1> QED BY <1>1, <1>2, PTL DEF Spec

(* The file that had the reserved name stays under some name until a client  *)
(* removes it or clears the directory, with any number of processes that     *)
(* move it at once (migrate_reserved_universe_id).                           *)
THEOREM LegacyFileSafe == Spec => []LegacyFileKept
<1>1. IInv => LegacyFileKept
  BY DEF IInv
<1> QED BY <1>1, UniversesCorrect, PTL

-----------------------------------------------------------------------------
(* Prices.                                                                   *)

JobRecord ==
    [status : {"absent", "asked", "queued", "running", "over"},
     kind : {"sync", "fill", "script", "signal"}, mode : {"incremental", "refresh", "missing"},
     from : Nat, to : Nat, pin : (UniverseIds \cup {"none"}) \X (Definitions \cup {"none"}),
     left : Seq(Symbols), stop : BOOLEAN,
     step : {"next", "load", "fetch", "store", "write", "replace", "undo"},
     had : Frame \cup {Absent}, ranges : Seq(Nat \X Nat), got : Seq(Frame),
     file : {"none", "temp", "target", "gone"}, mixed : BOOLEAN,
     reason : {"none", "completed", "user_stopped", "quota_exceeded"}]

PricesTyped ==
    /\ today \in Days
    /\ cache \in [Symbols -> Frame \cup {Absent, Broken}]
    /\ temp \in [Owners \X Symbols -> Frame \cup {Absent, Broken}]
    /\ clashed \in SUBSET Symbols
    /\ job \in [Jobs -> JobRecord]

Solid(S) == \A a, b \in S : \A d \in Days : a <= d /\ d <= b => d \in S

(* A stretch of days of a symbol that are over on a day.                     *)
Stretch(s, S, day) == Solid(S) /\ \A d \in S : d \in Days /\ ListDay[s] <= d /\ d <= day

FileOK(s, frame, day) ==
    Stretch(s, Held(frame), day) /\ InferredBasis(s, frame) \in {"unknown", Basis(frame.by)}

(* What a file holds: nothing, no series, or one that is as it should be.    *)
HoldsOK(s, file, day) == file \in {Absent, Broken} \/ FileOK(s, file, day)

FilesOK ==
    /\ \A s \in Symbols : HoldsOK(s, cache[s], today)
    /\ \A o \in Owners, s \in Symbols : HoldsOK(s, temp[<<o, s>>], today)

(* What a job has of its symbol, and where a range it asks for meets it.     *)
InHand(now) ==
    {d \in Days : \/ now.had # Absent /\ d \in Held(now.had)
                  \/ \E i \in DOMAIN now.got : d \in Held(now.got[i])}

Meets(range, S) == \E f \in S : range[2] = f \/ range[1] = f + 1

Pending(now, day) ==
    /\ Stretch(Head(now.left), InHand(now), day)
    /\ IF InHand(now) = {} THEN Len(now.ranges) <= 1
       ELSE \A i \in DOMAIN now.ranges : Meets(now.ranges[i], InHand(now))

PiecesOf(now) == (IF now.had = Absent THEN <<>> ELSE <<now.had>>) \o now.got

JobOK(now, day) ==
    /\ now.step \in {"next", "load"} => now.got = <<>>
    /\ now.step # "next" => now.left # <<>>
    /\ now.step = "fetch" => now.ranges # <<>>
    /\ now.step \in {"fetch", "store", "write"} => Pending(now, day)
    /\ now.step = "write" => PiecesOf(now) # <<>> /\ Mergeable(Head(now.left), PiecesOf(now))

JobsOK == \A j \in Jobs : JobOK(job[j], today)

(* A symbol no two jobs of a process have stored at once: who writes it is   *)
(* the only one to use its temporary file, which is whole when it is moved.  *)
Alone(s) ==
    /\ cache[s] # Broken
    /\ \A j \in Jobs : (Storing(j) /\ At(j) = s) =>
          /\ \A k \in Jobs : (Storing(k) /\ At(k) = s /\ k # j) => Owner(k) # Owner(j)
          /\ job[j].step = "write" => job[j].file \in {"temp", "gone"} /\ ~job[j].mixed
          /\ job[j].step # "write" => job[j].file = "none"
          /\ (job[j].file = "gone" \/ job[j].step = "replace") => temp[<<Owner(j), s>>] # Broken

AloneOK == \A s \in Symbols : s \notin clashed => Alone(s)

PricesInv == PricesTyped /\ FilesOK /\ JobsOK /\ AloneOK

-----------------------------------------------------------------------------
Plan == [def : Definitions, expected : Days, start : Days, symbols : SUBSET Symbols,
         active : SUBSET Symbols, fetch : SUBSET Symbols]
Read == [bars : SUBSET Days, prices : UNION {[S -> SUBSET Days] : S \in SUBSET Symbols}]

SignalRecord ==
    [step : {"idle", "prepared", "joined", "done", "stopped", "failed", "lost"} \cup SignalSteps,
     mode : {"refresh", "cached"}, as_of : Days \cup {0}, asked : Plan \cup {<<>>},
     plan : Plan \cup {<<>>}, panel : Read \cup {<<>>}, stop : BOOLEAN, job : Jobs \cup {0},
     with : Asks \cup {0}]

(* A plan is for the members of the day it expects; what is read for it      *)
(* includes that day's bar and no later price.                               *)
PlanOK(plan) ==
    /\ plan \in Plan
    /\ plan.active = {s \in Symbols : MemberOn(plan.def, s, plan.expected)}
    /\ plan.active \subseteq plan.symbols

ReadOK(plan, panel) ==
    /\ panel \in Read /\ plan.expected \in panel.bars
    /\ plan.active \subseteq DOMAIN panel.prices
    /\ \A s \in plan.active : \A d \in panel.prices[s] : d <= plan.expected

ExpectedOn(as_of, day) == IF as_of = 0 THEN day ELSE Min({as_of, day})

Prepared(now, day) ==
    /\ now.asked \in Plan /\ PlanOK(now.plan)
    /\ now.asked.expected <= now.plan.expected
    /\ now.plan.expected <= ExpectedOn(now.as_of, day)

(* A request and its snapshot: ranked from the plan and the prices it keeps. *)
AskOK(now, shot, day) ==
    /\ now.step # "idle" => Prepared(now, day)
    /\ now.step \in {"read", "done"} => ReadOK(now.plan, now.panel)
    /\ shot # NoSnapshot => now.step = "done" /\ shot = Ranking(now.plan, now.panel)

Key(now) == <<now.mode, now.as_of, now.asked>>

AsksOK == \A q \in Asks : AskOK(signal[q], snapshots[q], today)
Distinct ==
    \A q, r \in Asks :
        (/\ signal[q].step \in SignalSteps /\ signal[r].step \in SignalSteps
         /\ Key(signal[q]) = Key(signal[r])) => q = r

SignalsTyped == signal \in [Asks -> SignalRecord] /\ DOMAIN snapshots = Asks
SignalsInv == SignalsTyped /\ AsksOK /\ Distinct

-----------------------------------------------------------------------------
(* Operators.                                                                *)

LEMMA HasGreatest ==
    ASSUME NEW S \in SUBSET Nat, NEW n \in Nat, S # {}, \A x \in S : x <= n
    PROVE  \E x \in S : \A y \in S : y <= x
<1> DEFINE T == {n - x : x \in S}
<1>0. \A x \in S : n - x \in Nat
  OBVIOUS
<1>1. T \in SUBSET Nat /\ T # {}
  BY <1>0
<1>2. PICK t \in T : \A u \in T : t <= u
  BY <1>1, HasLeast
<1>3. PICK x \in S : t = n - x
  OBVIOUS
<1>4. ASSUME NEW y \in S PROVE y <= x
  <2>1. n - x <= n - y
    BY <1>2, <1>3
  <2> QED BY <2>1
<1> QED BY <1>4

LEMMA MaxIsGreatest ==
    ASSUME NEW S \in SUBSET Nat, NEW n \in Nat, S # {}, \A x \in S : x <= n
    PROVE  Max(S) \in S /\ \A y \in S : y <= Max(S)
<1>1. \E x \in S : \A y \in S : x >= y
  BY HasGreatest
<1> QED BY <1>1 DEF Max

(* The symbols of a batch, in some order.                                    *)
LEMMA BatchIsASequence ==
    ASSUME NEW S \in SUBSET Symbols
    PROVE  SetToSeq(S) \in Seq(Symbols)
<1>1. IsFiniteSet(S)
  BY PriceAssumption, FS_Subset
<1>2. Cardinality(S) \in Nat /\ ExistsBijection(1 .. Cardinality(S), S)
  BY <1>1, FS_CardinalityType
<1>3. \E f \in [1 .. Cardinality(S) -> S] : IsInjective(f)
  BY <1>2 DEF ExistsBijection, Bijection, Injection
<1>4. SetToSeq(S) \in [1 .. Cardinality(S) -> S]
  BY <1>3 DEF SetToSeq
<1> QED BY <1>2, <1>4

LEMMA DaysAreNumbers == \A d \in Days \cup {0} : d \in Nat
  BY PriceAssumption DEF Days

LEMMA DayFacts ==
    /\ LastDay \in Nat /\ FirstDay \in Days /\ Days \subseteq Nat
    /\ \A d \in Days : 1 <= d /\ d <= LastDay
    /\ \A d \in Nat : (1 <= d /\ d <= LastDay) => d \in Days
    /\ \A s \in Symbols : ListDay[s] \in Days
    /\ Starts \subseteq Nat /\ Ends \subseteq Nat
  BY PriceAssumption DEF Days

LEMMA FrameFacts ==
    ASSUME NEW frame \in Frame
    PROVE  /\ Held(frame) \subseteq Days /\ frame.by \in Range(Providers)
           /\ \A d \in Held(frame) : frame.days[d] \in Level
           /\ frame = [days |-> frame.days, by |-> frame.by]
<1>1. PICK S \in SUBSET Days : frame.days \in [S -> Level]
  BY DEF Frame
<1> QED BY <1>1 DEF Frame, Held

LEMMA MakesAFrame ==
    ASSUME NEW S \in SUBSET Days, NEW days \in [S -> Level], NEW by \in Range(Providers)
    PROVE  /\ [days |-> days, by |-> by] \in Frame
           /\ Held([days |-> days, by |-> by]) = S
  BY DEF Frame, Held

(* Joined pieces hold the days of all of them.                               *)
LEMMA JoinedIsAFrame ==
    ASSUME NEW pieces \in Seq(Frame), pieces # <<>>
    PROVE  /\ Joined(pieces) \in Frame /\ Joined(pieces).by = pieces[1].by
           /\ Held(Joined(pieces))
                = {d \in Days : \E i \in DOMAIN pieces : d \in Held(pieces[i])}
<1> DEFINE held == UNION {Held(pieces[i]) : i \in DOMAIN pieces}
           Of(d) == {i \in DOMAIN pieces : d \in Held(pieces[i])}
           days == [d \in held |-> pieces[Max(Of(d))].days[d]]
<1>1. \A i \in DOMAIN pieces : pieces[i] \in Frame
  OBVIOUS
<1>2. held \in SUBSET Days
  BY <1>1, FrameFacts
<1>3. held = {d \in Days : \E i \in DOMAIN pieces : d \in Held(pieces[i])}
  BY <1>2
<1>4. ASSUME NEW d \in held PROVE pieces[Max(Of(d))].days[d] \in Level
  <2>1. Of(d) # {} /\ Of(d) \in SUBSET Nat /\ Len(pieces) \in Nat
        /\ \A i \in Of(d) : i <= Len(pieces)
    OBVIOUS
  <2>2. Max(Of(d)) \in Of(d)
    BY <2>1, MaxIsGreatest
  <2> QED BY <1>1, <2>2, FrameFacts
<1>5. days \in [held -> Level]
  BY <1>4
<1>6. 1 \in DOMAIN pieces /\ pieces[1].by \in Range(Providers)
  <2>1. 1 \in DOMAIN pieces
    OBVIOUS
  <2> QED BY <1>1, <2>1, FrameFacts
<1>7. Joined(pieces) = [days |-> days, by |-> pieces[1].by]
  BY DEF Joined
<1> HIDE DEF held, days
<1> QED BY <1>2, <1>3, <1>5, <1>6, <1>7, MakesAFrame

(* What a provider answers is a stretch that reaches up to a day.            *)
LEMMA RowsAreAStretch ==
    ASSUME today \in Days, NEW provider \in Range(Providers), NEW s \in Symbols,
           NEW from \in Nat, NEW to \in Nat, NEW lag \in 0 .. 1, lag < today
    PROVE  \E upto \in Nat :
              /\ Rows(provider, s, from, to, lag) \in Frame
              /\ Held(Rows(provider, s, from, to, lag))
                    = {x \in from .. upto : x >= ListDay[s]}
              /\ upto <= today
              /\ (to # 0 /\ to <= today) => (upto <= to /\ to <= upto + 1)
<1> DEFINE last == today - lag
           end == IF provider \in Adjusting THEN to - 1 ELSE to
           upto == IF to = 0 THEN last ELSE Min({last, end})
           S == {x \in from .. upto : x >= ListDay[s]}
           level(d) == IF (IF provider \in Adjusting THEN today ELSE d) >= SplitDay[s]
                       THEN "after" ELSE "before"
<1>1. today \in Nat /\ today <= LastDay /\ last \in Nat /\ last <= today /\ today <= last + 1
  BY DayFacts
<1>2. /\ upto \in Nat /\ upto <= last
      /\ to # 0 => (upto = last \/ upto = end) /\ upto <= end
  <2>1. CASE to = 0
    BY <1>1, <2>1
  <2>2. CASE to # 0
    <3>1. {last, end} \in SUBSET Nat /\ {last, end} # {}
      BY <1>1, <2>2
    <3>2. Min({last, end}) \in {last, end} /\ \A y \in {last, end} : Min({last, end}) <= y
      BY <3>1, MinIsLeast
    <3>3. upto = Min({last, end})
      BY <2>2
    <3> HIDE DEF last, end, upto
    <3> QED BY <3>1, <3>2, <3>3
  <2> QED BY <2>1, <2>2
<1> HIDE DEF upto, last
<1>3. S \in SUBSET Days
  <2> SUFFICES ASSUME NEW x \in from .. upto, x >= ListDay[s] PROVE x \in Days
    OBVIOUS
  <2>0. ListDay[s] \in Days
    BY DayFacts
  <2>1. ListDay[s] \in Nat /\ 1 <= ListDay[s] /\ LastDay \in Nat
    BY <2>0, DayFacts
  <2>2. x \in Nat /\ x <= upto
    BY <1>2
  <2>3. 1 <= x /\ x <= LastDay
    BY <1>1, <1>2, <2>1, <2>2
  <2> QED BY <2>2, <2>3, DayFacts
<1>4. [d \in S |-> level(d)] \in [S -> Level]
  BY DEF Level
<1>5. Rows(provider, s, from, to, lag) = [days |-> [d \in S |-> level(d)], by |-> provider]
  BY DEF Rows, upto, last
<1>6. (to # 0 /\ to <= today) => (upto <= to /\ to <= upto + 1)
  BY <1>1, <1>2
<1> HIDE DEF S, level
<1>7. /\ Rows(provider, s, from, to, lag) \in Frame
      /\ Held(Rows(provider, s, from, to, lag)) = S
  BY <1>3, <1>4, <1>5, MakesAFrame
<1> QED BY <1>1, <1>2, <1>6, <1>7 DEF S

(* A stretch and the rows of a range that meets it are one stretch.          *)
LEMMA MeetingStretches ==
    ASSUME NEW S \in SUBSET Days, Solid(S), NEW low \in Nat, \A x \in S : low <= x,
           NEW f \in S, NEW from \in Nat, NEW upto \in Nat,
           from = f + 1 \/ (upto <= f /\ f <= upto + 1)
    PROVE  Solid(S \cup {x \in from .. upto : x >= low})
<1> DEFINE I == {x \in from .. upto : x >= low}
<1>0. Days \subseteq Nat
  BY DayFacts
<1> SUFFICES ASSUME NEW a \in S \cup I, NEW b \in S \cup I, NEW d \in Days, a <= d, d <= b
             PROVE  d \in S \cup I
  BY DEF Solid
<1>1. a \in Nat /\ b \in Nat /\ d \in Nat /\ f \in Nat /\ low <= a
  BY <1>0
<1>2. ASSUME NEW x \in S, NEW y \in S, x <= d, d <= y PROVE d \in S
  BY <1>2 DEF Solid
<1>3. CASE from = f + 1
  <2>1. CASE d <= f
    BY <1>1, <1>2, <1>3, <2>1
  <2>2. CASE d > f
    <3>1. CASE b \in S
      BY <1>1, <1>2, <2>2, <3>1
    <3>2. CASE b \in I
      <4>1. d <= upto /\ from <= d /\ d >= low
        BY <1>1, <1>3, <2>2, <3>2
      <4> QED BY <1>1, <4>1
    <3> QED BY <3>1, <3>2
  <2> QED BY <1>1, <2>1, <2>2
<1>4. CASE upto <= f /\ f <= upto + 1
  <2>1. CASE d >= f
    BY <1>1, <1>2, <1>4, <2>1
  <2>2. CASE d < f
    BY <1>1, <1>2, <1>4, <2>2
  <2> QED BY <1>1, <2>1, <2>2
<1> QED BY <1>3, <1>4

LEMMA LaterStretch ==
    ASSUME NEW s \in Symbols, NEW S, NEW day \in Days, NEW later \in Days, day <= later,
           Stretch(s, S, day)
    PROVE  Stretch(s, S, later)
<1> SUFFICES ASSUME NEW d \in S PROVE d <= later
  BY DEF Stretch
<1>1. d \in Nat /\ day \in Nat /\ later \in Nat /\ d <= day
  BY DayFacts DEF Stretch
<1> QED BY <1>1

LEMMA LaterJob ==
    ASSUME NEW now \in JobRecord, NEW day \in Days, NEW later \in Days, day <= later,
           JobOK(now, day)
    PROVE  JobOK(now, later)
<1> SUFFICES ASSUME now.step \in {"fetch", "store", "write"} PROVE Pending(now, later)
  BY DEF JobOK
<1>1. Pending(now, day) /\ now.left \in Seq(Symbols) /\ now.left # <<>>
  BY DEF JobOK, JobRecord
<1>2. Head(now.left) \in Symbols
  BY <1>1
<1> QED BY <1>1, <1>2, LaterStretch DEF Pending

-----------------------------------------------------------------------------
(* Jobs.                                                                     *)

(* Jobs that do not store, or do so as before, leave others alone.           *)
SameStore(new, now) ==
    \/ new.step \notin {"write", "replace", "undo"}
    \/ /\ new.step = now.step /\ new.file = now.file /\ new.mixed = now.mixed
       /\ new.kind = now.kind /\ new.left = now.left

LEMMA StoresAlone ==
    ASSUME AloneOK, UNCHANGED files, \A i \in Jobs : SameStore(job'[i], job[i])
    PROVE  AloneOK'
<1>1. UNCHANGED <<cache, temp, clashed>>
  BY DEF files
<1>2. ASSUME NEW i \in Jobs, Storing(i)'
      PROVE  /\ Storing(i) /\ At(i)' = At(i) /\ Owner(i)' = Owner(i)
             /\ job'[i].step = job[i].step /\ job'[i].file = job[i].file
             /\ job'[i].mixed = job[i].mixed
  BY <1>2 DEF SameStore, Storing, At, Owner
<1> SUFFICES ASSUME NEW s \in Symbols, s \notin clashed PROVE Alone(s)'
  BY <1>1 DEF AloneOK
<1>3. Alone(s)
  BY DEF AloneOK
<1>4. cache'[s] # Broken
  BY <1>1, <1>3 DEF Alone
<1>5. ASSUME NEW i \in Jobs, Storing(i)', At(i)' = s
      PROVE  /\ \A k \in Jobs : (Storing(k)' /\ At(k)' = s /\ k # i) => Owner(k)' # Owner(i)'
             /\ job'[i].step = "write" => job'[i].file \in {"temp", "gone"} /\ ~job'[i].mixed
             /\ job'[i].step # "write" => job'[i].file = "none"
             /\ (job'[i].file = "gone" \/ job'[i].step = "replace")
                   => temp'[<<Owner(i)', s>>] # Broken
  BY <1>1, <1>2, <1>3, <1>5 DEF Alone
<1> QED BY <1>4, <1>5 DEF Alone

LEMMA JobsStep ==
    ASSUME PricesInv, NEW j \in Jobs, NEW new \in JobRecord, JobOK(new, today),
           SameStore(new, job[j]), job' = [job EXCEPT ![j] = new], UNCHANGED <<today, files>>
    PROVE  PricesInv'
<1>0. UNCHANGED <<cache, temp, clashed>>
  BY DEF files
<1>1. PricesTyped'
  BY <1>0 DEF PricesInv, PricesTyped
<1>2. \A i \in Jobs : job'[i] = IF i = j THEN new ELSE job[i]
  BY DEF PricesInv, PricesTyped
<1>3. JobsOK'
  BY <1>2 DEF PricesInv, JobsOK
<1>4. FilesOK'
  BY <1>0 DEF PricesInv, FilesOK
<1>5. \A i \in Jobs : SameStore(job'[i], job[i])
  BY <1>2 DEF SameStore
<1>6. AloneOK'
  BY <1>5, StoresAlone DEF PricesInv
<1> QED BY <1>1, <1>3, <1>4, <1>6 DEF PricesInv

LEMMA NoJobIsARecord ==
    /\ NoJob \in JobRecord
    /\ NoJob.step = "next" /\ NoJob.got = <<>> /\ NoJob.left = <<>>
  BY DEF NoJob, JobRecord

LEMMA NextIsOK ==
    ASSUME NEW now, now.step = "next", now.got = <<>>, NEW day
    PROVE  JobOK(now, day) /\ \A was : SameStore(now, was)
  BY DEF JobOK, SameStore

LEMMA OverlappingAreSymbols ==
    ASSUME NEW def \in Definitions, NEW from, NEW to
    PROVE  Overlapping(def, from, to) \in SUBSET Symbols
  BY PriceAssumption DEF Overlapping, Membership

LEMMA SubmitSyncKeeps ==
    ASSUME PricesInv, NEW j \in Jobs, NEW name \in UniverseIds, NEW def \in Definitions,
           NEW mode \in {"incremental", "refresh"}, NEW from \in Starts, NEW to \in Ends,
           SubmitSync(j, name, def, mode, from, to)
    PROVE  PricesInv'
<1> DEFINE S == Overlapping(def, from, to)
           pin == <<name, def>>
           left == SetToSeq(S)
           new == [NoJob EXCEPT !.status = "queued", !.kind = "sync", !.mode = mode,
                                !.from = from, !.to = to, !.pin = pin, !.left = left]
<1>1. S \in SUBSET Symbols
  BY OverlappingAreSymbols
<1>2. from \in Nat /\ to \in Nat
  BY DayFacts
<1>3. pin \in (UniverseIds \cup {"none"}) \X (Definitions \cup {"none"})
  OBVIOUS
<1>4. job' = [job EXCEPT ![j] = new] /\ UNCHANGED <<today, files>>
  BY DEF SubmitSync
<1>5. left \in Seq(Symbols)
  BY <1>1, BatchIsASequence
<1> HIDE DEF S, pin, left
<1>6. new \in JobRecord /\ new.step = "next" /\ new.got = <<>>
  BY <1>2, <1>3, <1>5, NoJobIsARecord DEF JobRecord
<1> HIDE DEF new
<1>7. JobOK(new, today) /\ SameStore(new, job[j])
  BY <1>6, NextIsOK
<1> QED BY <1>4, <1>6, <1>7, JobsStep

LEMMA AskFillKeeps ==
    ASSUME PricesInv, NEW j \in Jobs, NEW name \in UniverseIds, NEW def \in Definitions,
           NEW scope, AskFill(j, name, def, scope)
    PROVE  PricesInv'
<1> DEFINE S == FillPlan(def, today, scope)
           M == {m \in Members[def] : m.entry <= today}
           entries == {m.entry : m \in M}
           from == RequiredStart(def, today)
           pin == <<name, def>>
           left == SetToSeq(S)
           new == [NoJob EXCEPT !.status = "asked", !.kind = "fill", !.mode = "incremental",
                                !.from = from, !.to = today, !.pin = pin, !.left = left]
<1>1. Members[def] \subseteq Membership
  BY PriceAssumption
<1>2. S \in SUBSET Symbols /\ S # {}
  BY <1>1 DEF AskFill, FillPlan, Incomplete, Membered, Membership
<1>3. M # {}
  BY <1>2 DEF FillPlan, Incomplete, Membered
<1>4. entries \in SUBSET Nat /\ entries # {}
  BY <1>1, <1>3, DayFacts DEF Membership
<1>5. from = Min(entries)
  BY DEF RequiredStart
<1>6. from \in Nat /\ today \in Nat
  BY <1>4, <1>5, MinIsLeast, DayFacts DEF PricesInv, PricesTyped
<1>7. pin \in (UniverseIds \cup {"none"}) \X (Definitions \cup {"none"})
  OBVIOUS
<1>8. job' = [job EXCEPT ![j] = new] /\ UNCHANGED <<today, files>>
  BY DEF AskFill
<1>9. left \in Seq(Symbols)
  BY <1>2, BatchIsASequence
<1> HIDE DEF S, pin, from, left
<1>10. new \in JobRecord /\ new.step = "next" /\ new.got = <<>>
  BY <1>6, <1>7, <1>9, NoJobIsARecord DEF JobRecord
<1> HIDE DEF new
<1>11. JobOK(new, today) /\ SameStore(new, job[j])
  BY <1>10, NextIsOK
<1> QED BY <1>8, <1>10, <1>11, JobsStep

LEMMA RunScriptKeeps ==
    ASSUME PricesInv, NEW j \in Jobs, NEW def \in Definitions, NEW from \in Starts,
           RunScript(j, def, from)
    PROVE  PricesInv'
<1> DEFINE S == {m.symbol : m \in Members[def]}
           left == SetToSeq(S)
           new == [NoJob EXCEPT !.status = "queued", !.kind = "script", !.mode = "missing",
                                !.from = from, !.to = today, !.left = left]
<1>1. S \in SUBSET Symbols
  BY PriceAssumption DEF Membership
<1>2. from \in Nat /\ today \in Nat
  BY DayFacts DEF PricesInv, PricesTyped
<1>4. job' = [job EXCEPT ![j] = new] /\ UNCHANGED <<today, files>>
  BY DEF RunScript
<1>5. left \in Seq(Symbols)
  BY <1>1, BatchIsASequence
<1> HIDE DEF S, left
<1>6. new \in JobRecord /\ new.step = "next" /\ new.got = <<>>
  BY <1>2, <1>5, NoJobIsARecord DEF JobRecord
<1> HIDE DEF new
<1>7. JobOK(new, today) /\ SameStore(new, job[j])
  BY <1>6, NextIsOK
<1> QED BY <1>4, <1>6, <1>7, JobsStep

(* A job that changes neither its place nor what it has in hand.             *)
LEMMA SameHand ==
    ASSUME NEW now, NEW new, NEW day, JobOK(now, day),
           new.left = now.left, new.step = now.step, new.had = now.had,
           new.ranges = now.ranges, new.got = now.got
    PROVE  JobOK(new, day)
<1>1. InHand(new) = InHand(now) /\ PiecesOf(new) = PiecesOf(now)
  BY DEF InHand, PiecesOf
<1> QED BY <1>1 DEF JobOK, Pending

LEMMA StatusKeeps ==
    ASSUME PricesInv, NEW j \in Jobs, SubmitFill(j) \/ StartJob(j)
    PROVE  PricesInv'
<1> DEFINE now == job[j]
<1>1. now \in JobRecord /\ JobOK(now, today)
  BY DEF PricesInv, PricesTyped, JobsOK
<1>2. PICK status \in {"queued", "running"} :
        job' = [job EXCEPT ![j].status = status] /\ UNCHANGED <<today, files>>
  BY DEF SubmitFill, StartJob
<1> DEFINE new == [now EXCEPT !.status = status]
<1>3. job' = [job EXCEPT ![j] = new]
  BY <1>2 DEF PricesInv, PricesTyped
<1>4. new \in JobRecord
  BY <1>1 DEF JobRecord
<1>5. /\ new.left = now.left /\ new.step = now.step
      /\ new.had = now.had /\ new.ranges = now.ranges /\ new.got = now.got
      /\ SameStore(new, now)
  BY <1>1 DEF JobRecord, SameStore
<1> HIDE DEF new, now
<1>6. JobOK(new, today)
  BY <1>1, <1>5, SameHand
<1> QED BY <1>2, <1>3, <1>4, <1>5, <1>6, JobsStep DEF now

LEMMA StopSyncKeeps ==
    ASSUME PricesInv, NEW j \in Jobs, job' = [job EXCEPT ![j].stop = TRUE],
           UNCHANGED <<today, files>>
    PROVE  PricesInv'
<1> DEFINE now == job[j]
           new == [now EXCEPT !.stop = TRUE]
<1>1. now \in JobRecord /\ JobOK(now, today)
  BY DEF PricesInv, PricesTyped, JobsOK
<1>2. job' = [job EXCEPT ![j] = new]
  BY DEF PricesInv, PricesTyped
<1>3. new \in JobRecord
  BY <1>1 DEF JobRecord
<1>4. /\ new.left = now.left /\ new.step = now.step
      /\ new.had = now.had /\ new.ranges = now.ranges /\ new.got = now.got
      /\ SameStore(new, now)
  BY <1>1 DEF JobRecord, SameStore
<1> HIDE DEF new, now
<1>5. JobOK(new, today)
  BY <1>1, <1>4, SameHand
<1> QED BY <1>2, <1>3, <1>4, <1>5, JobsStep DEF now

LEMMA OverIsOK ==
    ASSUME NEW j \in Jobs, NEW kind \in {"sync", "fill", "script", "signal"},
           NEW reason \in {"none", "completed", "user_stopped", "quota_exceeded"}, NEW day
    PROVE  /\ [NoJob EXCEPT !.status = "over", !.kind = kind, !.reason = reason] \in JobRecord
           /\ JobOK([NoJob EXCEPT !.status = "over", !.kind = kind, !.reason = reason], day)
           /\ \A was : SameStore([NoJob EXCEPT !.status = "over", !.kind = kind,
                                               !.reason = reason], was)
<1> DEFINE new == [NoJob EXCEPT !.status = "over", !.kind = kind, !.reason = reason]
<1>1. new \in JobRecord /\ new.step = "next" /\ new.got = <<>>
  BY NoJobIsARecord DEF JobRecord
<1> HIDE DEF new
<1>2. JobOK(new, day) /\ \A was : SameStore(new, was)
  BY <1>1, NextIsOK
<1> QED BY <1>1, <1>2 DEF new

LEMMA OverKeeps ==
    ASSUME PricesInv, NEW j \in Jobs,
           NEW reason \in {"none", "completed", "user_stopped", "quota_exceeded"},
           Over(j, reason), UNCHANGED <<today, files>>
    PROVE  PricesInv'
<1> DEFINE kind == job[j].kind
           new == [NoJob EXCEPT !.status = "over", !.kind = kind, !.reason = reason]
<1>1. kind \in {"sync", "fill", "script", "signal"}
  BY DEF PricesInv, PricesTyped, JobRecord
<1>2. job' = [job EXCEPT ![j] = new]
  BY DEF Over
<1> HIDE DEF kind
<1>3. new \in JobRecord /\ JobOK(new, today) /\ SameStore(new, job[j])
  BY <1>1, OverIsOK
<1> HIDE DEF new
<1> QED BY <1>2, <1>3, JobsStep

(* The job after a symbol.                                                   *)
LEMMA ThroughIsOK ==
    ASSUME NEW now \in JobRecord, now.left # <<>>, NEW day
    PROVE  LET new == [now EXCEPT !.left = Tail(@), !.step = "next", !.had = Absent,
                                  !.ranges = <<>>, !.got = <<>>]
           IN  new \in JobRecord /\ JobOK(new, day) /\ \A was : SameStore(new, was)
<1> DEFINE left == Tail(now.left)
           half == [now EXCEPT !.left = left, !.step = "next", !.had = Absent]
           new == [half EXCEPT !.ranges = <<>>, !.got = <<>>]
<1>1. left \in Seq(Symbols)
  BY DEF JobRecord
<1> HIDE DEF left
<1>2. half \in JobRecord /\ half.step = "next"
  BY <1>1 DEF JobRecord
<1> HIDE DEF half
<1>0. new \in JobRecord
  <2>1. <<>> \in Seq(Nat \X Nat) /\ <<>> \in Seq(Frame)
    OBVIOUS
  <2>2. [half EXCEPT !.ranges = <<>>] \in JobRecord
    BY <1>2, <2>1 DEF JobRecord
  <2>3. [[half EXCEPT !.ranges = <<>>] EXCEPT !.got = <<>>] \in JobRecord
    BY <2>1, <2>2 DEF JobRecord
  <2> QED BY <2>3
<1>3. new.step = "next" /\ new.got = <<>>
  BY <1>2 DEF JobRecord
<1> HIDE DEF new
<1>4. JobOK(new, day) /\ \A was : SameStore(new, was)
  BY <1>3, NextIsOK
<1> QED BY <1>0, <1>4 DEF new, half, left

LEMMA ThroughKeeps ==
    ASSUME PricesInv, NEW j \in Jobs, job[j].left # <<>>, Through(j), UNCHANGED <<today, files>>
    PROVE  PricesInv'
<1> DEFINE now == job[j]
           new == [now EXCEPT !.left = Tail(@), !.step = "next", !.had = Absent,
                              !.ranges = <<>>, !.got = <<>>]
<1>1. now \in JobRecord
  BY DEF PricesInv, PricesTyped
<1>2. job' = [job EXCEPT ![j] = new]
  BY <1>1 DEF Through, NextUp, PricesInv, PricesTyped
<1>3. new \in JobRecord /\ JobOK(new, today) /\ SameStore(new, job[j])
  BY <1>1, ThroughIsOK
<1> HIDE DEF new
<1> QED BY <1>2, <1>3, JobsStep

LEMMA NextSymbolKeeps ==
    ASSUME PricesInv, NEW j \in Jobs, NextSymbol(j)
    PROVE  PricesInv'
<1> DEFINE now == job[j]
           new == [now EXCEPT !.step = "load"]
<1>1. now \in JobRecord /\ JobOK(now, today) /\ now.step = "next"
      /\ UNCHANGED <<today, files>>
  BY DEF PricesInv, PricesTyped, JobsOK, NextSymbol
<1>2. CASE Over(j, "user_stopped") \/ Over(j, "completed")
  BY <1>1, <1>2, OverKeeps
<1>3. CASE now.left # <<>> /\ job' = [job EXCEPT ![j].step = "load"]
  <2>1. job' = [job EXCEPT ![j] = new]
    BY <1>3 DEF PricesInv, PricesTyped
  <2>2. new \in JobRecord /\ new.step = "load" /\ new.left = now.left /\ new.got = now.got
    BY <1>1 DEF JobRecord
  <2>3. now.got = <<>>
    BY <1>1 DEF JobOK
  <2> HIDE DEF new
  <2>4. JobOK(new, today) /\ SameStore(new, now)
    BY <1>3, <2>2, <2>3 DEF JobOK, SameStore
  <2> QED BY <1>1, <2>1, <2>2, <2>4, JobsStep
<1> QED BY <1>2, <1>3 DEF NextSymbol

(* Ranges to ask for: one, or some that meet what the file holds.            *)
LEMMA RangesMeet ==
    ASSUME today \in Days, NEW mode, NEW had \in Frame \cup {Absent}, NEW from \in Nat,
           NEW to \in Nat
    PROVE  LET R == FetchRanges(mode, had, from, to)
               nothing == mode = "refresh" \/ had = Absent \/ Held(had) = {}
           IN  /\ R \in Seq(Nat \X Nat)
               /\ nothing => Len(R) = 1
               /\ ~nothing => \A i \in DOMAIN R : Meets(R[i], Held(had))
<1> DEFINE R == FetchRanges(mode, had, from, to)
           nothing == mode = "refresh" \/ had = Absent \/ Held(had) = {}
<1>1. CASE nothing
  <2>1. R = <<<<from, to>>>>
    BY <1>1 DEF FetchRanges
  <2>2. R \in Seq(Nat \X Nat) /\ Len(R) = 1
    BY <2>1
  <2> QED BY <1>1, <2>2
<1>2. CASE ~nothing
  <2> DEFINE H == Held(had)
             first == FirstOf(had)
             last == LastOf(had)
             P == {r \in Nat \X Nat : Meets(r, H)}
             before == IF first > from THEN <<<<from, first>>>> ELSE <<>>
             after == IF last < (IF to = 0 THEN today ELSE to) THEN <<<<last + 1, to>>>>
                      ELSE <<>>
  <2>1. H \in SUBSET Nat /\ H # {} /\ LastDay \in Nat /\ \A x \in H : x <= LastDay
    BY <1>2, FrameFacts, DayFacts
  <2>2. first \in H /\ last \in H
    BY <2>1, MinIsLeast, MaxIsGreatest DEF FirstOf, LastOf
  <2>3. first \in Nat /\ last \in Nat
    BY <2>1, <2>2
  <2>4. R = before \o after
    BY <1>2 DEF FetchRanges
  <2> HIDE DEF H, first, last
  <2>5. <<from, first>> \in P /\ <<last + 1, to>> \in P
    BY <2>2, <2>3 DEF Meets
  <2> HIDE DEF P
  <2>6. before \in Seq(P) /\ after \in Seq(P)
    BY <2>5
  <2> HIDE DEF before, after
  <2>7. R \in Seq(P)
    BY <2>4, <2>6
  <2> HIDE DEF R
  <2>8. \A i \in DOMAIN R : R[i] \in P
    BY <2>7
  <2>9. R \in Seq(Nat \X Nat)
    BY <2>7 DEF P
  <2> QED BY <1>2, <2>8, <2>9 DEF P, R, H
<1> QED BY <1>1, <1>2

LEMMA LoadSymbolKeeps ==
    ASSUME PricesInv, NEW j \in Jobs, LoadSymbol(j)
    PROVE  PricesInv'
<1> DEFINE now == job[j]
           s == Head(now.left)
           file == cache[s]
           ranges == IF now.mode = "missing" /\ file # Absent THEN <<>>
                     ELSE FetchRanges(now.mode, file, now.from, now.to)
           had == IF now.mode = "refresh" THEN Absent ELSE file
           new == [now EXCEPT !.step = "fetch", !.ranges = ranges, !.had = had]
<1>1. /\ now \in JobRecord /\ now.left \in Seq(Symbols) /\ now.left # <<>> /\ now.got = <<>>
      /\ now.from \in Nat /\ now.to \in Nat /\ today \in Days
      /\ UNCHANGED <<today, files>>
  BY DEF PricesInv, PricesTyped, JobsOK, JobOK, LoadSymbol, JobRecord
<1>2. s \in Symbols
  BY <1>1
<1>4. CASE file = Broken \/ (file # Broken /\ ranges = <<>>)
  BY <1>1, <1>4, ThroughKeeps DEF LoadSymbol
<1>5. CASE file # Broken /\ ranges # <<>>
  <2>0. file \in Frame \cup {Absent}
    BY <1>2, <1>5 DEF PricesInv, PricesTyped
  <2>1. job' = [job EXCEPT ![j] = new]
    BY <1>5 DEF LoadSymbol
  <2>2. ranges = FetchRanges(now.mode, file, now.from, now.to)
    BY <1>5
  <2>3. /\ ranges \in Seq(Nat \X Nat)
        /\ (now.mode = "refresh" \/ file = Absent \/ Held(file) = {}) => Len(ranges) = 1
        /\ ~(now.mode = "refresh" \/ file = Absent \/ Held(file) = {})
              => \A i \in DOMAIN ranges : Meets(ranges[i], Held(file))
    BY <1>1, <2>0, <2>2, RangesMeet
  <2>4. file # Absent => Stretch(s, Held(file), today) /\ Held(file) \subseteq Days
    <3>1. HoldsOK(s, file, today)
      BY <1>2 DEF PricesInv, FilesOK
    <3> QED BY <1>5, <2>0, <3>1, FrameFacts DEF HoldsOK, FileOK
  <2> HIDE DEF file, ranges
  <2>5. had \in Frame \cup {Absent}
    BY <2>0
  <2> HIDE DEF had
  <2>6. new \in JobRecord
    BY <1>1, <2>3, <2>5 DEF JobRecord
  <2>7. /\ new.step = "fetch" /\ new.left = now.left /\ new.got = now.got
        /\ new.ranges = ranges /\ new.had = had
    BY <1>1 DEF JobRecord
  <2> HIDE DEF new, now
  <2>8. InHand(new) = IF had = Absent THEN {} ELSE {d \in Days : d \in Held(had)}
    BY <1>1, <2>7 DEF InHand
  <2>9. Pending(new, today)
    <3>1. CASE had = Absent
      <4>1. Stretch(s, {}, today)
        BY DEF Stretch, Solid
      <4>2. now.mode = "refresh" \/ file = Absent
        BY <3>1 DEF had
      <4>3. Len(ranges) <= 1
        BY <2>3, <4>2
      <4> QED BY <2>7, <2>8, <3>1, <4>1, <4>3 DEF Pending, s
    <3>2. CASE had # Absent
      <4>1. had = file /\ file # Absent /\ now.mode # "refresh"
        BY <3>2 DEF had
      <4>2. InHand(new) = Held(file)
        BY <2>4, <2>8, <4>1
      <4>3. Held(file) = {} => Len(ranges) <= 1
        <5> SUFFICES ASSUME Held(file) = {} PROVE Len(ranges) <= 1
          OBVIOUS
        <5>1. Len(ranges) = 1
          BY <2>3
        <5> QED BY <5>1
      <4> QED BY <2>3, <2>4, <2>7, <4>1, <4>2, <4>3 DEF Pending, s
    <3> QED BY <3>1, <3>2
  <2>10. JobOK(new, today) /\ SameStore(new, now)
    BY <1>1, <1>5, <2>7, <2>9 DEF JobOK, SameStore
  <2> QED BY <1>1, <2>1, <2>6, <2>10, JobsStep DEF now
<1> QED BY <1>4, <1>5

(* A provider that is asked answers with rows or an exhausted allowance.     *)
LEMMA AskedIsAProvider ==
    ASSUME NEW result, Asked(result) # 0
    PROVE  Providers[Asked(result)] \in Range(Providers)
<1>1. Providers \in Seq(Range(Providers))
  BY PriceAssumption
<1>2. Asked(result) \in 1 .. Len(Providers)
  <2> DEFINE I == {i \in 1 .. Len(Providers) : result[Providers[i]] # "error"}
  <2>1. I # {}
    BY DEF Asked, SelectInSeq
  <2>2. Asked(result) = Min(I)
    BY <2>1 DEF Asked, SelectInSeq
  <2>3. I \in SUBSET Nat
    OBVIOUS
  <2> QED BY <2>1, <2>2, <2>3, MinIsLeast
<1> QED BY <1>1, <1>2

(* What is fetched joins what is in hand in one stretch.                     *)
LEMMA FetchedJoins ==
    ASSUME NEW now \in JobRecord, today \in Days, now.left # <<>>, now.ranges # <<>>,
           Pending(now, today), NEW I \in SUBSET Days, NEW upto \in Nat,
           I = {x \in Head(now.ranges)[1] .. upto : x >= ListDay[Head(now.left)]},
           upto <= today,
           (Head(now.ranges)[2] # 0 /\ Head(now.ranges)[2] <= today)
              => (upto <= Head(now.ranges)[2] /\ Head(now.ranges)[2] <= upto + 1),
           NEW new, new.left = now.left, new.ranges = Tail(now.ranges),
           InHand(new) = InHand(now) \cup I
    PROVE  Pending(new, today)
<1> DEFINE s == Head(now.left)
           from == Head(now.ranges)[1]
           to == Head(now.ranges)[2]
           S == InHand(now)
<1>1. now.left \in Seq(Symbols) /\ now.ranges \in Seq(Nat \X Nat)
  BY DEF JobRecord
<1>2. s \in Symbols /\ Head(now.ranges) \in Nat \X Nat
  BY <1>1
<1>3. from \in Nat /\ to \in Nat /\ ListDay[s] \in Days /\ Days \subseteq Nat
  BY <1>2, DayFacts
<1>4. S \in SUBSET Days /\ Stretch(s, S, today)
  BY DEF InHand, Pending
<1>5. CASE S = {}
  <2>1. InHand(new) = I
    BY <1>5
  <2>2. Solid(I)
    <3> SUFFICES ASSUME NEW a \in I, NEW b \in I, NEW d \in Days, a <= d, d <= b PROVE d \in I
      BY DEF Solid
    <3>1. a \in Nat /\ b \in Nat /\ d \in Nat /\ ListDay[s] \in Nat
      BY <1>3
    <3>2. from <= a /\ ListDay[s] <= a /\ b <= upto
      BY <3>1
    <3>3. from <= d /\ ListDay[s] <= d /\ d <= upto
      BY <1>3, <3>1, <3>2
    <3> QED BY <1>3, <3>1, <3>3
  <2>3. Stretch(s, I, today)
    <3> SUFFICES ASSUME NEW d \in I PROVE ListDay[s] <= d /\ d <= today
      BY <2>2 DEF Stretch
    <3>1. d \in Nat /\ today \in Nat /\ ListDay[s] \in Nat
      BY <1>3
    <3> QED BY <1>3, <3>1
  <2>4. Len(now.ranges) <= 1
    BY <1>5 DEF Pending
  <2>5. new.ranges = <<>>
    BY <1>1, <2>4
  <2>6. Len(new.ranges) <= 1 /\ \A i \in DOMAIN new.ranges : FALSE
    <3>1. Len(<<>>) <= 1 /\ DOMAIN <<>> = {}
      OBVIOUS
    <3> QED BY <2>5, <3>1
  <2>7. Stretch(Head(new.left), InHand(new), today)
    BY <2>1, <2>3
  <2> QED BY <2>6, <2>7 DEF Pending
<1>6. CASE S # {}
  <2>1. \A i \in DOMAIN now.ranges : Meets(now.ranges[i], S)
    BY <1>6 DEF Pending
  <2>2. Meets(Head(now.ranges), S)
    BY <1>1, <2>1
  <2>3. PICK f \in S : to = f \/ from = f + 1
    BY <2>2 DEF Meets
  <2>4. f \in Nat /\ 1 <= f /\ f <= today /\ today \in Nat /\ \A x \in S : ListDay[s] <= x
    BY <1>3, <1>4, DayFacts DEF Stretch
  <2>5. from = f + 1 \/ (upto <= f /\ f <= upto + 1)
    BY <2>3, <2>4
  <2>6. Solid(S) /\ ListDay[s] \in Nat
    BY <1>3, <1>4 DEF Stretch
  <2>7. Solid(S \cup {x \in from .. upto : x >= ListDay[s]})
    BY <1>3, <1>4, <2>4, <2>5, <2>6, MeetingStretches
  <2>8. Solid(InHand(new))
    BY <2>7
  <2>9. Stretch(s, InHand(new), today)
    <3>1. ASSUME NEW d \in I PROVE d \in Days /\ ListDay[s] <= d /\ d <= today
      <4>1. d >= ListDay[s] /\ d <= upto /\ d \in Days
        OBVIOUS
      <4>2. d \in Nat /\ today \in Nat /\ ListDay[s] \in Nat
        BY <1>3
      <4> QED BY <4>1, <4>2
    <3>2. \A d \in S : d \in Days /\ ListDay[s] <= d /\ d <= today
      BY <1>4 DEF Stretch
    <3>3. InHand(new) = S \cup I
      OBVIOUS
    <3> HIDE DEF S, s
    <3> QED BY <2>8, <3>1, <3>2, <3>3 DEF Stretch
  <2>10. ASSUME NEW i \in DOMAIN new.ranges PROVE Meets(new.ranges[i], InHand(new))
    <3>1. i + 1 \in DOMAIN now.ranges /\ new.ranges[i] = now.ranges[i + 1]
      BY <1>1
    <3> QED BY <2>1, <3>1 DEF Meets
  <2> QED BY <1>6, <2>9, <2>10 DEF Pending, s
<1> QED BY <1>5, <1>6

LEMMA FetchRangeKeeps ==
    ASSUME PricesInv, NEW j \in Jobs, FetchRange(j)
    PROVE  PricesInv'
<1> DEFINE now == job[j]
           s == Head(now.left)
           range == Head(now.ranges)
<1>1. /\ now \in JobRecord /\ now.step = "fetch" /\ JobOK(now, today)
      /\ UNCHANGED <<today, files>> /\ today \in Days
  BY DEF PricesInv, PricesTyped, JobsOK, FetchRange
<1>2. /\ now.left \in Seq(Symbols) /\ now.left # <<>> /\ Pending(now, today)
      /\ now.ranges \in Seq(Nat \X Nat) /\ now.ranges # <<>> /\ now.got \in Seq(Frame)
  BY <1>1 DEF JobOK, JobRecord
<1>3. s \in Symbols /\ range \in Nat \X Nat
  BY <1>2
<1>4. PICK result \in [Range(Providers) -> Answers], lag \in 0 .. 1 :
        /\ lag < today
        /\ LET i == Asked(result)
           IN  IF i = 0 THEN Through(j)
               ELSE IF result[Providers[i]] = "quota" THEN Over(j, "quota_exceeded")
               ELSE LET frame == Rows(Providers[i], s, range[1], range[2], lag) IN
                    job' = [job EXCEPT ![j] = [job[j] EXCEPT
                        !.ranges = Tail(@),
                        !.step = IF Tail(job[j].ranges) = <<>> THEN "store" ELSE "fetch",
                        !.got = IF Held(frame) = {} /\ job[j].mode # "missing" THEN @
                                ELSE Append(@, frame)]]
  BY DEF FetchRange
<1> DEFINE i == Asked(result)
           frame == Rows(Providers[i], s, range[1], range[2], lag)
           ranges == Tail(now.ranges)
           step == IF ranges = <<>> THEN "store" ELSE "fetch"
           got == IF Held(frame) = {} /\ now.mode # "missing" THEN now.got
                  ELSE Append(now.got, frame)
           new == [now EXCEPT !.ranges = ranges, !.step = step, !.got = got]
<1>5. CASE Through(j)
  BY <1>1, <1>2, <1>5, ThroughKeeps
<1>6. CASE Over(j, "quota_exceeded")
  BY <1>1, <1>6, OverKeeps
<1>7. CASE i # 0 /\ job' = [job EXCEPT ![j] = new]
  <2>1. Providers[i] \in Range(Providers)
    BY <1>7, AskedIsAProvider
  <2>2. range[1] \in Nat /\ range[2] \in Nat
    BY <1>3
  <2>3. PICK upto \in Nat :
          /\ frame \in Frame
          /\ Held(frame) = {x \in range[1] .. upto : x >= ListDay[s]}
          /\ upto <= today
          /\ (range[2] # 0 /\ range[2] <= today)
                => (upto <= range[2] /\ range[2] <= upto + 1)
    <3> DEFINE provider == Providers[i]
               from == range[1]
               to == range[2]
    <3>1. provider \in Range(Providers) /\ from \in Nat /\ to \in Nat /\ s \in Symbols
          /\ today \in Days /\ lag < today
      BY <1>1, <1>3, <1>4, <2>1, <2>2
    <3>2. frame = Rows(provider, s, from, to, lag)
      OBVIOUS
    <3> HIDE DEF provider, from, to, frame, s
    <3>3. \E upto \in Nat :
            /\ Rows(provider, s, from, to, lag) \in Frame
            /\ Held(Rows(provider, s, from, to, lag)) = {x \in from .. upto : x >= ListDay[s]}
            /\ upto <= today
            /\ (to # 0 /\ to <= today) => (upto <= to /\ to <= upto + 1)
      BY <3>1, RowsAreAStretch
    <3> QED BY <3>2, <3>3 DEF from, to
  <2>4. Held(frame) \in SUBSET Days
    BY <2>3, FrameFacts
  <2> HIDE DEF frame
  <2>5. ranges \in Seq(Nat \X Nat)
    BY <1>2
  <2>6. got \in Seq(Frame)
    BY <1>2, <2>3
  <2>7. \/ got = now.got /\ Held(frame) = {}
        \/ got = Append(now.got, frame)
    OBVIOUS
  <2> HIDE DEF got
  <2>8. step \in {"store", "fetch"} /\ (step = "fetch" => ranges # <<>>)
    OBVIOUS
  <2> HIDE DEF step, ranges
  <2>9. new \in JobRecord
    BY <1>1, <2>5, <2>6, <2>8 DEF JobRecord
  <2>10. /\ new.left = now.left /\ new.ranges = ranges /\ new.step = step
         /\ new.got = got /\ new.had = now.had
    BY <1>1 DEF JobRecord
  <2> HIDE DEF new, now
  <2>11. InHand(new) = InHand(now) \cup Held(frame)
    <3>1. CASE got = now.got /\ Held(frame) = {}
      BY <2>10, <3>1 DEF InHand
    <3>2. CASE got = Append(now.got, frame)
      <4>1. /\ DOMAIN got = DOMAIN now.got \cup {Len(now.got) + 1}
            /\ got[Len(now.got) + 1] = frame
            /\ \A k \in DOMAIN now.got : got[k] = now.got[k]
        BY <1>2, <3>2
      <4>2. \A d : (\E k \in DOMAIN got : d \in Held(got[k]))
                    <=> (d \in Held(frame) \/ \E k \in DOMAIN now.got : d \in Held(now.got[k]))
        BY <4>1
      <4> QED BY <2>4, <2>10, <4>2 DEF InHand
    <3> QED BY <2>7, <3>1, <3>2
  <2>12. Pending(new, today)
    BY <1>1, <1>2, <2>3, <2>4, <2>10, <2>11, FetchedJoins DEF ranges
  <2>13. JobOK(new, today) /\ SameStore(new, now)
    BY <1>2, <2>8, <2>10, <2>12 DEF JobOK, SameStore
  <2> QED BY <1>1, <1>7, <2>9, <2>13, JobsStep DEF now
<1> QED BY <1>4, <1>5, <1>6, <1>7

(* What a job has in hand is what the file it writes will hold.              *)
LEMMA PiecesAreInHand ==
    ASSUME NEW now \in JobRecord
    PROVE  /\ PiecesOf(now) \in Seq(Frame)
           /\ {d \in Days : \E i \in DOMAIN PiecesOf(now) : d \in Held(PiecesOf(now)[i])}
                 = InHand(now)
<1> DEFINE pieces == PiecesOf(now)
<1>2. now.got \in Seq(Frame) /\ now.had \in Frame \cup {Absent}
  BY DEF JobRecord
<1>5. pieces \in Seq(Frame)
  <2>1. (IF now.had = Absent THEN <<>> ELSE <<now.had>>) \in Seq(Frame)
    BY <1>2
  <2> QED BY <1>2, <2>1 DEF PiecesOf
<1>6. {d \in Days : \E i \in DOMAIN pieces : d \in Held(pieces[i])} = InHand(now)
  <2>1. CASE now.had = Absent
    <3>1. pieces = now.got
      BY <1>2, <2>1 DEF PiecesOf
    <3> HIDE DEF pieces
    <3> QED BY <2>1, <3>1 DEF InHand
  <2>2. CASE now.had # Absent
    <3>1. pieces = <<now.had>> \o now.got
      BY <2>2 DEF PiecesOf
    <3>2. /\ DOMAIN pieces = 1 .. Len(now.got) + 1 /\ pieces[1] = now.had
          /\ \A i \in DOMAIN now.got : pieces[i + 1] = now.got[i]
      BY <1>2, <2>2, <3>1
    <3>3. Len(now.got) \in Nat /\ DOMAIN now.got = 1 .. Len(now.got)
      BY <1>2
    <3> HIDE DEF pieces
    <3>4. ASSUME NEW d PROVE (\E i \in DOMAIN pieces : d \in Held(pieces[i]))
                    <=> (d \in Held(now.had) \/ \E i \in DOMAIN now.got : d \in Held(now.got[i]))
      <4>1. ASSUME NEW i \in DOMAIN pieces, d \in Held(pieces[i]), i # 1
            PROVE  \E k \in DOMAIN now.got : d \in Held(now.got[k])
        <5>1. i - 1 \in DOMAIN now.got /\ i = (i - 1) + 1
          BY <3>2, <3>3, <4>1
        <5>2. pieces[(i - 1) + 1] = now.got[i - 1]
          BY <3>2, <5>1
        <5> QED BY <4>1, <5>1, <5>2
      <4>2. ASSUME NEW i \in DOMAIN now.got, d \in Held(now.got[i])
            PROVE  \E k \in DOMAIN pieces : d \in Held(pieces[k])
        <5>1. i + 1 \in DOMAIN pieces
          BY <3>2, <3>3
        <5> QED BY <3>2, <4>2, <5>1
      <4>3. 1 \in DOMAIN pieces
        BY <3>2, <3>3
      <4> QED BY <3>2, <4>1, <4>2, <4>3
    <3> QED BY <2>2, <3>4 DEF InHand
  <2> QED BY <2>1, <2>2
<1> QED BY <1>5, <1>6

(* A series that is written is what the job has in hand and fits its basis.  *)
LEMMA WrittenIsOK ==
    ASSUME NEW now \in JobRecord, NEW day \in Days, JobOK(now, day), now.step = "write"
    PROVE  /\ Joined(PiecesOf(now)) \in Frame
           /\ HoldsOK(Head(now.left), Joined(PiecesOf(now)), day)
<1> DEFINE s == Head(now.left)
           pieces == PiecesOf(now)
<1>1. pieces # <<>> /\ Mergeable(s, pieces) /\ Pending(now, day)
  BY DEF JobOK
<1>2. pieces \in Seq(Frame)
      /\ {d \in Days : \E i \in DOMAIN pieces : d \in Held(pieces[i])} = InHand(now)
  BY PiecesAreInHand
<1> HIDE DEF pieces
<1>3. /\ Joined(pieces) \in Frame /\ Held(Joined(pieces)) = InHand(now)
      /\ Joined(pieces).by = pieces[1].by
  BY <1>1, <1>2, JoinedIsAFrame
<1>4. Stretch(s, InHand(now), day)
  BY <1>1 DEF Pending
<1>5. InferredBasis(s, Joined(pieces)) \in {"unknown", Basis(Joined(pieces).by)}
  BY <1>1, <1>3 DEF Mergeable
<1> QED BY <1>3, <1>4, <1>5 DEF HoldsOK, FileOK, pieces

-----------------------------------------------------------------------------
(* Storing.                                                                  *)

LEMMA SteppedIsARecord ==
    ASSUME NEW now \in JobRecord, NEW step \in {"write", "replace", "undo"}
    PROVE  LET new == [now EXCEPT !.step = step]
           IN  /\ new \in JobRecord /\ new.step = step /\ new.left = now.left
               /\ new.kind = now.kind /\ new.had = now.had
               /\ new.ranges = now.ranges /\ new.got = now.got
  BY DEF JobRecord

LEMMA MixedIsARecord ==
    ASSUME NEW now \in JobRecord, NEW m \in BOOLEAN
    PROVE  LET new == [now EXCEPT !.mixed = m]
           IN  /\ new \in JobRecord /\ new.mixed = m
               /\ new.step = now.step /\ new.file = now.file
               /\ new.left = now.left /\ new.kind = now.kind /\ new.had = now.had
               /\ new.ranges = now.ranges /\ new.got = now.got
  BY DEF JobRecord

LEMMA MovedIsARecord ==
    ASSUME NEW now \in JobRecord, NEW file \in {"none", "temp", "target", "gone"}
    PROVE  LET new == [now EXCEPT !.file = file]
           IN  /\ new \in JobRecord /\ new.step = now.step /\ new.file = file
               /\ new.left = now.left /\ new.kind = now.kind /\ new.had = now.had
               /\ new.ranges = now.ranges /\ new.got = now.got /\ new.mixed = now.mixed
<1> DEFINE new == [now EXCEPT !.file = file]
<1>1. new \in JobRecord
  BY DEF JobRecord
<1>2. /\ new.step = now.step /\ new.file = file /\ new.left = now.left
      /\ new.kind = now.kind /\ new.had = now.had
  BY DEF JobRecord
<1>3. new.ranges = now.ranges /\ new.got = now.got /\ new.mixed = now.mixed
  BY DEF JobRecord
<1> QED BY <1>1, <1>2, <1>3

LEMMA OpenedIsARecord ==
    ASSUME NEW now \in JobRecord, NEW m \in BOOLEAN
    PROVE  LET new == [now EXCEPT !.step = "write", !.file = "temp", !.mixed = m]
           IN  /\ new \in JobRecord /\ new.step = "write" /\ new.file = "temp" /\ new.mixed = m
               /\ new.left = now.left /\ new.kind = now.kind /\ new.had = now.had
               /\ new.ranges = now.ranges /\ new.got = now.got
<1> DEFINE a == [now EXCEPT !.step = "write"]
           b == [a EXCEPT !.file = "temp"]
           c == [b EXCEPT !.mixed = m]
<1>1. /\ a \in JobRecord /\ a.step = "write" /\ a.left = now.left /\ a.kind = now.kind
      /\ a.had = now.had /\ a.ranges = now.ranges /\ a.got = now.got
  BY SteppedIsARecord
<1> HIDE DEF a
<1>2. /\ b \in JobRecord /\ b.file = "temp" /\ b.step = a.step /\ b.left = a.left
      /\ b.kind = a.kind /\ b.had = a.had /\ b.ranges = a.ranges /\ b.got = a.got
  BY <1>1, MovedIsARecord
<1> HIDE DEF b
<1>3. /\ c \in JobRecord /\ c.mixed = m /\ c.file = b.file /\ c.step = b.step
      /\ c.left = b.left /\ c.kind = b.kind /\ c.had = b.had /\ c.ranges = b.ranges
      /\ c.got = b.got
  BY <1>2, MixedIsARecord
<1> HIDE DEF c
<1>4. c = [now EXCEPT !.step = "write", !.file = "temp", !.mixed = m]
  BY DEF a, b, c
<1> QED BY <1>1, <1>2, <1>3, <1>4

LEMMA ClosedIsARecord ==
    ASSUME NEW now \in JobRecord, NEW step \in {"replace", "undo"}
    PROVE  LET new == [now EXCEPT !.step = step, !.file = "none", !.mixed = FALSE]
           IN  /\ new \in JobRecord /\ new.step = step /\ new.file = "none"
               /\ new.left = now.left /\ new.kind = now.kind /\ new.had = now.had
               /\ new.ranges = now.ranges /\ new.got = now.got
<1> DEFINE a == [now EXCEPT !.step = step]
           b == [a EXCEPT !.file = "none"]
           c == [b EXCEPT !.mixed = FALSE]
<1>1. /\ a \in JobRecord /\ a.step = step /\ a.left = now.left /\ a.kind = now.kind
      /\ a.had = now.had /\ a.ranges = now.ranges /\ a.got = now.got
  <2>1. step \in {"write", "replace", "undo"}
    OBVIOUS
  <2> HIDE DEF a
  <2>2. /\ [now EXCEPT !.step = step] \in JobRecord
        /\ [now EXCEPT !.step = step].step = step
        /\ [now EXCEPT !.step = step].left = now.left
        /\ [now EXCEPT !.step = step].kind = now.kind
        /\ [now EXCEPT !.step = step].had = now.had
        /\ [now EXCEPT !.step = step].ranges = now.ranges
        /\ [now EXCEPT !.step = step].got = now.got
    BY <2>1, SteppedIsARecord
  <2> QED BY <2>2 DEF a
<1> HIDE DEF a
<1>2. /\ b \in JobRecord /\ b.file = "none" /\ b.step = a.step /\ b.left = a.left
      /\ b.kind = a.kind /\ b.had = a.had /\ b.ranges = a.ranges /\ b.got = a.got
  BY <1>1, MovedIsARecord
<1> HIDE DEF b
<1>3. /\ c \in JobRecord /\ c.mixed = FALSE /\ c.file = b.file /\ c.step = b.step
      /\ c.left = b.left /\ c.kind = b.kind /\ c.had = b.had /\ c.ranges = b.ranges
      /\ c.got = b.got
  BY <1>2, MixedIsARecord
<1> HIDE DEF c
<1>4. c = [now EXCEPT !.step = step, !.file = "none", !.mixed = FALSE]
  BY DEF a, b, c
<1> QED BY <1>1, <1>2, <1>3, <1>4

LEMMA JobFacts ==
    ASSUME PricesInv, NEW j \in Jobs
    PROVE  /\ job[j] \in JobRecord /\ JobOK(job[j], today) /\ today \in Days
           /\ Owner(j) \in Owners /\ job \in [Jobs -> JobRecord]
           /\ Pieces(j) = PiecesOf(job[j])
           /\ job[j].step # "next" => job[j].left # <<>> /\ At(j) \in Symbols
<1>1. job[j] \in JobRecord /\ JobOK(job[j], today) /\ job \in [Jobs -> JobRecord]
  BY DEF PricesInv, PricesTyped, JobsOK
<1>2. job[j].left \in Seq(Symbols)
  BY <1>1 DEF JobRecord
<1>3. job[j].step # "next" => job[j].left # <<>>
  BY <1>1 DEF JobOK
<1> QED BY <1>1, <1>2, <1>3 DEF PricesInv, PricesTyped, Owner, Owners, Pieces, PiecesOf, At

(* The temporary file of one process and symbol changes.                     *)
LEMMA TempChanges ==
    ASSUME PricesInv, NEW o \in Owners, NEW t \in Symbols, NEW file,
           temp' = [temp EXCEPT ![<<o, t>>] = file]
    PROVE  /\ \A p \in Owners, s \in Symbols :
                 temp'[<<p, s>>] = IF p = o /\ s = t THEN file ELSE temp[<<p, s>>]
           /\ file \in Frame \cup {Absent, Broken}
                 => temp' \in [Owners \X Symbols -> Frame \cup {Absent, Broken}]
  BY DEF PricesInv, PricesTyped

LEMMA OpenTemporaryKeeps ==
    ASSUME PricesInv, NEW j \in Jobs, OpenTemporary(j)
    PROVE  PricesInv'
<1> DEFINE now == job[j]
           o == Owner(j)
           t == At(j)
<1>1. /\ now \in JobRecord /\ JobOK(now, today) /\ today \in Days /\ now.step = "store"
      /\ o \in Owners /\ Pieces(j) = PiecesOf(now) /\ now.left # <<>> /\ t \in Symbols
      /\ UNCHANGED <<today, cache>>
  <2>1. now.step = "store" /\ UNCHANGED <<today, cache>>
    BY DEF OpenTemporary
  <2> QED BY <2>1, JobFacts
<1>2. CASE Through(j) /\ UNCHANGED <<temp, clashed>>
  <2>1. UNCHANGED <<today, files>>
    BY <1>1, <1>2 DEF files
  <2> QED BY <1>1, <1>2, <2>1, ThroughKeeps
<1>3. CASE ~(Pieces(j) = <<>> \/ ~Mergeable(t, Pieces(j)))
  <2> DEFINE m == Writing(j) # {}
             new == [now EXCEPT !.step = "write", !.file = "temp", !.mixed = m]
  <2>1. /\ temp' = [temp EXCEPT ![<<o, t>>] = Broken]
        /\ job' = [k \in Jobs |-> IF k = j THEN new
                                  ELSE IF k \in Writing(j) THEN [job[k] EXCEPT !.mixed = TRUE]
                                  ELSE job[k]]
        /\ clashed' = IF Sharing(j) = {} THEN clashed ELSE clashed \cup {t}
    <3>1. \A k \in Jobs : k = j =>
             [job[k] EXCEPT !.step = "write", !.file = "temp", !.mixed = Writing(j) # {}] = new
      OBVIOUS
    <3> QED BY <1>3, <3>1 DEF OpenTemporary
  <2>2. /\ new \in JobRecord /\ new.step = "write" /\ new.file = "temp" /\ new.mixed = m
        /\ new.left = now.left /\ new.kind = now.kind /\ new.had = now.had
        /\ new.ranges = now.ranges /\ new.got = now.got
    <3>1. m \in BOOLEAN
      OBVIOUS
    <3> HIDE DEF m, now
    <3> QED BY <1>1, <3>1, OpenedIsARecord
  <2>3. job'[j] = new
    BY <2>1
  <2> HIDE DEF new
  <2>4. ASSUME NEW k \in Jobs, k # j
        PROVE  /\ job'[k] \in JobRecord /\ JobOK(job'[k], today)
               /\ job'[k].step = job[k].step /\ job'[k].file = job[k].file
               /\ job'[k].left = job[k].left /\ job'[k].kind = job[k].kind
               /\ k \notin Writing(j) => job'[k] = job[k]
    <3>1. job[k] \in JobRecord /\ JobOK(job[k], today)
      BY JobFacts
    <3>2. CASE k \notin Writing(j)
      BY <2>1, <2>4, <3>1, <3>2
    <3>3. CASE k \in Writing(j)
      <4> DEFINE row == [job[k] EXCEPT !.mixed = TRUE]
      <4>1. job'[k] = row
        BY <2>1, <2>4, <3>3
      <4>2. /\ row \in JobRecord /\ row.step = job[k].step /\ row.file = job[k].file
            /\ row.left = job[k].left /\ row.kind = job[k].kind /\ row.had = job[k].had
            /\ row.ranges = job[k].ranges /\ row.got = job[k].got
        BY <3>1, MixedIsARecord
      <4> HIDE DEF row
      <4>3. JobOK(row, today)
        BY <3>1, <4>2, SameHand
      <4> QED BY <3>3, <4>1, <4>2, <4>3
    <3> QED BY <3>2, <3>3
  <2>5. JobOK(new, today)
    <3>1. InHand(new) = InHand(now) /\ PiecesOf(new) = PiecesOf(now)
      BY <2>2 DEF InHand, PiecesOf
    <3>2. Pending(now, today)
      BY <1>1 DEF JobOK
    <3>3. Pending(new, today)
      BY <2>2, <3>1, <3>2 DEF Pending
    <3>4. PiecesOf(new) # <<>> /\ Mergeable(Head(new.left), PiecesOf(new))
      BY <1>1, <1>3, <2>2, <3>1 DEF At
    <3> QED BY <1>1, <2>2, <3>3, <3>4 DEF JobOK
  <2>6. JobsOK'
    BY <1>1, <2>3, <2>4, <2>5 DEF JobsOK
  <2>7. /\ temp' \in [Owners \X Symbols -> Frame \cup {Absent, Broken}]
        /\ \A p \in Owners, s \in Symbols :
              temp'[<<p, s>>] = IF p = o /\ s = t THEN Broken ELSE temp[<<p, s>>]
    BY <1>1, <2>1, TempChanges
  <2>8. PricesTyped'
    <3>1. job' \in [Jobs -> JobRecord]
      BY <2>1, <2>2, <2>3, <2>4
    <3>2. clashed' \in SUBSET Symbols
      BY <1>1, <2>1 DEF PricesInv, PricesTyped
    <3> QED BY <1>1, <2>7, <3>1, <3>2 DEF PricesInv, PricesTyped
  <2>9. FilesOK'
    BY <1>1, <2>7 DEF PricesInv, FilesOK, HoldsOK
  <2>10. AloneOK'
    <3> SUFFICES ASSUME NEW s \in Symbols, s \notin clashed' PROVE Alone(s)'
      BY DEF AloneOK
    <3>1. s \notin clashed /\ (s = t => Sharing(j) = {})
      BY <2>1
    <3>2. Alone(s)
      BY <3>1 DEF PricesInv, AloneOK
    <3>3. ASSUME NEW k \in Jobs, k # j, At(k)' = s
          PROVE  /\ job'[k] = job[k] /\ At(k) = s /\ Storing(k)' = Storing(k)
                 /\ Owner(k)' = Owner(k)
                 /\ s = t /\ Storing(k) => Owner(k) # o
      <4>1. At(k) = s
        BY <2>4, <3>3 DEF At
      <4>2. k \notin Writing(j)
        BY <3>1, <4>1 DEF Writing, Sharing
      <4>3. job'[k] = job[k]
        BY <2>4, <3>3, <4>2
      <4>4. s = t /\ Storing(k) => Owner(k) # o
        BY <3>1, <3>3, <4>1 DEF Sharing
      <4> QED BY <4>1, <4>3, <4>4 DEF Storing, Owner
    <3>4. At(j)' = t /\ Owner(j)' = o
      BY <2>2, <2>3 DEF At, Owner
    <3>5. cache'[s] # Broken
      BY <1>1, <3>2 DEF Alone
    <3>6. ASSUME NEW i \in Jobs, Storing(i)', At(i)' = s
          PROVE  /\ \A k \in Jobs : (Storing(k)' /\ At(k)' = s /\ k # i) => Owner(k)' # Owner(i)'
                 /\ job'[i].step = "write" => job'[i].file \in {"temp", "gone"} /\ ~job'[i].mixed
                 /\ job'[i].step # "write" => job'[i].file = "none"
                 /\ (job'[i].file = "gone" \/ job'[i].step = "replace")
                       => temp'[<<Owner(i)', s>>] # Broken
      <4>1. CASE i = j
        <5>1. s = t /\ Writing(j) = {}
          BY <3>1, <3>4, <3>6, <4>1 DEF Writing
        <5>2. ~new.mixed
          BY <2>2, <5>1
        <5>3. \A k \in Jobs : (Storing(k)' /\ At(k)' = s /\ k # i) => Owner(k)' # Owner(i)'
          BY <3>3, <3>4, <4>1, <5>1
        <5> QED BY <2>2, <2>3, <4>1, <5>2, <5>3
      <4>2. CASE i # j
        <5>1. /\ job'[i] = job[i] /\ At(i) = s /\ Storing(i) /\ Owner(i)' = Owner(i)
              /\ s = t => Owner(i) # o
          BY <3>3, <3>6, <4>2
        <5>2. Owner(i) \in Owners
          BY JobFacts
        <5>3. temp'[<<Owner(i), s>>] = temp[<<Owner(i), s>>]
          BY <2>7, <5>1, <5>2
        <5>4. ASSUME NEW k \in Jobs, Storing(k)', At(k)' = s, k # i
              PROVE  Owner(k)' # Owner(i)'
          <6>1. CASE k = j
            BY <3>4, <5>1, <5>4, <6>1
          <6>2. CASE k # j
            <7>1. Storing(k) /\ At(k) = s /\ Owner(k)' = Owner(k)
              BY <3>3, <5>4, <6>2
            <7>2. Owner(k) # Owner(i)
              BY <3>2, <5>1, <5>4, <7>1 DEF Alone
            <7> QED BY <5>1, <7>1, <7>2
          <6> QED BY <6>1, <6>2
        <5> QED BY <3>2, <5>1, <5>3, <5>4 DEF Alone
      <4> QED BY <4>1, <4>2
    <3> QED BY <3>5, <3>6 DEF Alone
  <2> QED BY <2>6, <2>8, <2>9, <2>10 DEF PricesInv
<1> QED BY <1>2, <1>3 DEF OpenTemporary

LEMMA CloseTemporaryKeeps ==
    ASSUME PricesInv, NEW j \in Jobs, CloseTemporary(j)
    PROVE  PricesInv'
<1> DEFINE now == job[j]
           o == Owner(j)
           t == At(j)
<1>1. /\ now \in JobRecord /\ JobOK(now, today) /\ today \in Days /\ now.step = "write"
      /\ o \in Owners /\ Pieces(j) = PiecesOf(now) /\ now.left # <<>> /\ t \in Symbols
      /\ UNCHANGED <<today, clashed>>
  <2>1. now.step = "write" /\ UNCHANGED <<today, clashed>>
    BY DEF CloseTemporary
  <2> QED BY <2>1, JobFacts
<1>2. PICK whole \in BOOLEAN : \E left \in Left(j, whole) :
          /\ temp' = IF now.file = "temp" THEN [temp EXCEPT ![<<o, t>>] = left] ELSE temp
          /\ cache' = IF now.file = "target" THEN [cache EXCEPT ![t] = left] ELSE cache
          /\ job' = [job EXCEPT ![j] = [now EXCEPT
                        !.step = IF whole THEN "replace" ELSE "undo",
                        !.file = "none", !.mixed = FALSE]]
  BY DEF CloseTemporary
<1>3. PICK left \in Left(j, whole) :
          /\ temp' = IF now.file = "temp" THEN [temp EXCEPT ![<<o, t>>] = left] ELSE temp
          /\ cache' = IF now.file = "target" THEN [cache EXCEPT ![t] = left] ELSE cache
          /\ job' = [job EXCEPT ![j] = [now EXCEPT
                        !.step = IF whole THEN "replace" ELSE "undo",
                        !.file = "none", !.mixed = FALSE]]
  BY <1>2
<1> DEFINE step == IF whole THEN "replace" ELSE "undo"
           new == [now EXCEPT !.step = step, !.file = "none", !.mixed = FALSE]
<1>4. job' = [job EXCEPT ![j] = new]
  BY <1>3
<1>5. step \in {"replace", "undo"} /\ (step = "replace" => whole)
  OBVIOUS
<1> HIDE DEF step
<1>6. /\ new \in JobRecord /\ new.step = step /\ new.file = "none"
      /\ new.left = now.left /\ new.kind = now.kind /\ new.had = now.had
      /\ new.ranges = now.ranges /\ new.got = now.got
  BY <1>1, <1>5, ClosedIsARecord
<1> HIDE DEF new
<1>7. JobOK(new, today)
  BY <1>1, <1>5, <1>6 DEF JobOK
<1>8. \A k \in Jobs : job'[k] = IF k = j THEN new ELSE job[k]
  BY <1>4, JobFacts
<1>9. JobsOK'
  BY <1>1, <1>7, <1>8, JobFacts DEF JobsOK
<1>10. /\ Joined(Pieces(j)) \in Frame /\ HoldsOK(t, Joined(Pieces(j)), today)
       /\ Joined(Pieces(j)) # Broken
  BY <1>1, WrittenIsOK, PriceAssumption DEF At
<1>11. /\ Content(j) \in Frame \cup {Absent, Broken} /\ HoldsOK(t, Content(j), today)
  <2>1. /\ temp[<<o, t>>] \in Frame \cup {Absent, Broken} /\ HoldsOK(t, temp[<<o, t>>], today)
        /\ cache[t] \in Frame \cup {Absent, Broken} /\ HoldsOK(t, cache[t], today)
        /\ Broken \in Frame \cup {Absent, Broken} /\ HoldsOK(t, Broken, today)
    BY <1>1 DEF PricesInv, PricesTyped, FilesOK, HoldsOK
  <2>2. Content(j) \in {temp[<<o, t>>], cache[t], Broken}
    BY DEF Content
  <2> QED BY <2>1, <2>2
<1>12. left \in Frame \cup {Absent, Broken} /\ HoldsOK(t, left, today)
  <2>1. left \in {Joined(Pieces(j)), Broken, Content(j)}
    BY <1>3 DEF Left
  <2> QED BY <1>10, <1>11, <2>1 DEF HoldsOK
<1>13. /\ temp' \in [Owners \X Symbols -> Frame \cup {Absent, Broken}]
       /\ \A p \in Owners, s \in Symbols :
             temp'[<<p, s>>] = IF now.file = "temp" /\ p = o /\ s = t THEN left ELSE temp[<<p, s>>]
  <2>1. CASE now.file = "temp"
    <3>1. temp' = [temp EXCEPT ![<<o, t>>] = left]
      BY <1>3, <2>1
    <3> QED BY <1>1, <1>12, <2>1, <3>1, TempChanges
  <2>2. CASE now.file # "temp"
    BY <1>3, <2>2 DEF PricesInv, PricesTyped
  <2> QED BY <2>1, <2>2
<1>14. /\ cache' \in [Symbols -> Frame \cup {Absent, Broken}]
       /\ \A s \in Symbols :
             cache'[s] = IF now.file = "target" /\ s = t THEN left ELSE cache[s]
  BY <1>1, <1>3, <1>12 DEF PricesInv, PricesTyped
<1>15. PricesTyped'
  <2>1. job' \in [Jobs -> JobRecord]
    BY <1>4, <1>6, JobFacts
  <2> QED BY <1>1, <1>13, <1>14, <2>1 DEF PricesInv, PricesTyped
<1>16. FilesOK'
  BY <1>1, <1>12, <1>13, <1>14 DEF PricesInv, FilesOK
<1>17. AloneOK'
  <2> SUFFICES ASSUME NEW s \in Symbols, s \notin clashed PROVE Alone(s)'
    BY <1>1 DEF AloneOK
  <2>1. Alone(s)
    BY DEF PricesInv, AloneOK
  <2>2. ASSUME NEW k \in Jobs, Storing(k)'
        PROVE  Storing(k) /\ At(k)' = At(k) /\ Owner(k)' = Owner(k)
    BY <1>1, <1>6, <1>8, <2>2 DEF Storing, At, Owner
  <2>3. Storing(j) /\ (s = t => now.file \in {"temp", "gone"} /\ ~now.mixed)
    BY <1>1, <2>1 DEF Alone, Storing
  <2>4. s = t /\ whole => left # Broken
    BY <1>3, <1>10, <2>3 DEF Left
  <2>5. cache'[s] # Broken
    BY <1>14, <2>1, <2>3 DEF Alone
  <2>6. ASSUME NEW i \in Jobs, Storing(i)', At(i)' = s
        PROVE  /\ \A k \in Jobs : (Storing(k)' /\ At(k)' = s /\ k # i) => Owner(k)' # Owner(i)'
               /\ job'[i].step = "write" => job'[i].file \in {"temp", "gone"} /\ ~job'[i].mixed
               /\ job'[i].step # "write" => job'[i].file = "none"
               /\ (job'[i].file = "gone" \/ job'[i].step = "replace")
                     => temp'[<<Owner(i)', s>>] # Broken
    <3>1. Storing(i) /\ At(i) = s /\ Owner(i)' = Owner(i) /\ Owner(i) \in Owners
      BY <2>2, <2>6, JobFacts
    <3>2. \A k \in Jobs : (Storing(k)' /\ At(k)' = s /\ k # i) => Owner(k)' # Owner(i)'
      BY <2>1, <2>2, <3>1 DEF Alone
    <3>3. CASE i = j
      <4>1. s = t
        BY <3>1, <3>3
      <4>2. new.step = "replace" => temp'[<<o, s>>] # Broken
        <5> SUFFICES ASSUME whole PROVE temp'[<<o, s>>] # Broken
          BY <1>5, <1>6
        <5>1. CASE now.file = "temp"
          BY <1>1, <1>13, <2>4, <4>1, <5>1
        <5>2. CASE now.file = "gone"
          BY <1>1, <1>13, <2>1, <2>3, <4>1, <5>2 DEF Alone
        <5> QED BY <2>3, <4>1, <5>1, <5>2
      <4> QED BY <1>5, <1>6, <1>8, <3>1, <3>2, <3>3, <4>2
    <3>4. CASE i # j
      <4>1. s = t => Owner(i) # o
        BY <2>1, <2>3, <3>1, <3>4 DEF Alone
      <4>2. temp'[<<Owner(i), s>>] = temp[<<Owner(i), s>>]
        BY <1>13, <3>1, <4>1
      <4> QED BY <1>8, <2>1, <3>1, <3>2, <3>4, <4>2 DEF Alone
    <3> QED BY <3>3, <3>4
  <2> QED BY <2>5, <2>6 DEF Alone
<1> QED BY <1>9, <1>15, <1>16, <1>17 DEF PricesInv

(* The jobs besides one that moves or removes a temporary file.              *)
LEMMA OthersMoved ==
    ASSUME PricesInv, NEW j \in Jobs, Storing(j), NEW k \in Jobs, k # j, NEW new,
           \/ new = job[k]
           \/ k \in Writing(j) /\ new = [job[k] EXCEPT !.file = "target"]
           \/ k \in Writing(j) /\ new = [job[k] EXCEPT !.file = "gone"]
           \/ job[k].file = "target" /\ At(k) = At(j) /\ new = [job[k] EXCEPT !.file = "gone"]
    PROVE  /\ new \in JobRecord /\ JobOK(new, today)
           /\ new.step = job[k].step /\ new.left = job[k].left /\ new.kind = job[k].kind
           /\ (Storing(k) /\ At(k) \in Symbols \ clashed)
                 => new.file = job[k].file /\ new.mixed = job[k].mixed
<1>1. job[k] \in JobRecord /\ JobOK(job[k], today)
  BY JobFacts
<1>2. CASE new = job[k]
  BY <1>1, <1>2
<1>3. CASE new # job[k]
  <2>1. PICK file \in {"target", "gone"} :
           /\ new = [job[k] EXCEPT !.file = file]
           /\ k \in Writing(j) \/ (job[k].file = "target" /\ At(k) = At(j))
    BY <1>3
  <2>2. /\ new \in JobRecord /\ new.step = job[k].step /\ new.file = file
        /\ new.left = job[k].left /\ new.kind = job[k].kind /\ new.had = job[k].had
        /\ new.ranges = job[k].ranges /\ new.got = job[k].got /\ new.mixed = job[k].mixed
    <3>1. file \in {"none", "temp", "target", "gone"}
      OBVIOUS
    <3> QED BY <1>1, <2>1, <3>1, MovedIsARecord
  <2>3. JobOK(new, today)
    BY <1>1, <2>2, SameHand
  <2>4. ASSUME Storing(k), At(k) \in Symbols \ clashed
        PROVE  FALSE
    <3>1. Alone(At(k))
      BY <2>4 DEF PricesInv, AloneOK
    <3>2. k \notin Writing(j)
      BY <2>4, <3>1 DEF Alone, Writing, Sharing
    <3>3. job[k].file = "target" /\ At(k) = At(j)
      BY <2>1, <3>2
    <3>4. job[k].step # "write"
      BY <2>4, <3>1, <3>3 DEF Alone
    <3>5. job[k].file = "none"
      BY <2>4, <3>1, <3>4 DEF Alone
    <3> QED BY <3>3, <3>5
  <2> QED BY <2>2, <2>3, <2>4
<1> QED BY <1>2, <1>3

(* A job moves or removes the temporary file and goes on, or has found none. *)
LEMMA TakenAwayKeeps ==
    ASSUME PricesInv, NEW j \in Jobs, job[j].step \in {"replace", "undo"},
           NEW new \in JobRecord, JobOK(new, today),
           \/ new.step = "next"
           \/ new.step = "undo" /\ new.file = job[j].file,
           new.step = "undo" => new.left = job[j].left /\ new.kind = job[j].kind,
           job' = [k \in Jobs |-> job'[k]], job'[j] = new,
           \A k \in Jobs \ {j} :
              \/ job'[k] = job[k]
              \/ k \in Writing(j) /\ job'[k] = [job[k] EXCEPT !.file = "target"]
              \/ k \in Writing(j) /\ job'[k] = [job[k] EXCEPT !.file = "gone"]
              \/ /\ job[k].file = "target" /\ At(k) = At(j)
                 /\ job'[k] = [job[k] EXCEPT !.file = "gone"],
           UNCHANGED <<today, clashed>>,
           \/ UNCHANGED temp
           \/ temp' = [temp EXCEPT ![<<Owner(j), At(j)>>] = Absent],
           \/ UNCHANGED cache
           \/ /\ job[j].step = "replace"
              /\ cache' = [cache EXCEPT ![At(j)] = temp[<<Owner(j), At(j)>>]]
    PROVE  PricesInv'
<1> DEFINE o == Owner(j)
           t == At(j)
<1>1. Storing(j) /\ o \in Owners /\ t \in Symbols /\ today \in Days
  BY JobFacts DEF Storing
<1>2. ASSUME NEW k \in Jobs, k # j
      PROVE  /\ job'[k] \in JobRecord /\ JobOK(job'[k], today)
             /\ job'[k].step = job[k].step /\ job'[k].left = job[k].left
             /\ job'[k].kind = job[k].kind
             /\ (Storing(k) /\ At(k) \in Symbols \ clashed)
                   => job'[k].file = job[k].file /\ job'[k].mixed = job[k].mixed
  <2> DEFINE row == job'[k]
  <2>1. \/ row = job[k]
        \/ k \in Writing(j) /\ row = [job[k] EXCEPT !.file = "target"]
        \/ k \in Writing(j) /\ row = [job[k] EXCEPT !.file = "gone"]
        \/ job[k].file = "target" /\ At(k) = At(j) /\ row = [job[k] EXCEPT !.file = "gone"]
    BY <1>2
  <2> HIDE DEF row
  <2>2. /\ row \in JobRecord /\ JobOK(row, today)
        /\ row.step = job[k].step /\ row.left = job[k].left /\ row.kind = job[k].kind
        /\ (Storing(k) /\ At(k) \in Symbols \ clashed)
              => row.file = job[k].file /\ row.mixed = job[k].mixed
    BY <1>1, <1>2, <2>1, OthersMoved
  <2> QED BY <2>2 DEF row
<1>3. /\ temp' \in [Owners \X Symbols -> Frame \cup {Absent, Broken}]
      /\ \A p \in Owners, s \in Symbols :
            temp'[<<p, s>>] = temp[<<p, s>>] \/ (p = o /\ s = t /\ temp'[<<p, s>>] = Absent)
  <2>1. CASE UNCHANGED temp
    BY <2>1 DEF PricesInv, PricesTyped
  <2>2. CASE temp' = [temp EXCEPT ![<<o, t>>] = Absent]
    BY <1>1, <2>2, TempChanges
  <2> QED BY <2>1, <2>2
<1>4. /\ cache' \in [Symbols -> Frame \cup {Absent, Broken}]
      /\ \A s \in Symbols :
            cache'[s] = cache[s]
            \/ (s = t /\ job[j].step = "replace" /\ cache'[s] = temp[<<o, t>>])
  <2>1. temp[<<o, t>>] \in Frame \cup {Absent, Broken}
    BY <1>1 DEF PricesInv, PricesTyped
  <2> QED BY <1>1, <2>1 DEF PricesInv, PricesTyped
<1>5. JobsOK' /\ PricesTyped'
  <2>1. \A k \in Jobs : job'[k] \in JobRecord /\ JobOK(job'[k], today)
    BY <1>2
  <2>2. job' \in [Jobs -> JobRecord]
    BY <2>1
  <2> QED BY <1>3, <1>4, <2>1, <2>2 DEF JobsOK, PricesInv, PricesTyped
<1>6. FilesOK'
  <2>1. HoldsOK(t, temp[<<o, t>>], today)
    BY <1>1 DEF PricesInv, FilesOK
  <2>2. \A s \in Symbols : HoldsOK(s, cache'[s], today)
    BY <1>4, <2>1 DEF PricesInv, FilesOK
  <2>3. \A p \in Owners, s \in Symbols : HoldsOK(s, temp'[<<p, s>>], today)
    BY <1>3 DEF PricesInv, FilesOK, HoldsOK
  <2> QED BY <2>2, <2>3 DEF FilesOK
<1>7. AloneOK'
  <2> SUFFICES ASSUME NEW s \in Symbols, s \notin clashed PROVE Alone(s)'
    BY DEF AloneOK
  <2>1. Alone(s)
    BY DEF PricesInv, AloneOK
  <2>2. ASSUME NEW k \in Jobs, Storing(k)'
        PROVE  Storing(k) /\ At(k)' = At(k) /\ Owner(k)' = Owner(k)
    <3>1. CASE k = j
      BY <1>1, <2>2, <3>1 DEF Storing, At, Owner
    <3>2. CASE k # j
      BY <1>2, <2>2, <3>2 DEF Storing, At, Owner
    <3> QED BY <3>1, <3>2
  <2>3. cache'[s] # Broken
    BY <1>1, <1>4, <2>1 DEF Alone
  <2>4. ASSUME NEW i \in Jobs, Storing(i)', At(i)' = s
        PROVE  /\ \A k \in Jobs : (Storing(k)' /\ At(k)' = s /\ k # i) => Owner(k)' # Owner(i)'
               /\ job'[i].step = "write" => job'[i].file \in {"temp", "gone"} /\ ~job'[i].mixed
               /\ job'[i].step # "write" => job'[i].file = "none"
               /\ (job'[i].file = "gone" \/ job'[i].step = "replace")
                     => temp'[<<Owner(i)', s>>] # Broken
    <3>1. Storing(i) /\ At(i) = s /\ Owner(i)' = Owner(i) /\ Owner(i) \in Owners
      BY <2>2, <2>4, JobFacts
    <3>2. ASSUME NEW k \in Jobs, Storing(k)', At(k)' = s, k # i
          PROVE  Owner(k)' # Owner(i)'
      <4>1. Storing(k) /\ At(k) = s /\ Owner(k)' = Owner(k)
        BY <2>2, <3>2
      <4>2. Owner(k) # Owner(i)
        BY <2>1, <3>1, <3>2, <4>1 DEF Alone
      <4> QED BY <3>1, <4>1, <4>2
    <3>3. CASE i = j
      <4>1. job'[i].step = "undo" /\ job'[i].file = job[j].file
        BY <2>4, <3>3 DEF Storing
      <4>2. job[j].file = "none"
        BY <2>1, <3>1, <3>3 DEF Alone
      <4> QED BY <3>2, <4>1, <4>2
    <3>4. CASE i # j
      <4>1. /\ job'[i].step = job[i].step /\ job'[i].file = job[i].file
            /\ job'[i].mixed = job[i].mixed
        BY <1>2, <3>1, <3>4
      <4>2. temp[<<Owner(i), s>>] # Broken => temp'[<<Owner(i), s>>] # Broken
        BY <1>3, <3>1, PriceAssumption
      <4> QED BY <2>1, <3>1, <3>2, <4>1, <4>2 DEF Alone
    <3> QED BY <3>3, <3>4
  <2> QED BY <2>3, <2>4 DEF Alone
<1> QED BY <1>5, <1>6, <1>7 DEF PricesInv

LEMMA NextUpIsOK ==
    ASSUME PricesInv, NEW j \in Jobs, job[j].step # "next"
    PROVE  NextUp(j) \in JobRecord /\ JobOK(NextUp(j), today) /\ NextUp(j).step = "next"
<1>1. job[j] \in JobRecord /\ job[j].left # <<>>
  BY JobFacts
<1>2. NextUp(j) \in JobRecord /\ JobOK(NextUp(j), today)
  BY <1>1, ThroughIsOK DEF NextUp
<1> QED BY <1>1, <1>2 DEF NextUp, JobRecord

LEMMA ReplaceKeeps ==
    ASSUME PricesInv, NEW j \in Jobs, Replace(j)
    PROVE  PricesInv'
<1>1. job[j].step = "replace" /\ UNCHANGED <<today, clashed>>
  BY DEF Replace
<1>2. CASE job' = [job EXCEPT ![j].step = "undo"] /\ UNCHANGED <<cache, temp>>
  <2> DEFINE now == job[j]
             new == [now EXCEPT !.step = "undo"]
  <2>1. now \in JobRecord /\ JobOK(now, today) /\ Storing(j) /\ At(j) \in Symbols
    BY <1>1, JobFacts DEF Storing
  <2>2. job' = [job EXCEPT ![j] = new]
    BY <1>2, JobFacts
  <2>3. /\ new \in JobRecord /\ new.step = "undo" /\ new.file = now.file
        /\ new.left = now.left /\ new.kind = now.kind
    BY <2>1 DEF JobRecord
  <2>4. \A k \in Jobs : job'[k] = IF k = j THEN new ELSE job[k]
    BY <2>2, JobFacts
  <2>5. job' = [k \in Jobs |-> job'[k]]
    BY <2>2, JobFacts
  <2> HIDE DEF new
  <2>6. JobOK(new, today)
    BY <1>1, <2>1, <2>3 DEF JobOK
  <2>7. job'[j] = new /\ \A k \in Jobs \ {j} : job'[k] = job[k]
    BY <2>4
  <2> QED BY <1>1, <1>2, <2>3, <2>5, <2>6, <2>7, TakenAwayKeeps
<1>3. CASE ~(temp[<<Owner(j), At(j)>>] = Absent)
  <2> DEFINE new == NextUp(j)
  <2>1. new \in JobRecord /\ JobOK(new, today) /\ new.step = "next"
    BY <1>1, NextUpIsOK
  <2>2. /\ cache' = [cache EXCEPT ![At(j)] = temp[<<Owner(j), At(j)>>]]
        /\ temp' = [temp EXCEPT ![<<Owner(j), At(j)>>] = Absent]
        /\ job' = [k \in Jobs |->
                    IF k = j THEN new
                    ELSE IF k \in Writing(j) THEN [job[k] EXCEPT !.file = "target"]
                    ELSE IF job[k].file = "target" /\ At(k) = At(j)
                         THEN [job[k] EXCEPT !.file = "gone"] ELSE job[k]]
    BY <1>3 DEF Replace
  <2> HIDE DEF new
  <2>3. job'[j] = new /\ job' = [k \in Jobs |-> job'[k]]
    BY <2>2
  <2>4. ASSUME NEW k \in Jobs \ {j}
        PROVE  \/ job'[k] = job[k]
               \/ k \in Writing(j) /\ job'[k] = [job[k] EXCEPT !.file = "target"]
               \/ /\ job[k].file = "target" /\ At(k) = At(j)
                  /\ job'[k] = [job[k] EXCEPT !.file = "gone"]
    BY <2>2
  <2> QED BY <1>1, <2>1, <2>2, <2>3, <2>4, TakenAwayKeeps
<1> QED BY <1>2, <1>3 DEF Replace

LEMMA UndoKeeps ==
    ASSUME PricesInv, NEW j \in Jobs, Undo(j)
    PROVE  PricesInv'
<1> DEFINE new == NextUp(j)
<1>1. job[j].step = "undo" /\ UNCHANGED <<today, cache, clashed>>
  BY DEF Undo
<1>2. new \in JobRecord /\ JobOK(new, today) /\ new.step = "next"
  BY <1>1, NextUpIsOK
<1>3. /\ temp' = [temp EXCEPT ![<<Owner(j), At(j)>>] = Absent]
      /\ job' = [k \in Jobs |->
            IF k = j THEN new
            ELSE IF k \in Writing(j) THEN [job[k] EXCEPT !.file = "gone"] ELSE job[k]]
  BY DEF Undo
<1> HIDE DEF new
<1>4. job'[j] = new /\ job' = [k \in Jobs |-> job'[k]]
  BY <1>3
<1>5. ASSUME NEW k \in Jobs \ {j}
      PROVE  \/ job'[k] = job[k]
             \/ k \in Writing(j) /\ job'[k] = [job[k] EXCEPT !.file = "gone"]
  BY <1>3
<1> QED BY <1>1, <1>2, <1>3, <1>4, <1>5, TakenAwayKeeps

LEMMA StoreStepKeeps ==
    ASSUME PricesInv, NEW j \in Jobs, StoreStep(j)
    PROVE  PricesInv'
  BY OpenTemporaryKeeps, CloseTemporaryKeeps, ReplaceKeeps, UndoKeeps DEF StoreStep

LEMMA ClearPricesKeeps ==
    ASSUME PricesInv, ClearPrices
    PROVE  PricesInv'
<1>1. ASSUME NEW j \in Jobs
      PROVE  /\ job'[j] \in JobRecord /\ JobOK(job'[j], today)
             /\ job'[j].step = job[j].step /\ job'[j].left = job[j].left
             /\ job'[j].kind = job[j].kind /\ job'[j].mixed = job[j].mixed
             /\ job'[j].file = IF job[j].file = "none" THEN "none" ELSE "gone"
  <2> DEFINE row == [job[j] EXCEPT !.file = "gone"]
  <2>1. job[j] \in JobRecord /\ JobOK(job[j], today)
    BY JobFacts
  <2>2. job'[j] = IF job[j].file = "none" THEN job[j] ELSE row
    BY DEF ClearPrices
  <2>3. /\ row \in JobRecord /\ row.step = job[j].step /\ row.file = "gone"
        /\ row.left = job[j].left /\ row.kind = job[j].kind /\ row.had = job[j].had
        /\ row.ranges = job[j].ranges /\ row.got = job[j].got /\ row.mixed = job[j].mixed
    BY <2>1, MovedIsARecord
  <2> HIDE DEF row
  <2>4. JobOK(row, today)
    BY <2>1, <2>3, SameHand
  <2> QED BY <2>1, <2>2, <2>3, <2>4
<1>2. /\ UNCHANGED <<today, clashed>> /\ cache' = [s \in Symbols |-> Absent]
      /\ temp' = [x \in Owners \X Symbols |-> Absent] /\ job' = [j \in Jobs |-> job'[j]]
  BY DEF ClearPrices
<1>3. \A o \in Owners, s \in Symbols : temp'[<<o, s>>] = Absent
  BY <1>2
<1>4. PricesTyped'
  <2>1. job' \in [Jobs -> JobRecord]
    BY <1>1, <1>2
  <2> QED BY <1>2, <2>1 DEF PricesInv, PricesTyped
<1>5. JobsOK' /\ FilesOK'
  BY <1>1, <1>2, <1>3 DEF JobsOK, FilesOK, HoldsOK
<1>6. AloneOK'
  <2> SUFFICES ASSUME NEW s \in Symbols, s \notin clashed PROVE Alone(s)'
    BY <1>2 DEF AloneOK
  <2>1. Alone(s) /\ Absent # Broken
    BY PriceAssumption DEF PricesInv, AloneOK
  <2>2. ASSUME NEW k \in Jobs
        PROVE  Storing(k)' = Storing(k) /\ At(k)' = At(k) /\ Owner(k)' = Owner(k)
               /\ Owner(k) \in Owners
    BY <1>1, JobFacts DEF Storing, At, Owner
  <2>3. cache'[s] # Broken /\ \A o \in Owners : temp'[<<o, s>>] # Broken
    BY <1>2, <1>3, <2>1
  <2> QED BY <1>1, <2>1, <2>2, <2>3 DEF Alone
<1> QED BY <1>4, <1>5, <1>6 DEF PricesInv

LEMMA NextDay ==
    ASSUME PricesInv, DayPasses
    PROVE  today' \in Days /\ today \in Days /\ today <= today'
<1>1. today \in Nat /\ today' = today + 1 /\ today' <= LastDay /\ LastDay \in Nat
  BY DayFacts DEF DayPasses, PricesInv, PricesTyped
<1> QED BY <1>1, DayFacts DEF PricesInv, PricesTyped

LEMMA DayPassesKeeps ==
    ASSUME PricesInv, DayPasses
    PROVE  PricesInv'
<1>1. /\ today' \in Days /\ today \in Days /\ today <= today'
      /\ UNCHANGED <<files, job>>
  BY NextDay DEF DayPasses
<1>2. PricesTyped'
  BY <1>1 DEF files, PricesInv, PricesTyped
<1>3. \A j \in Jobs : JobOK(job[j], today')
  <2> SUFFICES ASSUME NEW j \in Jobs PROVE JobOK(job[j], today')
    OBVIOUS
  <2>1. job[j] \in JobRecord /\ JobOK(job[j], today)
    BY DEF PricesInv, PricesTyped, JobsOK
  <2> QED BY <1>1, <2>1, LaterJob
<1>4. /\ \A s \in Symbols : HoldsOK(s, cache[s], today')
      /\ \A o \in Owners, s \in Symbols : HoldsOK(s, temp[<<o, s>>], today')
  <2>1. \A s \in Symbols : \A file : HoldsOK(s, file, today) => HoldsOK(s, file, today')
    BY <1>1, LaterStretch DEF HoldsOK, FileOK
  <2> QED BY <2>1 DEF PricesInv, FilesOK
<1>5. JobsOK' /\ FilesOK'
  BY <1>1, <1>3, <1>4 DEF JobsOK, FilesOK, files
<1>6. AloneOK'
  <2>1. \A i \in Jobs : SameStore(job'[i], job[i])
    BY <1>1 DEF SameStore
  <2> QED BY <1>1, <2>1, StoresAlone DEF PricesInv
<1> QED BY <1>2, <1>5, <1>6 DEF PricesInv

LEMMA RestartSyncKeeps ==
    ASSUME PricesInv, RestartSync
    PROVE  PricesInv'
<1>1. ASSUME NEW j \in Jobs
      PROVE  /\ job'[j] \in JobRecord /\ JobOK(job'[j], today)
             /\ Storing(j)' => job'[j] = job[j]
  <2>1. job[j] \in JobRecord /\ JobOK(job[j], today)
    BY DEF PricesInv, PricesTyped, JobsOK
  <2> DEFINE kind == job[j].kind
             new == [NoJob EXCEPT !.status = "over", !.kind = kind]
  <2>2. kind \in {"sync", "fill", "script", "signal"}
    BY <2>1 DEF JobRecord
  <2>3. job'[j] = job[j] \/ job'[j] = new
    BY DEF RestartSync
  <2> HIDE DEF kind
  <2>4. new \in JobRecord /\ new.step = "next" /\ new.got = <<>>
    BY <2>2, NoJobIsARecord DEF JobRecord
  <2> HIDE DEF new
  <2>5. JobOK(new, today)
    BY <2>4, NextIsOK
  <2>6. Storing(j)' => job'[j] # new
    BY <2>4 DEF Storing
  <2> QED BY <2>1, <2>3, <2>4, <2>5, <2>6
<1>2. /\ UNCHANGED <<today, cache, clashed>> /\ job' = [j \in Jobs |-> job'[j]]
      /\ temp' = [x \in Owners \X Symbols |-> Absent]
  BY DEF RestartSync
<1>3. \A o \in Owners, s \in Symbols : temp'[<<o, s>>] = Absent
  BY <1>2
<1>4. PricesTyped'
  <2>1. job' \in [Jobs -> JobRecord]
    BY <1>1, <1>2
  <2> QED BY <1>2, <2>1 DEF PricesInv, PricesTyped
<1>5. JobsOK' /\ FilesOK'
  BY <1>1, <1>2, <1>3 DEF PricesInv, JobsOK, FilesOK, HoldsOK
<1>6. AloneOK'
  <2> SUFFICES ASSUME NEW s \in Symbols, s \notin clashed PROVE Alone(s)'
    BY <1>2 DEF AloneOK
  <2>1. Alone(s) /\ Absent # Broken
    BY PriceAssumption DEF PricesInv, AloneOK
  <2>2. ASSUME NEW k \in Jobs, Storing(k)'
        PROVE  /\ Storing(k) /\ At(k)' = At(k) /\ Owner(k)' = Owner(k)
               /\ job'[k] = job[k] /\ Owner(k) \in Owners
    BY <1>1, <2>2, JobFacts DEF Storing, At, Owner
  <2>3. \A o \in Owners : temp'[<<o, s>>] # Broken
    BY <1>3, <2>1
  <2> QED BY <1>2, <2>1, <2>2, <2>3 DEF Alone
<1> QED BY <1>4, <1>5, <1>6 DEF PricesInv

LEMMA PricesUntouched ==
    ASSUME PricesInv, UNCHANGED priceVars
    PROVE  PricesInv'
<1>1. UNCHANGED <<today, files, job>> /\ UNCHANGED <<cache, temp, clashed>>
  BY DEF priceVars, files
<1>2. AloneOK'
  <2>1. \A i \in Jobs : SameStore(job'[i], job[i])
    BY <1>1 DEF SameStore
  <2> QED BY <1>1, <2>1, StoresAlone DEF PricesInv
<1> QED BY <1>1, <1>2 DEF PricesInv, PricesTyped, JobsOK, FilesOK

LEMMA PricesInitial ==
    ASSUME PricesInit
    PROVE  PricesInv
<1>1. PricesTyped
  BY NoJobIsARecord, DayFacts DEF PricesInit, PricesTyped
<1>2. JobsOK
  <2>1. JobOK(NoJob, today)
    BY NoJobIsARecord, NextIsOK
  <2> QED BY <2>1 DEF PricesInit, JobsOK
<1>3. FilesOK
  BY DEF PricesInit, FilesOK, HoldsOK
<1>4. AloneOK
  BY NoJobIsARecord, PriceAssumption DEF PricesInit, AloneOK, Alone, Storing
<1> QED BY <1>1, <1>2, <1>3, <1>4 DEF PricesInv

LEMMA PriceStepKeeps ==
    ASSUME PricesInv, NEW j \in Jobs, PriceStep(j)
    PROVE  PricesInv'
<1>1. CASE SubmitFill(j) \/ StartJob(j)
  BY <1>1, StatusKeeps
<1>2. CASE NextSymbol(j)
  BY <1>2, NextSymbolKeeps
<1>3. CASE LoadSymbol(j)
  BY <1>3, LoadSymbolKeeps
<1>4. CASE FetchRange(j)
  BY <1>4, FetchRangeKeeps
<1>5. CASE StoreStep(j)
  BY <1>5, StoreStepKeeps
<1> QED BY <1>1, <1>2, <1>3, <1>4, <1>5 DEF PriceStep

-----------------------------------------------------------------------------
(* Preparation, reading and ranking.                                         *)

LEMMA ExpectedIsADay ==
    ASSUME NEW as_of \in Days \cup {0}, NEW day \in Days
    PROVE  ExpectedOn(as_of, day) \in Days /\ ExpectedOn(as_of, day) <= day
<1>1. CASE as_of = 0
  <2>1. day <= day
    BY DayFacts
  <2> QED BY <1>1, <2>1 DEF ExpectedOn
<1>2. CASE as_of # 0
  <2>1. as_of \in Days /\ {as_of, day} \in SUBSET Nat /\ {as_of, day} # {}
    BY <1>2, DayFacts
  <2>2. Min({as_of, day}) \in {as_of, day} /\ \A x \in {as_of, day} : Min({as_of, day}) <= x
    BY <2>1, MinIsLeast
  <2> QED BY <1>2, <2>1, <2>2 DEF ExpectedOn
<1> QED BY <1>1, <1>2

(* What is expected never moves back.                                        *)
LEMMA ExpectedLater ==
    ASSUME NEW as_of \in Days \cup {0}, NEW day \in Days, NEW later \in Days, day <= later
    PROVE  ExpectedOn(as_of, day) <= ExpectedOn(as_of, later)
<1>1. CASE as_of = 0
  BY <1>1 DEF ExpectedOn
<1>2. CASE as_of # 0
  <2>1. as_of \in Days /\ {as_of, day} \in SUBSET Nat /\ {as_of, later} \in SUBSET Nat
    BY <1>2, DayFacts
  <2> DEFINE a == Min({as_of, day})
             b == Min({as_of, later})
  <2>2. a \in {as_of, day} /\ a <= as_of /\ a <= day
    BY <2>1, MinIsLeast
  <2>3. b \in {as_of, later} /\ b <= as_of /\ b <= later
    BY <2>1, MinIsLeast
  <2>4. as_of \in Nat /\ day \in Nat /\ later \in Nat
    BY <2>1
  <2> HIDE DEF a, b
  <2>5. a <= b
    BY <2>2, <2>3, <2>4
  <2> QED BY <1>2, <2>5 DEF ExpectedOn, a, b
<1> QED BY <1>1, <1>2

LEMMA PreparedIsOK ==
    ASSUME PricesTyped, NEW def \in Definitions, NEW as_of \in Days \cup {0}
    PROVE  /\ PlanOK(Preparation(def, as_of))
           /\ Preparation(def, as_of).expected = ExpectedOn(as_of, today)
           /\ Preparation(def, as_of).def = def
<1> DEFINE end == Expected(as_of)
           start == IF end > Window THEN end - Window + 1 ELSE 1
           symbols == Overlapping(def, start, end)
           active == {s \in symbols : MemberOn(def, s, end)}
           plan == Preparation(def, as_of)
<1>1. end = ExpectedOn(as_of, today) /\ end \in Days
  BY ExpectedIsADay DEF Expected, ExpectedOn, PricesTyped
<1> HIDE DEF end
<1>2. Window \in Nat /\ 1 <= Window /\ end \in Nat /\ 1 <= end /\ end <= LastDay /\ LastDay \in Nat
  <2>1. Window \in Nat \ {0}
    BY SignalAssumption
  <2>2. end \in Nat /\ 1 <= end /\ end <= LastDay /\ LastDay \in Nat
    BY <1>1, DayFacts
  <2> QED BY <2>1, <2>2
<1>3. start \in Nat /\ 1 <= start /\ start <= end
  BY <1>2
<1>4. start \in Days
  BY <1>2, <1>3, DayFacts
<1> HIDE DEF start
<1>5. symbols \in SUBSET Symbols
  BY OverlappingAreSymbols
<1>6. /\ plan.def = def /\ plan.expected = end /\ plan.start = start /\ plan.symbols = symbols
      /\ plan.active = active
  BY DEF Preparation, end, start
<1>7. plan \in Plan
  <2>1. /\ plan = [def |-> def, expected |-> end, start |-> start, symbols |-> symbols,
                   active |-> active, fetch |-> plan.fetch]
        /\ plan.fetch \subseteq symbols
    BY DEF Preparation, end, start
  <2>2. active \in SUBSET Symbols /\ plan.fetch \in SUBSET Symbols
    BY <1>5, <2>1
  <2> HIDE DEF plan, symbols, active
  <2> QED BY <1>1, <1>4, <1>5, <2>1, <2>2 DEF Plan
<1>8. ASSUME NEW s \in Symbols, MemberOn(def, s, end) PROVE s \in symbols
  <2>1. PICK m \in Members[def] : m.symbol = s /\ m.entry <= end /\ (m.exit = 0 \/ end < m.exit)
    BY <1>8 DEF MemberOn
  <2>2. m.exit \in Nat
    <3>1. m \in Membership
      BY <2>1, PriceAssumption
    <3>2. m.exit \in Days \cup {0}
      BY <3>1 DEF Membership
    <3> QED BY <3>2, DaysAreNumbers
  <2>3. m.exit = 0 \/ m.exit > start
    BY <1>2, <1>3, <2>1, <2>2
  <2>4. end # 0
    BY <1>2
  <2> QED BY <2>1, <2>3, <2>4 DEF Overlapping
<1>9. active = {s \in Symbols : MemberOn(def, s, end)}
  BY <1>5, <1>8
<1>10. active \subseteq symbols
  OBVIOUS
<1> HIDE DEF plan, symbols, active
<1>11. PlanOK(plan)
  BY <1>6, <1>7, <1>9, <1>10 DEF PlanOK
<1> QED BY <1>1, <1>6, <1>11 DEF plan

LEMMA PanelIsOK ==
    ASSUME PricesTyped, NEW plan, PlanOK(plan)
    PROVE  ReadOK(plan, Panel(plan))
<1> DEFINE read == [s \in plan.symbols |->
                      IF s \notin Cached(plan) THEN {}
                      ELSE {d \in Held(cache[s]) : plan.start <= d /\ d <= plan.expected}]
           prices == [s \in plan.symbols |-> {d \in read[s] : MemberOn(plan.def, s, d)}]
           bars == (UNION Range(read)) \cup {plan.expected}
<1>1. plan.symbols \in SUBSET Symbols /\ plan.expected \in Days
      /\ plan.active = {s \in Symbols : MemberOn(plan.def, s, plan.expected)}
      /\ plan.active \in SUBSET Symbols /\ plan.active \subseteq plan.symbols
  BY DEF PlanOK, Plan
<1>2. ASSUME NEW s \in plan.symbols
      PROVE  read[s] \in SUBSET Days /\ \A d \in read[s] : d <= plan.expected
  <2>1. CASE s \in Cached(plan)
    <3>1. cache[s] \in Frame
      BY <1>1, <2>1 DEF PricesTyped, Cached, Readable
    <3> QED BY <2>1, <3>1, FrameFacts
  <2>2. CASE s \notin Cached(plan)
    BY <2>2
  <2> QED BY <2>1, <2>2
<1>3. DOMAIN read = plan.symbols
  OBVIOUS
<1>4. Panel(plan) = [bars |-> bars, prices |-> prices]
  BY DEF Panel
<1> HIDE DEF read
<1>5. bars \in SUBSET Days /\ plan.expected \in bars
  <2>1. ASSUME NEW d \in UNION Range(read) PROVE d \in Days
    <3>1. PICK s \in plan.symbols : d \in read[s]
      BY <1>3 DEF Range
    <3> QED BY <1>2, <3>1
  <2>2. UNION Range(read) \in SUBSET Days
    BY <2>1
  <2> QED BY <1>1, <2>2
<1>6. prices \in [plan.symbols -> SUBSET Days]
  BY <1>2
<1>7. \A s \in plan.symbols : \A d \in prices[s] : d <= plan.expected
  BY <1>2
<1> HIDE DEF bars, prices
<1>8. Panel(plan) \in Read
  BY <1>1, <1>4, <1>5, <1>6 DEF Read
<1>9. DOMAIN Panel(plan).prices = plan.symbols
  BY <1>4, <1>6
<1>10. \A s \in plan.active : \A d \in Panel(plan).prices[s] : d <= plan.expected
  BY <1>1, <1>4, <1>7
<1> QED BY <1>1, <1>4, <1>5, <1>8, <1>9, <1>10 DEF ReadOK

-----------------------------------------------------------------------------
(* Requests for a snapshot.                                                  *)

LEMMA AskFacts ==
    ASSUME SignalsInv, NEW q \in Asks
    PROVE  /\ signal[q] \in SignalRecord /\ AskOK(signal[q], snapshots[q], today)
           /\ signal[q].asked \in Plan \cup {<<>>} /\ signal[q].plan \in Plan \cup {<<>>}
           /\ signal[q].as_of \in Days \cup {0} /\ signal[q].panel \in Read \cup {<<>>}
           /\ signal[q].stop \in BOOLEAN /\ signal[q].job \in Jobs \cup {0}
  BY DEF SignalsInv, SignalsTyped, AsksOK, SignalRecord

LEMMA SignalsStep ==
    ASSUME SignalsInv, NEW q \in Asks, NEW new \in SignalRecord,
           AskOK(new, snapshots[q], today),
           signal' = [signal EXCEPT ![q] = new], UNCHANGED <<snapshots, today>>,
           new.step \in SignalSteps =>
              \A r \in Asks \ {q} :
                 signal[r].step \in SignalSteps => Key(signal[r]) # Key(new)
    PROVE  SignalsInv'
<1>1. signal' \in [Asks -> SignalRecord] /\ SignalsTyped'
  BY DEF SignalsInv, SignalsTyped
<1>2. signal'[q] = new /\ \A r \in Asks \ {q} : signal'[r] = signal[r]
  BY DEF SignalsInv, SignalsTyped
<1>3. \A r \in Asks : AskOK(signal'[r], snapshots[r], today)
  BY <1>2, AskFacts
<1>4. AsksOK'
  BY <1>3 DEF AsksOK
<1>5. Distinct'
  BY <1>2 DEF SignalsInv, Distinct
<1> QED BY <1>1, <1>4, <1>5 DEF SignalsInv

(* A request that goes on, or leaves, with what it was prepared from.        *)
LEMMA AskMoves ==
    ASSUME SignalsInv, NEW q \in Asks, signal[q].step \notin {"idle", "done"},
           NEW new \in SignalRecord, new.step # "idle", Key(new) = Key(signal[q]),
           Prepared(new, today), new.step \in {"read", "done"} => ReadOK(new.plan, new.panel),
           new.step \in SignalSteps => signal[q].step \in SignalSteps,
           signal' = [signal EXCEPT ![q] = new], UNCHANGED <<snapshots, today>>
    PROVE  SignalsInv'
<1>1. snapshots[q] = NoSnapshot
  BY AskFacts DEF AskOK
<1>2. AskOK(new, snapshots[q], today)
  BY <1>1 DEF AskOK
<1>3. new.step \in SignalSteps =>
         \A r \in Asks \ {q} : signal[r].step \in SignalSteps => Key(signal[r]) # Key(new)
  BY DEF SignalsInv, Distinct
<1> QED BY <1>2, <1>3, SignalsStep

LEMMA NewStep ==
    ASSUME SignalsInv, NEW q \in Asks,
           NEW how \in {"prepared", "joined", "done", "stopped", "failed", "lost"}
                         \cup SignalSteps
    PROVE  /\ [signal[q] EXCEPT !.step = how] \in SignalRecord
           /\ [signal[q] EXCEPT !.step = how, !.panel = <<>>] \in SignalRecord
  BY AskFacts DEF SignalRecord

LEMMA LeavesKeeps ==
    ASSUME SignalsInv, NEW q \in Asks, signal[q].step \notin {"idle", "done"},
           NEW how \in {"stopped", "failed"}, Leaves(q, how), UNCHANGED <<snapshots, today>>
    PROVE  SignalsInv'
<1> DEFINE new == [signal[q] EXCEPT !.step = how, !.panel = <<>>]
<1>1. new \in SignalRecord
  BY NewStep
<1>2. signal[q] \in SignalRecord /\ Prepared(signal[q], today)
  BY AskFacts DEF AskOK
<1>3. /\ new.step = how /\ new.mode = signal[q].mode /\ new.as_of = signal[q].as_of
      /\ new.asked = signal[q].asked /\ new.plan = signal[q].plan
  BY <1>2 DEF SignalRecord
<1>4. signal' = [signal EXCEPT ![q] = new]
  BY DEF Leaves, SignalsInv, SignalsTyped
<1> HIDE DEF new
<1>5. Key(new) = Key(signal[q]) /\ Prepared(new, today)
  BY <1>2, <1>3 DEF Key, Prepared
<1>6. new.step \notin {"idle", "read", "done"} \cup SignalSteps
  BY <1>3 DEF SignalSteps
<1> QED BY <1>1, <1>4, <1>5, <1>6, AskMoves

(* The batch is over, or there is none.                                      *)
LEMMA SyncedKeeps ==
    ASSUME SignalsInv, NEW q \in Asks, signal[q].step \in {"queued", "syncing"},
           signal' = [signal EXCEPT ![q].step = "synced"], UNCHANGED <<snapshots, today>>
    PROVE  SignalsInv'
<1> DEFINE new == [signal[q] EXCEPT !.step = "synced"]
<1>1. new \in SignalRecord
  BY NewStep DEF SignalSteps
<1>2. signal[q] \in SignalRecord /\ Prepared(signal[q], today)
  BY AskFacts DEF AskOK
<1>3. /\ new.step = "synced" /\ new.mode = signal[q].mode /\ new.as_of = signal[q].as_of
      /\ new.asked = signal[q].asked /\ new.plan = signal[q].plan
  BY <1>2 DEF SignalRecord
<1>4. signal' = [signal EXCEPT ![q] = new]
  BY DEF SignalsInv, SignalsTyped
<1> HIDE DEF new
<1>5. Key(new) = Key(signal[q]) /\ Prepared(new, today)
  BY <1>2, <1>3 DEF Key, Prepared
<1>6. signal[q].step \in SignalSteps /\ signal[q].step \notin {"idle", "done"}
  BY DEF SignalSteps
<1> QED BY <1>1, <1>3, <1>4, <1>5, <1>6, AskMoves

LEMMA AskSignalKeeps ==
    ASSUME SignalsInv, PricesTyped, NEW q \in Asks, NEW def \in Definitions,
           NEW mode \in {"refresh", "cached"}, NEW as_of \in Ends,
           AskSignal(q, def, mode, as_of)
    PROVE  SignalsInv' /\ UNCHANGED priceVars
<1> DEFINE plan == Preparation(def, as_of)
           asked == [signal[q] EXCEPT !.step = "prepared", !.mode = mode, !.as_of = as_of]
           new == [asked EXCEPT !.asked = plan, !.plan = plan]
<1>1. as_of \in Days \cup {0}
  BY PriceAssumption
<1>2. PlanOK(plan) /\ plan.expected = ExpectedOn(as_of, today)
  BY <1>1, PreparedIsOK
<1>3. plan \in Plan /\ plan.expected \in Nat
  BY <1>2, DayFacts DEF PlanOK, Plan
<1>4. /\ signal[q].step = "idle" /\ UNCHANGED <<snapshots, today>> /\ UNCHANGED priceVars
      /\ signal' = [signal EXCEPT ![q] = [signal[q] EXCEPT
              !.step = "prepared", !.mode = mode, !.as_of = as_of,
              !.asked = plan, !.plan = plan]]
  BY DEF AskSignal, priceVars
<1> HIDE DEF plan
<1>5. asked \in SignalRecord /\ asked.step = "prepared" /\ asked.as_of = as_of
  BY <1>1, AskFacts DEF SignalRecord
<1>6. signal' = [signal EXCEPT ![q] = new]
  BY <1>4, AskFacts DEF SignalRecord
<1> HIDE DEF asked
<1>7. new \in SignalRecord
  BY <1>3, <1>5 DEF SignalRecord
<1>8. /\ new.step = "prepared" /\ new.as_of = as_of
      /\ new.asked = plan /\ new.plan = plan
  BY <1>5 DEF SignalRecord
<1> HIDE DEF new
<1>9. Prepared(new, today)
  BY <1>2, <1>3, <1>8 DEF Prepared
<1>10. snapshots[q] = NoSnapshot
  BY <1>4, AskFacts DEF AskOK
<1>11. AskOK(new, snapshots[q], today) /\ new.step \notin SignalSteps
  BY <1>8, <1>9, <1>10 DEF AskOK, SignalSteps
<1> QED BY <1>4, <1>6, <1>7, <1>11, SignalsStep

(* Joining a job, or getting one of one's own.                               *)
LEMMA SubmitSignalKeeps ==
    ASSUME SignalsInv, NEW q \in Asks, SubmitSignal(q)
    PROVE  SignalsInv' /\ UNCHANGED priceVars
<1>1. signal[q].step = "prepared" /\ UNCHANGED <<snapshots, today>> /\ UNCHANGED priceVars
  BY DEF SubmitSignal, priceVars
<1>2. signal[q] \in SignalRecord /\ Prepared(signal[q], today) /\ snapshots[q] = NoSnapshot
  BY <1>1, AskFacts DEF AskOK
<1>3. CASE Twins(q) = {}
  <2> DEFINE new == [signal[q] EXCEPT !.step = "queued"]
  <2>1. signal' = [signal EXCEPT ![q] = new]
    BY <1>3 DEF SubmitSignal, SignalsInv, SignalsTyped
  <2>2. new \in SignalRecord
    BY NewStep DEF SignalSteps
  <2>3. /\ new.step = "queued" /\ new.mode = signal[q].mode /\ new.as_of = signal[q].as_of
        /\ new.asked = signal[q].asked /\ new.plan = signal[q].plan
    BY <1>2 DEF SignalRecord
  <2> HIDE DEF new
  <2>4. Key(new) = Key(signal[q]) /\ AskOK(new, snapshots[q], today)
    BY <1>2, <2>3 DEF Key, Prepared, AskOK
  <2>5. \A r \in Asks \ {q} : signal[r].step \in SignalSteps => Key(signal[r]) # Key(new)
    BY <1>3, <2>4 DEF Twins, Working, Identity, Key
  <2> QED BY <1>1, <2>1, <2>2, <2>4, <2>5, SignalsStep
<1>4. CASE Twins(q) # {}
  <2> DEFINE twin == Min(Twins(q))
             new == [signal[q] EXCEPT !.step = "joined", !.with = twin]
  <2>1. Twins(q) \in SUBSET Nat /\ Twins(q) \subseteq Asks
    BY SignalAssumption DEF Twins
  <2>2. twin \in Asks
    BY <1>4, <2>1, MinIsLeast
  <2>3. signal' = [signal EXCEPT ![q] = new]
    BY <1>4 DEF SubmitSignal, SignalsInv, SignalsTyped
  <2> HIDE DEF twin
  <2>4. new \in SignalRecord
    BY <1>2, <2>2 DEF SignalRecord
  <2>5. /\ new.step = "joined" /\ new.mode = signal[q].mode /\ new.as_of = signal[q].as_of
        /\ new.asked = signal[q].asked /\ new.plan = signal[q].plan
    BY <1>2 DEF SignalRecord
  <2> HIDE DEF new
  <2>6. AskOK(new, snapshots[q], today) /\ new.step \notin SignalSteps
    BY <1>2, <2>5 DEF Prepared, AskOK, SignalSteps
  <2> QED BY <1>1, <2>3, <2>4, <2>6, SignalsStep
<1> QED BY <1>1, <1>3, <1>4

(* A job that is to fetch gets a batch of its own.                           *)
LEMMA BatchKeeps ==
    ASSUME PricesInv, NEW q \in Asks, signal[q].plan \in Plan, signal[q].stop \in BOOLEAN,
           NEW j \in Jobs, UNCHANGED <<today, files>>,
           job' = [job EXCEPT ![j] = [NoJob EXCEPT
                     !.status = "running", !.kind = "signal", !.from = signal[q].plan.start,
                     !.to = signal[q].plan.expected, !.left = SetToSeq(signal[q].plan.fetch),
                     !.stop = signal[q].stop]]
    PROVE  PricesInv'
<1> DEFINE from == signal[q].plan.start
           to == signal[q].plan.expected
           left == SetToSeq(signal[q].plan.fetch)
           stop == signal[q].stop
           base == [NoJob EXCEPT !.status = "running", !.kind = "signal", !.from = from]
           new == [base EXCEPT !.to = to, !.left = left, !.stop = stop]
<1>1. from \in Nat /\ to \in Nat /\ signal[q].plan.fetch \in SUBSET Symbols
  BY DayFacts DEF Plan
<1>2. left \in Seq(Symbols) /\ stop \in BOOLEAN
  BY <1>1, BatchIsASequence
<1>3. job' = [job EXCEPT ![j] = [NoJob EXCEPT !.status = "running", !.kind = "signal",
                !.from = from, !.to = to, !.left = left, !.stop = stop]]
  OBVIOUS
<1> HIDE DEF from, to, left, stop
<1>4. base \in JobRecord /\ base.step = "next" /\ base.got = <<>>
  BY <1>1, NoJobIsARecord DEF JobRecord
<1>5. job' = [job EXCEPT ![j] = new]
  BY <1>3, NoJobIsARecord DEF JobRecord
<1> HIDE DEF base
<1>6. new \in JobRecord /\ new.step = "next" /\ new.got = <<>>
  BY <1>1, <1>2, <1>4 DEF JobRecord
<1> HIDE DEF new
<1>7. JobOK(new, today) /\ SameStore(new, job[j])
  BY <1>6, NextIsOK
<1> QED BY <1>5, <1>6, <1>7, JobsStep

LEMMA RunSignalKeeps ==
    ASSUME SignalsInv, PricesInv, NEW q \in Asks, RunSignal(q)
    PROVE  SignalsInv' /\ PricesInv'
<1>1. signal[q].step = "queued" /\ UNCHANGED <<snapshots, today>> /\ UNCHANGED <<today, files>>
  BY DEF RunSignal
<1>2. signal[q] \in SignalRecord /\ Prepared(signal[q], today) /\ signal[q].stop \in BOOLEAN
  BY <1>1, AskFacts DEF AskOK
<1>3. CASE signal[q].mode = "refresh" /\ signal[q].plan.fetch # {}
  <2>1. PICK j \in Jobs :
           /\ job' = [job EXCEPT ![j] = [NoJob EXCEPT
                     !.status = "running", !.kind = "signal", !.from = signal[q].plan.start,
                     !.to = signal[q].plan.expected, !.left = SetToSeq(signal[q].plan.fetch),
                     !.stop = signal[q].stop]]
           /\ signal' = [signal EXCEPT ![q].step = "syncing", ![q].job = j]
    BY <1>3 DEF RunSignal
  <2>2. signal[q].plan \in Plan
    BY <1>2 DEF Prepared, PlanOK
  <2>3. PricesInv'
    BY <1>1, <1>2, <2>1, <2>2, BatchKeeps
  <2> DEFINE new == [signal[q] EXCEPT !.step = "syncing", !.job = j]
  <2>4. signal' = [signal EXCEPT ![q] = new]
    BY <2>1 DEF SignalsInv, SignalsTyped
  <2>5. new \in SignalRecord
    BY <1>2 DEF SignalRecord, SignalSteps
  <2>6. /\ new.step = "syncing" /\ new.mode = signal[q].mode /\ new.as_of = signal[q].as_of
        /\ new.asked = signal[q].asked /\ new.plan = signal[q].plan
    BY <1>2 DEF SignalRecord
  <2> HIDE DEF new
  <2>7. Key(new) = Key(signal[q]) /\ Prepared(new, today)
    BY <1>2, <2>6 DEF Key, Prepared
  <2>8. signal[q].step \in SignalSteps /\ signal[q].step \notin {"idle", "done"}
    BY <1>1 DEF SignalSteps
  <2>9. SignalsInv'
    BY <1>1, <2>4, <2>5, <2>6, <2>7, <2>8, AskMoves
  <2> QED BY <2>3, <2>9
<1>4. CASE ~(signal[q].mode = "refresh" /\ signal[q].plan.fetch # {})
  <2>1. signal' = [signal EXCEPT ![q].step = "synced"] /\ UNCHANGED job
    BY <1>4 DEF RunSignal
  <2>2. PricesInv'
    BY <1>1, <2>1, PricesUntouched DEF priceVars
  <2>3. SignalsInv'
    BY <1>1, <2>1, SyncedKeeps
  <2> QED BY <2>2, <2>3
<1> QED BY <1>3, <1>4

(* What is expected, and what is there, are looked up again.                 *)
LEMMA RecheckSignalKeeps ==
    ASSUME SignalsInv, PricesTyped, NEW q \in Asks, RecheckSignal(q)
    PROVE  SignalsInv' /\ UNCHANGED priceVars
<1>1. signal[q].step = "synced" /\ UNCHANGED <<snapshots, today>> /\ UNCHANGED priceVars
  BY DEF RecheckSignal, priceVars
<1>2. signal[q] \in SignalRecord /\ Prepared(signal[q], today)
  BY <1>1, AskFacts DEF AskOK
<1>3. signal[q].step \in SignalSteps /\ signal[q].step \notin {"idle", "done"}
  BY <1>1 DEF SignalSteps
<1>4. CASE signal[q].stop
  <2>1. Leaves(q, "stopped")
    BY <1>4 DEF RecheckSignal
  <2> QED BY <1>1, <1>3, <2>1, LeavesKeeps
<1>5. CASE ~signal[q].stop
  <2> DEFINE def == signal[q].plan.def
             as_of == signal[q].as_of
             plan == Preparation(def, as_of)
             new == [signal[q] EXCEPT !.step = "rechecked", !.plan = plan]
  <2>1. def \in Definitions /\ as_of \in Days \cup {0}
    BY <1>2, AskFacts DEF Prepared, PlanOK, Plan
  <2>2. signal' = [signal EXCEPT ![q] = new]
    BY <1>5 DEF RecheckSignal, SignalsInv, SignalsTyped
  <2>3. PlanOK(plan) /\ plan.expected = ExpectedOn(as_of, today)
    BY <2>1, PreparedIsOK
  <2> HIDE DEF plan
  <2>4. plan \in Plan /\ plan.expected \in Nat
    BY <2>3, DayFacts DEF PlanOK, Plan
  <2>5. new \in SignalRecord
    BY <1>2, <2>4 DEF SignalRecord, SignalSteps
  <2>6. /\ new.step = "rechecked" /\ new.mode = signal[q].mode /\ new.as_of = as_of
        /\ new.asked = signal[q].asked /\ new.plan = plan
    BY <1>2 DEF SignalRecord
  <2>7. signal[q].asked \in Plan /\ signal[q].asked.expected <= plan.expected
    <3>1. /\ signal[q].asked \in Plan /\ signal[q].plan \in Plan
          /\ signal[q].asked.expected <= signal[q].plan.expected
          /\ signal[q].plan.expected <= plan.expected
      BY <1>2, <2>3 DEF Prepared, PlanOK
    <3>2. signal[q].asked.expected \in Nat /\ signal[q].plan.expected \in Nat
      BY <3>1, DayFacts DEF Plan
    <3> QED BY <2>4, <3>1, <3>2
  <2> HIDE DEF new
  <2>8. Key(new) = Key(signal[q])
    BY <2>6 DEF Key
  <2>9. Prepared(new, today)
    BY <2>3, <2>4, <2>6, <2>7 DEF Prepared
  <2> QED BY <1>1, <1>3, <2>2, <2>5, <2>6, <2>8, <2>9, AskMoves
<1> QED BY <1>1, <1>4, <1>5

LEMMA ReadPanelKeeps ==
    ASSUME SignalsInv, PricesTyped, NEW q \in Asks, ReadPanel(q)
    PROVE  SignalsInv' /\ UNCHANGED priceVars
<1>1. signal[q].step = "rechecked" /\ UNCHANGED <<snapshots, today>> /\ UNCHANGED priceVars
  BY DEF ReadPanel, priceVars
<1>2. signal[q] \in SignalRecord /\ Prepared(signal[q], today)
  BY <1>1, AskFacts DEF AskOK
<1>3. signal[q].step \in SignalSteps /\ signal[q].step \notin {"idle", "done"}
  BY <1>1 DEF SignalSteps
<1>4. CASE Cached(signal[q].plan) = {}
  <2>1. Leaves(q, "failed")
    BY <1>4 DEF ReadPanel
  <2> QED BY <1>1, <1>3, <2>1, LeavesKeeps
<1>5. CASE Cached(signal[q].plan) # {}
  <2> DEFINE plan == signal[q].plan
             panel == Panel(plan)
             new == [signal[q] EXCEPT !.step = "read", !.panel = panel]
  <2>1. signal' = [signal EXCEPT ![q] = new]
    BY <1>5 DEF ReadPanel, SignalsInv, SignalsTyped
  <2>2. PlanOK(plan)
    BY <1>2 DEF Prepared
  <2> HIDE DEF plan
  <2>3. ReadOK(plan, panel)
    BY <2>2, PanelIsOK
  <2> HIDE DEF panel
  <2>4. panel \in Read
    BY <2>3 DEF ReadOK
  <2>5. new \in SignalRecord
    BY <1>2, <2>4 DEF SignalRecord, SignalSteps
  <2>6. /\ new.step = "read" /\ new.mode = signal[q].mode /\ new.as_of = signal[q].as_of
        /\ new.asked = signal[q].asked /\ new.plan = signal[q].plan /\ new.panel = panel
    BY <1>2 DEF SignalRecord
  <2> HIDE DEF new
  <2>7. Key(new) = Key(signal[q]) /\ Prepared(new, today)
    BY <1>2, <2>6 DEF Key, Prepared
  <2>8. ReadOK(new.plan, new.panel)
    BY <2>3, <2>6 DEF plan
  <2> QED BY <1>1, <1>3, <2>1, <2>5, <2>6, <2>7, <2>8, AskMoves
<1> QED BY <1>1, <1>4, <1>5

LEMMA SaveSnapshotKeeps ==
    ASSUME SignalsInv, NEW q \in Asks, SaveSnapshot(q)
    PROVE  SignalsInv' /\ UNCHANGED priceVars
<1>1. signal[q].step = "read" /\ UNCHANGED today /\ UNCHANGED priceVars
  BY DEF SaveSnapshot, priceVars
<1>2. /\ signal[q] \in SignalRecord /\ Prepared(signal[q], today)
      /\ ReadOK(signal[q].plan, signal[q].panel)
  BY <1>1, AskFacts DEF AskOK
<1>3. CASE signal[q].stop
  <2>1. Leaves(q, "stopped") /\ UNCHANGED <<snapshots, today>>
    BY <1>1, <1>3 DEF SaveSnapshot
  <2> QED BY <1>1, <2>1, LeavesKeeps
<1>4. CASE ~signal[q].stop
  <2> DEFINE new == [signal[q] EXCEPT !.step = "done"]
             shot == Ranking(signal[q].plan, signal[q].panel)
  <2>1. signal' = [signal EXCEPT ![q] = new] /\ snapshots' = [snapshots EXCEPT ![q] = shot]
    BY <1>4 DEF SaveSnapshot, SignalsInv, SignalsTyped
  <2>2. new \in SignalRecord
    BY NewStep
  <2>3. /\ new.step = "done" /\ new.as_of = signal[q].as_of
        /\ new.asked = signal[q].asked /\ new.plan = signal[q].plan
        /\ new.panel = signal[q].panel
    BY <1>2 DEF SignalRecord
  <2> HIDE DEF new
  <2>4. shot = Ranking(new.plan, new.panel)
    BY <2>3
  <2> HIDE DEF shot
  <2>5. Prepared(new, today) /\ ReadOK(new.plan, new.panel)
    BY <1>2, <2>3 DEF Prepared
  <2>6. AskOK(new, shot, today)
    BY <2>3, <2>4, <2>5 DEF AskOK
  <2>7. SignalsTyped'
    BY <2>1, <2>2 DEF SignalsInv, SignalsTyped
  <2>8. /\ signal'[q] = new /\ snapshots'[q] = shot
        /\ \A r \in Asks \ {q} : signal'[r] = signal[r] /\ snapshots'[r] = snapshots[r]
    BY <2>1 DEF SignalsInv, SignalsTyped
  <2>9. \A r \in Asks : AskOK(signal'[r], snapshots'[r], today)
    BY <2>6, <2>8, AskFacts
  <2>10. AsksOK'
    BY <1>1, <2>9 DEF AsksOK
  <2>11. new.step \notin SignalSteps
    BY <2>3 DEF SignalSteps
  <2>12. Distinct'
    BY <2>8, <2>11 DEF SignalsInv, Distinct
  <2> QED BY <1>1, <2>7, <2>10, <2>12 DEF SignalsInv
<1> QED BY <1>3, <1>4

LEMMA StopSignalKeeps ==
    ASSUME SignalsInv, PricesInv, NEW q \in Asks, StopSignal(q)
    PROVE  SignalsInv' /\ PricesInv'
<1>1. /\ signal[q].step \in SignalSteps /\ UNCHANGED <<snapshots, today>>
      /\ UNCHANGED <<today, files>> /\ signal' = [signal EXCEPT ![q].stop = TRUE]
  BY DEF StopSignal, Working
<1>2. signal[q].step \notin {"idle", "done"}
  BY <1>1 DEF SignalSteps
<1>3. signal[q] \in SignalRecord /\ AskOK(signal[q], snapshots[q], today)
  BY AskFacts
<1>4. SignalsInv'
  <2> DEFINE new == [signal[q] EXCEPT !.stop = TRUE]
  <2>1. signal' = [signal EXCEPT ![q] = new]
    BY <1>1 DEF SignalsInv, SignalsTyped
  <2>2. new \in SignalRecord
    BY <1>3 DEF SignalRecord
  <2>3. /\ new.step = signal[q].step /\ new.mode = signal[q].mode
        /\ new.as_of = signal[q].as_of /\ new.asked = signal[q].asked
        /\ new.plan = signal[q].plan /\ new.panel = signal[q].panel
    BY <1>3 DEF SignalRecord
  <2> HIDE DEF new
  <2>4. Key(new) = Key(signal[q]) /\ Prepared(new, today)
    BY <1>2, <1>3, <2>3 DEF Key, Prepared, AskOK
  <2>5. new.step \in {"read", "done"} => ReadOK(new.plan, new.panel)
    BY <1>3, <2>3 DEF AskOK
  <2> QED BY <1>1, <1>2, <2>1, <2>2, <2>3, <2>4, <2>5, AskMoves
<1>5. PricesInv'
  <2>1. CASE signal[q].step = "syncing" /\ job[signal[q].job].status = "running"
    <3> DEFINE j == signal[q].job
    <3>1. job' = [job EXCEPT ![j].stop = TRUE] /\ j \in Jobs \cup {0}
      BY <2>1, AskFacts DEF StopSignal
    <3> HIDE DEF j
    <3>2. CASE j \in Jobs
      BY <1>1, <3>1, <3>2, StopSyncKeeps
    <3>3. CASE j \notin Jobs
      <4>1. job' = job
        BY <3>1, <3>3 DEF PricesInv, PricesTyped
      <4> QED BY <1>1, <4>1, PricesUntouched DEF priceVars
    <3> QED BY <3>2, <3>3
  <2>2. CASE ~(signal[q].step = "syncing" /\ job[signal[q].job].status = "running")
    <3>1. job' = job
      BY <2>2 DEF StopSignal
    <3> QED BY <1>1, <3>1, PricesUntouched DEF priceVars
  <2> QED BY <2>1, <2>2
<1> QED BY <1>4, <1>5

LEMMA RestartSignalsKeeps ==
    ASSUME SignalsInv, RestartSignals, UNCHANGED today
    PROVE  SignalsInv'
<1>1. ASSUME NEW q \in Asks
      PROVE  /\ signal'[q] \in SignalRecord /\ AskOK(signal'[q], snapshots[q], today)
             /\ signal'[q].step \notin SignalSteps
  <2>1. CASE signal[q].step \in {"prepared"} \cup SignalSteps
    <3> DEFINE new == [signal[q] EXCEPT !.step = "lost", !.panel = <<>>]
    <3>1. signal'[q] = new
      BY <2>1 DEF RestartSignals
    <3>2. signal[q] \in SignalRecord /\ Prepared(signal[q], today) /\ snapshots[q] = NoSnapshot
      BY <2>1, AskFacts DEF AskOK, SignalSteps
    <3>3. new \in SignalRecord
      BY NewStep
    <3>4. /\ new.step = "lost" /\ new.as_of = signal[q].as_of
          /\ new.asked = signal[q].asked /\ new.plan = signal[q].plan
      BY <3>2 DEF SignalRecord
    <3> HIDE DEF new
    <3>5. AskOK(new, snapshots[q], today) /\ new.step \notin SignalSteps
      BY <3>2, <3>4 DEF AskOK, Prepared, SignalSteps
    <3> QED BY <3>1, <3>3, <3>5
  <2>2. CASE signal[q].step \notin {"prepared"} \cup SignalSteps
    <3>1. signal'[q] = signal[q]
      BY <2>2 DEF RestartSignals
    <3> QED BY <2>2, <3>1, AskFacts
  <2> QED BY <2>1, <2>2
<1>2. UNCHANGED snapshots /\ signal' = [q \in Asks |-> signal'[q]]
  BY DEF RestartSignals
<1>3. SignalsTyped'
  BY <1>1, <1>2 DEF SignalsInv, SignalsTyped
<1>4. AsksOK'
  BY <1>1, <1>2 DEF AsksOK
<1>5. Distinct'
  BY <1>1 DEF Distinct
<1> QED BY <1>3, <1>4, <1>5 DEF SignalsInv

(* The day goes on, and what is expected of a request with it.               *)
LEMMA SignalsOnALaterDay ==
    ASSUME SignalsInv, UNCHANGED signalVars, today \in Days, today' \in Days, today <= today'
    PROVE  SignalsInv'
<1>1. UNCHANGED <<signal, snapshots>>
  BY DEF signalVars
<1>2. ASSUME NEW q \in Asks PROVE AskOK(signal[q], snapshots[q], today')
  <2>1. AskOK(signal[q], snapshots[q], today) /\ signal[q].as_of \in Days \cup {0}
    BY AskFacts
  <2> SUFFICES ASSUME signal[q].step # "idle" PROVE Prepared(signal[q], today')
    BY <2>1 DEF AskOK
  <2> DEFINE then == ExpectedOn(signal[q].as_of, today)
             now == ExpectedOn(signal[q].as_of, today')
             expected == signal[q].plan.expected
  <2>2. Prepared(signal[q], today)
    BY <2>1 DEF AskOK
  <2>3. then \in Nat /\ now \in Nat
    BY <2>1, ExpectedIsADay, DayFacts
  <2>4. then <= now
    BY <2>1, ExpectedLater
  <2>5. expected \in Nat /\ expected <= then
    BY <2>2, DayFacts DEF Prepared, PlanOK, Plan
  <2> HIDE DEF then, now, expected
  <2>6. expected <= now
    BY <2>3, <2>4, <2>5
  <2> QED BY <2>2, <2>6 DEF Prepared, now, expected
<1>3. AsksOK'
  BY <1>1, <1>2 DEF AsksOK
<1>4. SignalsTyped' /\ Distinct'
  BY <1>1 DEF SignalsInv, SignalsTyped, Distinct
<1> QED BY <1>3, <1>4 DEF SignalsInv

LEMMA SignalsUntouched ==
    ASSUME SignalsInv, UNCHANGED signalVars, UNCHANGED today
    PROVE  SignalsInv'
<1>1. UNCHANGED <<signal, snapshots, today>>
  BY DEF signalVars
<1> QED BY <1>1 DEF SignalsInv, SignalsTyped, AsksOK, Distinct

LEMMA SignalsInitial ==
    ASSUME SignalsInit
    PROVE  SignalsInv
<1>1. NoSignal \in SignalRecord /\ NoSignal.step = "idle"
  BY DEF NoSignal, SignalRecord
<1>2. AskOK(NoSignal, NoSnapshot, today) /\ NoSignal.step \notin SignalSteps
  BY <1>1 DEF AskOK, SignalSteps
<1> HIDE DEF NoSignal
<1> QED BY <1>1, <1>2 DEF SignalsInit, SignalsInv, SignalsTyped, AsksOK, Distinct

LEMMA SignalStepKeeps ==
    ASSUME SignalsInv, PricesInv, NEW q \in Asks, SignalStep(q)
    PROVE  SignalsInv' /\ PricesInv'
<1>0. PricesTyped
  BY DEF PricesInv
<1>1. CASE SubmitSignal(q)
  BY <1>1, SubmitSignalKeeps, PricesUntouched
<1>2. CASE RunSignal(q)
  BY <1>2, RunSignalKeeps
<1>3. CASE SyncSignal(q)
  <2>1. /\ signal[q].step = "syncing" /\ UNCHANGED priceVars /\ UNCHANGED <<snapshots, today>>
        /\ signal' = [signal EXCEPT ![q].step = "synced"]
    BY <1>3 DEF SyncSignal, priceVars
  <2> QED BY <2>1, SyncedKeeps, PricesUntouched
<1>4. CASE RecheckSignal(q)
  BY <1>0, <1>4, RecheckSignalKeeps, PricesUntouched
<1>5. CASE ReadPanel(q)
  BY <1>0, <1>5, ReadPanelKeeps, PricesUntouched
<1>6. CASE SaveSnapshot(q)
  BY <1>6, SaveSnapshotKeeps, PricesUntouched
<1> QED BY <1>1, <1>2, <1>3, <1>4, <1>5, <1>6 DEF SignalStep

-----------------------------------------------------------------------------
(* The specification.                                                        *)

LEMMA HomeFacts ==
    /\ Catalog \in Definitions /\ Contents \subseteq Definitions
    /\ UniverseIds = UniverseNames /\ Bundled \subseteq UniverseIds
    /\ Names \ {Reserved} \subseteq UniverseIds
    /\ Starts \subseteq Days /\ Ends \subseteq Days \cup {0}
  BY HomeAssumption, PriceAssumption DEF UniverseNames

LEMMA PriceRequestKeeps ==
    ASSUME PricesInv, SignalsInv, NEW j \in Jobs, PriceRequest(j)
    PROVE  PricesInv' /\ SignalsInv'
<1>1. UNCHANGED signalVars
  BY DEF PriceRequest, PricesAlone
<1>2. ASSUME NEW u \in Bundled, NEW mode \in {"incremental", "refresh"}, NEW from \in Starts,
             NEW to \in Ends, SubmitSync(j, u, Catalog, mode, from, to)
      PROVE  PricesInv' /\ UNCHANGED today
  <2>1. PricesInv'
    BY <1>2, HomeFacts, SubmitSyncKeeps
  <2> QED BY <1>2, <2>1 DEF SubmitSync
<1>3. ASSUME NEW u \in Bundled, NEW scope \in {"top_up", "full"}, AskFill(j, u, Catalog, scope)
      PROVE  PricesInv' /\ UNCHANGED today
  BY <1>3, HomeFacts, AskFillKeeps DEF AskFill
<1>4. ASSUME NEW from \in Starts, RunScript(j, Catalog, from)
      PROVE  PricesInv' /\ UNCHANGED today
  BY <1>4, HomeFacts, RunScriptKeeps DEF RunScript
<1>5. ASSUME StopSync(j) PROVE PricesInv' /\ UNCHANGED today
  BY <1>5, StopSyncKeeps DEF StopSync
<1>6. ASSUME ClearPrices PROVE PricesInv' /\ UNCHANGED today
  BY <1>6, ClearPricesKeeps DEF ClearPrices
<1>7. PricesInv' /\ UNCHANGED today
  BY <1>2, <1>3, <1>4, <1>5, <1>6 DEF PriceRequest
<1> QED BY <1>1, <1>7, SignalsUntouched

LEMMA PriceStepKeepsDay ==
    ASSUME NEW j \in Jobs, PriceStep(j)
    PROVE  UNCHANGED today
  BY DEF PriceStep, SubmitFill, StartJob, NextSymbol, LoadSymbol, FetchRange, StoreStep,
         OpenTemporary, CloseTemporary, Replace, Undo

(* A sync or a fill of a universe a user saved is of what the process holds. *)
LEMMA UniverseUsedKeeps ==
    ASSUME IInv, PricesInv, SignalsInv, NEW p \in Procs, UniverseUsed(p)
    PROVE  PricesInv' /\ SignalsInv'
<1> DEFINE name == at[p].name
           def == loaded[p][name]
<1>1. UNCHANGED signalVars
  BY DEF UniverseUsed
<1>2. CASE UNCHANGED priceVars
  <2>1. UNCHANGED today
    BY <1>2 DEF priceVars
  <2> QED BY <1>1, <1>2, <2>1, PricesUntouched, SignalsUntouched
<1>3. CASE ~UNCHANGED priceVars
  <2>1. PICK j \in Jobs :
           \/ \E from \in Starts, to \in Ends : SubmitSync(j, name, def, "incremental", from, to)
           \/ AskFill(j, name, def, "full")
    BY <1>3 DEF UniverseUsed
  <2>2. def # NoFile
    BY <1>3 DEF UniverseUsed
  <2>3. at[p].step = "use" /\ at[p] \in Place /\ PlaceOK(at[p])
    BY DEF UniverseUsed, UseUniverse, IInv, PlacesOK
  <2>4. name \in Names \ {Reserved}
    BY <2>3 DEF Place, PlaceOK
  <2>5. loaded[p] \in [Names \ {Reserved} -> Contents \cup {NoFile}]
    BY DEF IInv, MemoryOK
  <2>6. def \in Contents
    BY <2>2, <2>4, <2>5
  <2>7. name \in UniverseIds /\ def \in Definitions
    BY <2>4, <2>6, HomeFacts
  <2> HIDE DEF name, def
  <2>8. ASSUME NEW from \in Starts, NEW to \in Ends,
               SubmitSync(j, name, def, "incremental", from, to)
        PROVE  PricesInv' /\ UNCHANGED today
    <3>1. "incremental" \in {"incremental", "refresh"}
      OBVIOUS
    <3>2. PricesInv'
      BY <2>7, <2>8, <3>1, SubmitSyncKeeps
    <3> QED BY <2>8, <3>2 DEF SubmitSync
  <2>9. ASSUME AskFill(j, name, def, "full")
        PROVE  PricesInv' /\ UNCHANGED today
    <3>1. PricesInv'
      BY <2>7, <2>9, AskFillKeeps
    <3> QED BY <2>9, <3>1 DEF AskFill
  <2> QED BY <1>1, <2>1, <2>8, <2>9, SignalsUntouched
<1> QED BY <1>2, <1>3

LEMMA PricesInductive ==
    ASSUME IInv, PricesInv, SignalsInv, [Next]_homeVars
    PROVE  PricesInv' /\ SignalsInv'
<1> DEFINE StillHold == PricesInv' /\ SignalsInv'
<1>0. UNCHANGED <<priceVars, signalVars>> => StillHold
  BY PricesUntouched, SignalsUntouched DEF priceVars
<1>1. ASSUME NEW p \in Procs,
             UniverseRequest(p) \/ UniverseStep(p) \/ UniverseRemoved(p) \/ FolderRequest(p)
      PROVE  StillHold
  BY <1>0, <1>1 DEF UniverseRequest, UniverseStep, UniverseRemoved, FolderRequest,
                    UniversesAlone, FoldersAlone
<1>2. ASSUME NEW p \in Procs, UniverseUsed(p) PROVE StillHold
  BY <1>2, UniverseUsedKeeps
<1>3. CASE FolderStep \/ UNCHANGED homeVars
  BY <1>0, <1>3 DEF FolderStep, FoldersAlone, homeVars
<1>4. ASSUME NEW j \in Jobs, PriceRequest(j) PROVE StillHold
  BY <1>4, PriceRequestKeeps
<1>5. ASSUME NEW j \in Jobs, PriceStep(j) PROVE StillHold
  <2>1. UNCHANGED signalVars /\ UNCHANGED today
    BY <1>5, PriceStepKeepsDay DEF PriceStep, PricesAlone
  <2> QED BY <1>5, <2>1, PriceStepKeeps, SignalsUntouched
<1>6. ASSUME NEW q \in Asks, SignalRequest(q) PROVE StillHold
  <2>1. ASSUME NEW mode \in {"refresh", "cached"}, NEW as_of \in Ends,
               AskSignal(q, Catalog, mode, as_of)
        PROVE  StillHold
    BY <2>1, HomeFacts, AskSignalKeeps, PricesUntouched DEF PricesInv
  <2>2. ASSUME StopSignal(q) PROVE StillHold
    BY <2>2, StopSignalKeeps
  <2> QED BY <1>6, <2>1, <2>2 DEF SignalRequest
<1>7. ASSUME NEW q \in Asks, SignalJobStep(q) PROVE StillHold
  BY <1>7, SignalStepKeeps DEF SignalJobStep
<1>8. CASE PricesRestart
  BY <1>8, RestartSyncKeeps, RestartSignalsKeeps DEF PricesRestart, RestartSync
<1>9. CASE Tomorrow
  <2>1. DayPasses /\ UNCHANGED signalVars
    BY <1>9 DEF Tomorrow, PricesAlone
  <2> QED BY <2>1, DayPassesKeeps, NextDay, SignalsOnALaterDay
<1> QED BY <1>1, <1>2, <1>3, <1>4, <1>5, <1>6, <1>7, <1>8, <1>9 DEF Next

(* What jobs have in hand and what the cache and the snapshots hold keep their *)
(* invariants together (_sync_one_symbol; prepare and snapshot of signals).  *)
THEOREM PricesAndSignalsCorrect == Spec => [](PricesInv /\ SignalsInv)
<1>1. Init => PricesInv /\ SignalsInv
  BY PricesInitial, SignalsInitial DEF Init
<1>2. IInv /\ (PricesInv /\ SignalsInv) /\ [Next]_homeVars => (PricesInv /\ SignalsInv)'
  BY PricesInductive
<1> QED BY <1>1, <1>2, UniversesCorrect, PTL DEF Spec

(* Universes, prices and signals keep their types.                           *)
THEOREM TypesCorrect == Spec => [](UniversesTypeOK /\ PricesTypeOK /\ SignalsTypeOK)
<1>1. ASSUME IInv PROVE UniversesTypeOK
  BY <1>1 DEF IInv, PlacesOK, PlaceOK, Place, LinksOK, MemoryOK, UniversesTypeOK
<1>2. ASSUME PricesInv PROVE PricesTypeOK
  <2>1. /\ \A s \in Symbols : cache[s] \in {Absent, Broken} \/ cache[s] \in Frame
        /\ \A o \in Owners, s \in Symbols :
              temp[<<o, s>>] \in {Absent, Broken} \/ temp[<<o, s>>] \in Frame
        /\ clashed \subseteq Symbols
    BY <1>2 DEF PricesInv, PricesTyped
  <2>2. ASSUME NEW j \in Jobs
        PROVE  IsSeqOf(job[j].left, Symbols) /\ IsSeqOf(job[j].got, Frame)
    <3>1. job[j].left \in Seq(Symbols) /\ job[j].got \in Seq(Frame)
      BY <1>2 DEF PricesInv, PricesTyped, JobRecord
    <3> QED BY <3>1 DEF IsSeqOf, Range
  <2>3. \A j \in Jobs : job[j] \in JobRecord
    BY <1>2 DEF PricesInv, PricesTyped
  <2>4. today \in Days
    BY <1>2 DEF PricesInv, PricesTyped
  <2> QED BY <2>1, <2>2, <2>3, <2>4 DEF JobRecord, PricesTypeOK
<1>3. ASSUME SignalsInv PROVE SignalsTypeOK
  <2> SUFFICES ASSUME NEW q \in Asks
               PROVE  /\ signal[q].step \in {"idle", "prepared", "joined", "done", "stopped",
                                             "failed", "lost"} \cup SignalSteps
                      /\ signal[q].job \in Jobs \cup {0} /\ signal[q].with \in Asks \cup {0}
                      /\ snapshots[q] # NoSnapshot => signal[q].step = "done"
    BY DEF SignalsTypeOK
  <2> QED BY <1>3, AskFacts DEF SignalRecord, AskOK
<1> QED BY <1>1, <1>2, <1>3, UniversesCorrect, PricesAndSignalsCorrect, PTL

(* However jobs overlap and whenever they are killed, the file of a symbol is *)
(* one unbroken series of one provider, with the price at a split that its   *)
(* basis says, or it cannot be read, and that only if two jobs of a process  *)
(* stored the symbol at once (_sync_one_symbol, merge_price_frames and       *)
(* ParquetCache.store, which take no lock).                                  *)
THEOREM HistoryCorrect == Spec => []HistoryIsOneSeries
<1>1. ASSUME PricesInv PROVE HistoryIsOneSeries
  <2> SUFFICES ASSUME NEW s \in Symbols
               PROVE  /\ Readable(s) =>
                            /\ \A d \in Days :
                                  (\E a, b \in Held(cache[s]) : a <= d /\ d <= b)
                                     => d \in Held(cache[s])
                            /\ InferredBasis(s, cache[s]) \in {"unknown", Basis(cache[s].by)}
                      /\ cache[s] = Broken => s \in clashed
    BY DEF HistoryIsOneSeries
  <2>1. Readable(s) => FileOK(s, cache[s], today)
    BY <1>1 DEF PricesInv, FilesOK, HoldsOK, Readable
  <2>2. cache[s] = Broken => s \in clashed
    BY <1>1 DEF PricesInv, AloneOK, Alone
  <2> QED BY <2>1, <2>2 DEF FileOK, Stretch, Solid
<1> QED BY <1>1, PricesAndSignalsCorrect, PTL

(* The last bar of what was read is the day that is ranked; with a value     *)
(* there, a symbol has its price of that day.                                *)
LEMMA ValuedHasThePrice ==
    ASSUME NEW plan, NEW panel, PlanOK(plan), ReadOK(plan, panel), NEW s \in plan.active,
           Valued(panel, s, plan.expected)
    PROVE  Max(panel.prices[s]) = plan.expected
<1> DEFINE day == plan.expected
           prices == panel.prices[s]
           own == {e \in panel.bars : day <= e /\ e <= day}
           back == {d \in panel.bars :
                      d <= day /\ Cardinality({e \in panel.bars : d <= e /\ e <= day}) <= Lookback}
<1>1. day \in Days /\ day \in Nat /\ day \in panel.bars /\ panel.bars \in SUBSET Days
  BY DayFacts DEF PlanOK, Plan, ReadOK, Read
<1>2. \A e \in panel.bars : e \in Nat
  BY <1>1, DayFacts
<1>3. prices \in SUBSET Nat /\ \A d \in prices : d <= day
  <2>1. panel \in Read /\ s \in DOMAIN panel.prices
    BY DEF ReadOK
  <2>2. PICK S \in SUBSET Symbols : panel.prices \in [S -> SUBSET Days]
    BY <2>1 DEF Read
  <2> QED BY <2>1, <2>2, DayFacts DEF ReadOK
<1>4. back \subseteq prices
  BY DEF Valued
<1>5. own = {day}
  BY <1>1, <1>2
<1>6. Cardinality(own) <= Lookback
  <2>1. Lookback \in Nat \ {0}
    BY SignalAssumption
  <2>2. Cardinality({day}) = 1
    BY FS_Singleton
  <2> QED BY <1>5, <2>1, <2>2
<1>7. day \in back
  BY <1>1, <1>6
<1> HIDE DEF day, prices, own, back
<1>8. day \in prices
  BY <1>4, <1>7
<1>9. Max(prices) \in prices /\ \A d \in prices : d <= Max(prices)
  BY <1>1, <1>3, <1>8, MaxIsGreatest
<1>10. Max(prices) \in Nat /\ Max(prices) <= day /\ day <= Max(prices)
  BY <1>3, <1>8, <1>9
<1>11. Max(prices) = day
  BY <1>1, <1>10
<1> QED BY <1>11 DEF prices, day

(* No two jobs at work were submitted for the same, and a snapshot is of the *)
(* session that was expected or a later one, accounts once for each member   *)
(* of it and ranks only symbols that had a price that day (signals.py,       *)
(* submit, prepare and snapshot).                                            *)
THEOREM SnapshotsCorrect == Spec => []SnapshotsAreOfTheirDay
<1>1. ASSUME SignalsInv PROVE SnapshotsAreOfTheirDay
  <2>1. \A q, r \in Asks : Working(q) /\ Working(r) /\ q # r => Identity(q) # Identity(r)
    BY <1>1 DEF SignalsInv, Distinct, Working, Identity, Key
  <2>2. ASSUME NEW q \in Asks, snapshots[q] # NoSnapshot
        PROVE  LET kept == snapshots[q]
                   read == signal[q].panel.prices
               IN  /\ kept.as_of >= signal[q].asked.expected
                   /\ kept.ranked \cup DOMAIN kept.excluded
                         = {s \in Symbols : MemberOn(signal[q].plan.def, s, kept.as_of)}
                   /\ kept.ranked \cap DOMAIN kept.excluded = {}
                   /\ \A s \in kept.ranked : Max(read[s]) = kept.as_of
                   /\ \A s \in DOMAIN kept.excluded :
                         kept.excluded[s] = "no_prices" <=> read[s] = {}
    <3> DEFINE plan == signal[q].plan
               panel == signal[q].panel
               day == plan.expected
               ranked == {s \in plan.active : Valued(panel, s, day)}
    <3>1. /\ Prepared(signal[q], today) /\ ReadOK(plan, panel)
          /\ snapshots[q] = Ranking(plan, panel)
      BY <1>1, <2>2, AskFacts DEF AskOK
    <3>2. /\ PlanOK(plan) /\ signal[q].asked.expected <= day
          /\ signal[q].asked.expected \in Nat /\ day \in Nat
      BY <3>1, DayFacts DEF Prepared, PlanOK, Plan
    <3>3. /\ snapshots[q].as_of = day /\ snapshots[q].ranked = ranked
          /\ snapshots[q].excluded = [s \in plan.active \ ranked |-> Reason(panel.prices[s], day)]
      BY <3>1 DEF Ranking
    <3>4. plan.active = {s \in Symbols : MemberOn(plan.def, s, day)}
      BY <3>2 DEF PlanOK
    <3>5. \A s \in ranked : Max(panel.prices[s]) = day
      BY <3>1, <3>2, ValuedHasThePrice
    <3>6. \A s : Reason(panel.prices[s], day) = "no_prices" <=> panel.prices[s] = {}
      BY DEF Reason
    <3>7. day >= signal[q].asked.expected
      BY <3>2
    <3> HIDE DEF plan, panel, day
    <3> QED BY <3>3, <3>4, <3>5, <3>6, <3>7 DEF plan, panel
  <2> QED BY <2>1, <2>2 DEF SnapshotsAreOfTheirDay
<1> QED BY <1>1, PricesAndSignalsCorrect, PTL

-----------------------------------------------------------------------------
(* Folders.                                                                  *)

(* A function on the nodes of a tree, from what it is where it ends and how  *)
(* it follows from its value at the parent.                                  *)
Descends(g, D, Tips, par, base, comb) ==
    \A p \in D : g[p] = IF p \in Tips THEN base[p] ELSE comb[p][g[par[p]]]

LEMMA LowestOf ==
    ASSUME NEW D, NEW n \in Nat, NEW level \in [D -> 0 .. n], NEW C \in SUBSET D, C # {}
    PROVE  \E p \in C : \A q \in C : level[p] <= level[q]
<1> DEFINE L == {level[p] : p \in C}
<1>1. L \in SUBSET Nat /\ L # {}
  OBVIOUS
<1>2. PICK x \in L : \A y \in L : x <= y
  BY <1>1, HasLeast
<1> QED BY <1>2

(* There is one, built level by level.                                       *)
LEMMA DescentExists ==
    ASSUME NEW D, NEW V, NEW Tips \in SUBSET D, NEW par \in [D -> D], NEW base \in [D -> V],
           NEW comb \in [D -> [V -> V]], NEW n \in Nat, NEW level \in [D -> 0 .. n],
           \A p \in D \ Tips : level[par[p]] < level[p]
    PROVE  \E g \in [D -> V] : Descends(g, D, Tips, par, base, comb)
<1> DEFINE ValueAt(g, p) == IF p \in Tips THEN base[p] ELSE comb[p][g[par[p]]]
           Upto(g, m) == \A p \in D : level[p] <= m => g[p] = ValueAt(g, p)
           Can == {m \in 0 .. n : \E g \in [D -> V] : Upto(g, m)}
<1>1. \A g \in [D -> V], p \in D : ValueAt(g, p) \in V
  OBVIOUS
<1>2. 0 \in Can
  <2>1. base \in [D -> V] /\ Upto(base, 0)
    OBVIOUS
  <2> QED BY <2>1
<1>3. ASSUME NEW m \in 0 .. n, m # n, m \in Can PROVE m + 1 \in Can
  <2>1. PICK g \in [D -> V] : Upto(g, m)
    BY <1>3
  <2> DEFINE h == [p \in D |-> IF level[p] = m + 1 THEN ValueAt(g, p) ELSE g[p]]
  <2>2. h \in [D -> V]
    BY <1>1
  <2>3. ASSUME NEW p \in D, level[p] <= m + 1 PROVE h[p] = ValueAt(h, p)
    <3>1. p \notin Tips => h[par[p]] = g[par[p]]
      BY <2>3
    <3>2. ValueAt(h, p) = ValueAt(g, p)
      BY <3>1
    <3>3. level[p] # m + 1 => level[p] <= m
      BY <2>3
    <3> QED BY <2>1, <3>2, <3>3
  <2>4. m + 1 \in 0 .. n
    BY <1>3
  <2> HIDE DEF h, ValueAt
  <2> QED BY <2>2, <2>3, <2>4
<1>4. n \in Can
  <2> SUFFICES ASSUME n \notin Can PROVE FALSE
    OBVIOUS
  <2> HIDE DEF Can
  <2> DEFINE Fails == {m \in 0 .. n : m \notin Can}
  <2>1. Fails \in SUBSET Nat /\ Fails # {}
    OBVIOUS
  <2>2. PICK m \in Fails : \A k \in Fails : m <= k
    BY <2>1, HasLeast
  <2>3. m # 0 /\ m \in 0 .. n
    BY <1>2, <2>2
  <2>4. m - 1 \in 0 .. n /\ m - 1 # n /\ (m - 1) + 1 = m
    BY <2>3
  <2>5. m - 1 \in Can
    BY <2>2, <2>4
  <2>6. m \in Can
    BY <1>3, <2>4, <2>5
  <2> QED BY <2>2, <2>6
<1>5. PICK g \in [D -> V] : Upto(g, n)
  BY <1>4
<1>6. Descends(g, D, Tips, par, base, comb)
  BY <1>5 DEF Descends
<1> QED BY <1>6

(* Up(S): from a place to the nearest folder of S, or to the top level.      *)
Climbs(g, S) ==
    g = [p \in Places |->
            IF p \in S \cup {Top} THEN p
            ELSE IF p \in Builtin THEN g[DefaultParent[p]] ELSE Top]

Up(S) == CHOOSE g : Climbs(g, S)

LEMMA PlaceFacts ==
    /\ Places = Builtin \cup UserFolders \cup {Top}
    /\ Builtin \cap UserFolders = {} /\ Top \notin Builtin \cup UserFolders
    /\ Unset \notin Places
    /\ \A f \in Builtin : DefaultParent[f] \in Builtin \cup {Top}
  BY FolderAssumption DEF Places, Folders

(* The manifest has no cycles.                                               *)
LEMMA LevelsExist ==
    \E n \in Nat : \E level \in [Places -> 0 .. n] :
        \A f \in Builtin : level[DefaultParent[f]] < level[f]
<1> DEFINE n == Cardinality(Builtin)
<1>1. n \in Nat
  BY FolderAssumption, FS_CardinalityType
<1>2. PICK rank \in [Builtin -> 1 .. n] :
         \A f \in Builtin : DefaultParent[f] \in Builtin => rank[DefaultParent[f]] < rank[f]
  BY FolderAssumption
<1> HIDE DEF n
<1> DEFINE level == [p \in Places |-> IF p \in Builtin THEN rank[p] ELSE 0]
<1>3. level \in [Places -> 0 .. n]
  BY <1>1, <1>2
<1>4. ASSUME NEW f \in Builtin PROVE level[DefaultParent[f]] < level[f]
  <2>1. level[f] = rank[f] /\ rank[f] \in 1 .. n
    BY <1>2, PlaceFacts
  <2>2. CASE DefaultParent[f] \in Builtin
    BY <1>2, <2>1, <2>2, PlaceFacts
  <2>3. CASE DefaultParent[f] = Top
    BY <1>1, <2>1, <2>3, PlaceFacts
  <2> QED BY <2>2, <2>3, PlaceFacts
<1> HIDE DEF level
<1> QED BY <1>1, <1>3, <1>4

LEMMA UpExists == ASSUME NEW S PROVE Climbs(Up(S), S)
<1>1. PICK n \in Nat : \E level \in [Places -> 0 .. n] :
         \A f \in Builtin : level[DefaultParent[f]] < level[f]
  BY LevelsExist
<1>2. PICK level \in [Places -> 0 .. n] : \A f \in Builtin : level[DefaultParent[f]] < level[f]
  BY <1>1
<1> DEFINE tips == Places \ (Builtin \ (S \cup {Top}))
           par == [p \in Places |-> IF p \in Builtin THEN DefaultParent[p] ELSE p]
           base == [p \in Places |-> IF p \in S \cup {Top} THEN p ELSE Top]
           comb == [p \in Places |-> [v \in Places |-> v]]
<1>3. tips \in SUBSET Places /\ par \in [Places -> Places] /\ base \in [Places -> Places]
      /\ comb \in [Places -> [Places -> Places]]
  BY PlaceFacts
<1>4. \A p \in Places \ tips : level[par[p]] < level[p]
  BY <1>2
<1>5. \E g \in [Places -> Places] : Descends(g, Places, tips, par, base, comb)
  <2> HIDE DEF tips, par, base, comb
  <2> QED BY <1>2, <1>3, <1>4, DescentExists
<1>6. PICK g \in [Places -> Places] : Descends(g, Places, tips, par, base, comb)
  BY <1>5
<1>7. ASSUME NEW p \in Places
      PROVE  g[p] = IF p \in S \cup {Top} THEN p
                    ELSE IF p \in Builtin THEN g[DefaultParent[p]] ELSE Top
  <2>1. g[p] = IF p \in tips THEN base[p] ELSE comb[p][g[par[p]]]
    BY <1>6 DEF Descends
  <2>2. CASE p \in tips
    BY <2>1, <2>2
  <2>3. CASE p \notin tips
    <3>1. p \in Builtin /\ p \notin S \cup {Top} /\ par[p] = DefaultParent[p]
      BY <2>3
    <3>2. par[p] \in Places /\ g[par[p]] \in Places
      BY <1>3, <1>6
    <3> QED BY <2>1, <2>3, <3>1, <3>2
  <2> QED BY <2>2, <2>3
<1>8. Climbs(g, S)
  BY <1>6, <1>7 DEF Climbs
<1> QED BY <1>8 DEF Up

LEMMA UpFacts ==
    ASSUME NEW S \in SUBSET Folders
    PROVE  /\ Up(S) \in [Places -> S \cup {Top}]
           /\ \A p \in S \cup {Top} : Up(S)[p] = p
           /\ \A p \in Builtin \ S : Up(S)[p] = Up(S)[DefaultParent[p]]
           /\ \A p \in UserFolders \ S : Up(S)[p] = Top
<1> DEFINE g == Up(S)
<1>1. g = [p \in Places |-> IF p \in S \cup {Top} THEN p
                            ELSE IF p \in Builtin THEN g[DefaultParent[p]] ELSE Top]
  BY UpExists DEF Climbs
<1> HIDE DEF g
<1>2. /\ \A p \in S \cup {Top} : g[p] = p
      /\ \A p \in Builtin \ S : g[p] = g[DefaultParent[p]]
      /\ \A p \in UserFolders \ S : g[p] = Top
  BY <1>1, PlaceFacts DEF Folders
<1>3. PICK n \in Nat : \E level \in [Places -> 0 .. n] :
         \A f \in Builtin : level[DefaultParent[f]] < level[f]
  BY LevelsExist
<1>4. PICK level \in [Places -> 0 .. n] : \A f \in Builtin : level[DefaultParent[f]] < level[f]
  BY <1>3
<1>5. ASSUME NEW q \in Places, g[q] \notin S \cup {Top} PROVE FALSE
  <2> DEFINE Bad == {p \in Places : g[p] \notin S \cup {Top}}
  <2>1. Bad \in SUBSET Places /\ Bad # {}
    BY <1>5
  <2> HIDE DEF Bad
  <2>2. PICK p \in Bad : \A r \in Bad : level[p] <= level[r]
    BY <1>4, <2>1, LowestOf
  <2>3. p \in Places /\ g[p] \notin S \cup {Top}
    BY <2>2 DEF Bad
  <2>4. p \in Builtin \ S
    BY <1>2, <2>3, PlaceFacts
  <2>5. DefaultParent[p] \in Places /\ level[DefaultParent[p]] < level[p]
    BY <1>4, <2>4, PlaceFacts
  <2>6. DefaultParent[p] \in Bad
    BY <1>2, <2>3, <2>4, <2>5 DEF Bad
  <2>7. level[p] \in 0 .. n /\ level[DefaultParent[p]] \in 0 .. n
    BY <1>4, <2>3, <2>5
  <2> QED BY <2>2, <2>5, <2>6, <2>7
<1>6. g \in [Places -> S \cup {Top}]
  BY <1>1, <1>5
<1> QED BY <1>2, <1>6 DEF g

(* A folder less is passed only by what led to it; and a user's folder more  *)
(* is met by nothing that was shown before it was there.                     *)
LEMMA UpWithout ==
    ASSUME NEW S \in SUBSET Folders, NEW f \in S,
           NEW q \in Places, Up(S)[q] # f
    PROVE  Up(S \ {f})[q] = Up(S)[q]
<1> DEFINE g == Up(S)
           h == Up(S \ {f})
           Bad == {p \in Places : g[p] # f /\ h[p] # g[p]}
<1>1. S \ {f} \in SUBSET Folders
  OBVIOUS
<1>2. /\ \A p \in S \cup {Top} : g[p] = p
      /\ \A p \in Builtin \ S : g[p] = g[DefaultParent[p]]
      /\ \A p \in UserFolders \ S : g[p] = Top
  BY UpFacts
<1>3. /\ \A p \in (S \ {f}) \cup {Top} : h[p] = p
      /\ \A p \in Builtin \ (S \ {f}) : h[p] = h[DefaultParent[p]]
      /\ \A p \in UserFolders \ (S \ {f}) : h[p] = Top
  BY <1>1, UpFacts
<1>4. PICK n \in Nat : \E level \in [Places -> 0 .. n] :
         \A e \in Builtin : level[DefaultParent[e]] < level[e]
  BY LevelsExist
<1>5. PICK level \in [Places -> 0 .. n] : \A e \in Builtin : level[DefaultParent[e]] < level[e]
  BY <1>4
<1> HIDE DEF g, h
<1>6. ASSUME q \in Bad PROVE FALSE
  <2>1. Bad \in SUBSET Places /\ Bad # {}
    BY <1>6
  <2> HIDE DEF Bad
  <2>2. PICK p \in Bad : \A r \in Bad : level[p] <= level[r]
    BY <1>5, <2>1, LowestOf
  <2>3. p \in Places /\ g[p] # f /\ h[p] # g[p]
    BY <2>2 DEF Bad
  <2>4. p # f
    BY <1>2, <2>3
  <2>5. p \in Builtin \ S
    BY <1>2, <1>3, <2>3, <2>4, PlaceFacts
  <2>6. DefaultParent[p] \in Places /\ level[DefaultParent[p]] < level[p]
    BY <1>5, <2>5, PlaceFacts
  <2>7. DefaultParent[p] \in Bad
    BY <1>2, <1>3, <2>3, <2>5, <2>6 DEF Bad
  <2>8. level[p] \in 0 .. n /\ level[DefaultParent[p]] \in 0 .. n
    BY <1>5, <2>3, <2>6
  <2> QED BY <2>2, <2>6, <2>7, <2>8
<1> QED BY <1>6 DEF g, h

LEMMA UpWith ==
    ASSUME NEW S \in SUBSET Folders, NEW f \in UserFolders \ S,
           NEW q \in Places \ {f}
    PROVE  Up(S \cup {f})[q] = Up(S)[q]
<1> DEFINE T == S \cup {f}
<1>1. T \in SUBSET Folders /\ f \in T /\ T \ {f} = S
  BY DEF Folders
<1> HIDE DEF T
<1> DEFINE g == Up(T)
           Bad == {p \in Places \ {f} : g[p] = f}
<1>2. /\ \A p \in T \cup {Top} : g[p] = p
      /\ \A p \in Builtin \ T : g[p] = g[DefaultParent[p]]
      /\ \A p \in UserFolders \ T : g[p] = Top
  BY <1>1, UpFacts
<1>3. PICK n \in Nat : \E level \in [Places -> 0 .. n] :
         \A e \in Builtin : level[DefaultParent[e]] < level[e]
  BY LevelsExist
<1>4. PICK level \in [Places -> 0 .. n] : \A e \in Builtin : level[DefaultParent[e]] < level[e]
  BY <1>3
<1> HIDE DEF g
<1>5. ASSUME q \in Bad PROVE FALSE
  <2>1. Bad \in SUBSET Places /\ Bad # {}
    BY <1>5
  <2> HIDE DEF Bad
  <2>2. PICK p \in Bad : \A r \in Bad : level[p] <= level[r]
    BY <1>4, <2>1, LowestOf
  <2>3. p \in Places /\ p # f /\ g[p] = f
    BY <2>2 DEF Bad
  <2>4. p \in Builtin \ T
    BY <1>2, <2>3, PlaceFacts
  <2>5. DefaultParent[p] \in Places \ {f} /\ level[DefaultParent[p]] < level[p]
    BY <1>4, <2>4, PlaceFacts
  <2>6. DefaultParent[p] \in Bad
    BY <1>2, <2>3, <2>4, <2>5 DEF Bad
  <2>7. level[p] \in 0 .. n /\ level[DefaultParent[p]] \in 0 .. n
    BY <1>4, <2>3, <2>5
  <2> QED BY <2>2, <2>5, <2>6, <2>7
<1>6. g[q] # f
  BY <1>5
<1>7. Up(T \ {f})[q] = Up(T)[q]
  BY <1>1, <1>6, UpWithout DEF g
<1> QED BY <1>1, <1>7 DEF T

(* What the list shows, of which Forest is the point: no folder is inside    *)
(* itself, so that _effective_folders never finds a cycle to break.          *)
PlacesTyped == FoldersTypeOK /\ \A f \in gone : stored[f] = Unset
StoredStand == \A f \in Folders : stored[f] \in Standing \cup {Top, Unset}
Nests(n, level) ==
    \A f \in Standing : ShownParent(f) \in Standing => level[ShownParent(f)] < level[f]
Forest == \E n \in Nat : \E level \in [Standing -> 0 .. n] : Nests(n, level)
FoldersInv == PlacesTyped /\ StoredStand /\ Forest

LEMMA StandingFacts ==
    /\ Standing \in SUBSET Folders
    /\ PlacesTyped => \A f \in Folders \ Standing : stored[f] = Unset
<1>1. Standing \in SUBSET Folders
  BY DEF Standing
<1>2. ASSUME PlacesTyped, NEW f \in Folders \ Standing PROVE stored[f] = Unset
  BY <1>2 DEF PlacesTyped, FoldersTypeOK, Standing, Folders
<1> QED BY <1>1, <1>2

LEMMA LiveIsUp == \A p \in Places : LiveParent(p) = Up(Standing)[p]
  BY DEF LiveParent, Up, Climbs

LEMMA OwnIsAPlace ==
    ASSUME PlacesTyped, NEW f \in Folders
    PROVE  OwnParent(f) \in Places
  BY PlaceFacts DEF PlacesTyped, FoldersTypeOK, OwnParent, Folders, Places

LEMMA ShownFacts ==
    ASSUME PlacesTyped, NEW f \in Folders
    PROVE  /\ ShownParent(f) = Up(Standing)[OwnParent(f)]
           /\ ShownParent(f) \in Standing \cup {Top}
  BY OwnIsAPlace, LiveIsUp, StandingFacts, UpFacts DEF ShownParent

OwnPlace(u) ==
    IF placed[u] # Unset THEN placed[u] ELSE IF u \in Bundled THEN DefaultPlace[u] ELSE Top

LEMMA ShownPlaceIsUp ==
    ASSUME PlacesTyped, NEW u \in UniverseNames
    PROVE  /\ OwnPlace(u) \in Places
           /\ ShownPlace(u) = Up(Standing)[OwnPlace(u)]
<1>1. OwnPlace(u) \in Places
  BY FolderAssumption, PlaceFacts DEF PlacesTyped, FoldersTypeOK, OwnPlace, UniverseNames
<1>2. ASSUME NEW p \in Builtin \ Standing PROVE OwnParent(p) = DefaultParent[p]
  BY <1>2, PlaceFacts DEF PlacesTyped, FoldersTypeOK, OwnParent, Standing, Folders
<1> DEFINE Rises(g) ==
       g = [p \in Places |->
               IF p \in Standing \cup {Top} THEN p
               ELSE IF p \in Builtin THEN g[OwnParent(p)] ELSE Top]
<1>3. \A g : Rises(g) <=> Climbs(g, Standing)
  <2> SUFFICES ASSUME NEW g PROVE Rises(g) <=> Climbs(g, Standing)
    OBVIOUS
  <2>1. [p \in Places |->
               IF p \in Standing \cup {Top} THEN p
               ELSE IF p \in Builtin THEN g[OwnParent(p)] ELSE Top]
        = [p \in Places |->
               IF p \in Standing \cup {Top} THEN p
               ELSE IF p \in Builtin THEN g[DefaultParent[p]] ELSE Top]
    BY <1>2
  <2> QED BY <2>1 DEF Climbs
<1>4. (CHOOSE g : Rises(g)) = Up(Standing)
  BY <1>3 DEF Up
<1>5. ShownPlace(u) = (CHOOSE g : Rises(g))[OwnPlace(u)]
  BY DEF ShownPlace, OwnPlace
<1> QED BY <1>1, <1>4, <1>5

ShownByUp ==
    PlacesTyped => \A u \in UniverseNames : ShownPlace(u) = Up(Standing)[OwnPlace(u)]

LEMMA AlwaysShownByUp == ShownByUp
  BY ShownPlaceIsUp DEF ShownByUp

LEMMA ShownPlaceNext ==
    ASSUME PlacesTyped', NEW u \in UniverseNames
    PROVE  ShownPlace(u)' = Up(Standing')[OwnPlace(u)']
<1>1. ShownByUp'
  BY AlwaysShownByUp, PTL
<1> QED BY <1>1 DEF ShownByUp

-----------------------------------------------------------------------------
(* Line(place): the folder and those it is nested in.                        *)

LEMMA LineFacts ==
    ASSUME PlacesTyped, Forest
    PROVE  /\ Line(Top) = {}
           /\ \A f \in Standing : Line(f) = {f} \cup Line(ShownParent(f))
<1> DEFINE D == Standing \cup {Top}
           par == [p \in D |-> IF p = Top THEN Top ELSE ShownParent(p)]
           base == [p \in D |-> {}]
<1>1. PICK n \in Nat : \E level \in [Standing -> 0 .. n] : Nests(n, level)
  BY DEF Forest
<1>2. PICK level \in [Standing -> 0 .. n] : Nests(n, level)
  BY <1>1
<1> DEFINE above == [p \in D |-> IF p = Top THEN 0 ELSE level[p] + 1]
<1>3. /\ Standing \in SUBSET Folders /\ Top \notin Standing
      /\ \A f \in Standing : ShownParent(f) \in D
  BY StandingFacts, ShownFacts, FolderAssumption
<1>4. {Top} \in SUBSET D /\ par \in [D -> D] /\ base \in [D -> SUBSET Standing]
  BY <1>3
<1>5. \E g \in [D -> SUBSET Standing] :
         \A p \in D : g[p] = IF p = Top THEN {} ELSE {p} \cup g[ShownParent(p)]
  <2> DEFINE V == SUBSET Standing
             comb == [p \in D |-> [L \in V |-> (({p} \ {Top}) \cup L)]]
  <2>1. comb \in [D -> [V -> V]]
    BY <1>3
  <2>2. n + 1 \in Nat /\ above \in [D -> 0 .. n + 1]
    BY <1>2, <1>3
  <2>3. ASSUME NEW p \in D \ {Top} PROVE above[par[p]] < above[p]
    <3>1. p \in Standing /\ par[p] = ShownParent(p) /\ ShownParent(p) \in D
      BY <1>3, <2>3
    <3>2. above[p] = level[p] + 1 /\ level[p] \in 0 .. n
      BY <1>2, <1>3, <3>1
    <3>3. CASE ShownParent(p) = Top
      BY <3>1, <3>2, <3>3
    <3>4. CASE ShownParent(p) \in Standing
      <4>1. level[ShownParent(p)] < level[p]
        BY <1>2, <3>1, <3>4 DEF Nests
      <4>2. above[par[p]] = level[ShownParent(p)] + 1 /\ level[ShownParent(p)] \in 0 .. n
        BY <1>2, <1>3, <3>1, <3>4
      <4> QED BY <3>2, <4>1, <4>2
    <3> QED BY <3>1, <3>3, <3>4
  <2>4. \E g \in [D -> V] : Descends(g, D, {Top}, par, base, comb)
    <3> DEFINE m == n + 1
               tips == {Top}
    <3>1. m \in Nat /\ above \in [D -> 0 .. m] /\ tips \in SUBSET D /\ base \in [D -> V]
      BY <1>4, <2>2
    <3>2. \A p \in D \ tips : above[par[p]] < above[p]
      BY <2>3
    <3> HIDE DEF D, V, par, base, comb, above, m, tips
    <3>3. \E g \in [D -> V] : Descends(g, D, tips, par, base, comb)
      BY <1>4, <2>1, <3>1, <3>2, DescentExists
    <3> QED BY <3>3 DEF tips
  <2>5. PICK g \in [D -> V] : Descends(g, D, {Top}, par, base, comb)
    BY <2>4
  <2>6. ASSUME NEW p \in D
        PROVE  g[p] = IF p = Top THEN {} ELSE {p} \cup g[ShownParent(p)]
    <3>1. g[p] = IF p \in {Top} THEN base[p] ELSE comb[p][g[par[p]]]
      BY <2>5 DEF Descends
    <3>2. CASE p = Top
      BY <3>1, <3>2
    <3>3. CASE p # Top
      <4>1. par[p] = ShownParent(p) /\ ShownParent(p) \in D
        BY <1>3, <3>3
      <4>2. g[ShownParent(p)] \in V
        BY <2>5, <4>1
      <4>3. comb[p][g[ShownParent(p)]] = {p} \cup g[ShownParent(p)]
        BY <3>3, <4>2
      <4> QED BY <3>1, <3>3, <4>1, <4>3
    <3> QED BY <3>2, <3>3
  <2> QED BY <2>5, <2>6
<1> DEFINE Lists(g) == g = [p \in D |-> IF p = Top THEN {} ELSE {p} \cup g[ShownParent(p)]]
           line == CHOOSE g : Lists(g)
<1>6. \E g : Lists(g)
  BY <1>5
<1>7. Lists(line)
  BY <1>6
<1>8. \A p : Line(p) = line[p]
  BY DEF Line
<1> HIDE DEF line
<1>9. line[Top] = {} /\ \A f \in Standing : line[f] = {f} \cup line[ShownParent(f)]
  BY <1>3, <1>7
<1> QED BY <1>8, <1>9

-----------------------------------------------------------------------------
(* What each request does to what is shown.                                  *)

LEMMA ForestNext ==
    ASSUME NEW n \in Nat, NEW level \in [Standing' -> 0 .. n],
           \A f \in Standing' : ShownParent(f)' \in Standing' =>
               level[ShownParent(f)'] < level[f]
    PROVE  Forest'
  BY DEF Forest, Nests

LEMMA ShownNext ==
    ASSUME NEW f PROVE OwnParent(f)' \in Places => ShownParent(f)' = Up(Standing')[OwnParent(f)']
  BY DEF ShownParent, LiveParent, Up, Climbs

LEMMA ShownSame ==
    ASSUME UNCHANGED <<stored, gone>>
    PROVE  /\ Standing' = Standing /\ (StoredStand => StoredStand') /\ (Forest => Forest')
           /\ \A f : ShownParent(f)' = ShownParent(f)
<1>1. Standing' = Standing
  BY DEF Standing
<1>2. \A f : ShownParent(f)' = ShownParent(f)
  BY <1>1 DEF ShownParent, OwnParent, LiveParent
<1>3. Forest => Forest'
  <2> SUFFICES ASSUME Forest PROVE Forest'
    OBVIOUS
  <2>1. PICK n \in Nat : \E level \in [Standing -> 0 .. n] : Nests(n, level)
    BY DEF Forest
  <2>2. PICK level \in [Standing -> 0 .. n] : Nests(n, level)
    BY <2>1
  <2> QED BY <1>1, <1>2, <2>2, ForestNext DEF Nests
<1> QED BY <1>1, <1>2, <1>3 DEF StoredStand

LEMMA PlacedKeeps ==
    ASSUME FoldersInv, UNCHANGED <<stored, gone>>,
           placed' \in [UniverseNames -> Places \cup {Unset}],
           deletion' \in [folder : Places, known : SUBSET UniverseNames]
    PROVE  FoldersInv'
  BY ShownSame DEF FoldersInv, PlacesTyped, FoldersTypeOK

LEMMA CreateKeeps ==
    ASSUME FoldersInv, NEW f \in UserFolders, NEW parent \in Places, CreateFolder(f, parent)
    PROVE  FoldersInv' /\ Standing' = Standing \cup {f}
<1>1. /\ PlacesTyped /\ StoredStand /\ Standing \in SUBSET Folders
      /\ f \in UserFolders \ Standing /\ f \in Folders \ Builtin
      /\ parent \in Standing \cup {Top} /\ Top \notin Folders /\ Unset \notin Places
      /\ stored' = [stored EXCEPT ![f] = parent] /\ UNCHANGED <<gone, placed, deletion>>
  BY StandingFacts, PlaceFacts DEF FoldersInv, CreateFolder, Standing, Folders, Places
<1>2. stored \in [Folders -> Places \cup {Unset}] /\ gone \subseteq Builtin
  BY <1>1 DEF PlacesTyped, FoldersTypeOK
<1>3. PlacesTyped'
  BY <1>1, <1>2 DEF PlacesTyped, FoldersTypeOK
<1>4. Standing' = Standing \cup {f}
  BY <1>1, <1>2 DEF Standing
<1>5. StoredStand'
  BY <1>1, <1>2, <1>4 DEF StoredStand
<1>6. /\ OwnParent(f)' = parent
      /\ \A g \in Standing : OwnParent(g)' = OwnParent(g) /\ OwnParent(g) \in Places \ {f}
  BY <1>1, <1>2, PlaceFacts DEF OwnParent, StoredStand, Folders, Places
<1>7. ShownParent(f)' = parent
  <2>1. Standing' \in SUBSET Folders /\ parent \in Standing' \cup {Top}
    BY <1>1, <1>4
  <2>2. Up(Standing')[parent] = parent
    BY <2>1, UpFacts
  <2> QED BY <1>6, <2>2, ShownNext
<1>8. ASSUME NEW g \in Standing PROVE ShownParent(g)' = ShownParent(g)
  <2>1. ShownParent(g)' = Up(Standing \cup {f})[OwnParent(g)]
    BY <1>4, <1>6, ShownNext
  <2>2. ShownParent(g) = Up(Standing)[OwnParent(g)]
    BY <1>1, ShownFacts
  <2>3. Up(Standing \cup {f})[OwnParent(g)] = Up(Standing)[OwnParent(g)]
    <3> DEFINE S == Standing
               q == OwnParent(g)
    <3>1. S \in SUBSET Folders /\ f \in UserFolders \ S /\ q \in Places \ {f}
      BY <1>1, <1>6
    <3> HIDE DEF S, q
    <3> QED BY <3>1, UpWith DEF S, q
  <2> QED BY <2>1, <2>2, <2>3
<1>9. Forest'
  <2>1. PICK n \in Nat : \E level \in [Standing -> 0 .. n] : Nests(n, level)
    BY DEF FoldersInv, Forest
  <2>2. PICK level \in [Standing -> 0 .. n] : Nests(n, level)
    BY <2>1
  <2> DEFINE deeper == [g \in Standing' |-> IF g = f THEN n + 1 ELSE level[g]]
  <2>3. n + 1 \in Nat /\ deeper \in [Standing' -> 0 .. n + 1]
    BY <1>4, <2>2
  <2>4. ASSUME NEW g \in Standing', ShownParent(g)' \in Standing'
        PROVE  deeper[ShownParent(g)'] < deeper[g]
    <3>1. CASE g = f
      <4>1. parent \in Standing /\ parent # f /\ deeper[parent] = level[parent]
        BY <1>1, <1>4, <1>7, <2>4, <3>1
      <4>2. level[parent] \in 0 .. n /\ deeper[g] = n + 1
        BY <2>2, <3>1, <4>1
      <4> QED BY <1>7, <3>1, <4>1, <4>2
    <3>2. CASE g # f
      <4>1. g \in Standing /\ deeper[g] = level[g]
        BY <1>4, <3>2
      <4>2. ShownParent(g)' = ShownParent(g) /\ ShownParent(g) \in Standing \cup {Top}
        BY <1>1, <1>8, <4>1, ShownFacts
      <4>3. ShownParent(g) \in Standing /\ ShownParent(g) # f
        BY <1>1, <1>4, <2>4, <4>2
      <4>4. level[ShownParent(g)] < level[g]
        BY <2>2, <4>1, <4>3 DEF Nests
      <4> QED BY <1>4, <4>1, <4>2, <4>3, <4>4
    <3> QED BY <3>1, <3>2
  <2> DEFINE m == n + 1
  <2>5. m \in Nat /\ deeper \in [Standing' -> 0 .. m]
    BY <2>3
  <2> HIDE DEF deeper, m
  <2> QED BY <2>4, <2>5, ForestNext
<1> QED BY <1>3, <1>4, <1>5, <1>9 DEF FoldersInv

(* A folder is put under one that is not inside it: those inside it go below *)
(* all others.                                                               *)
LEMMA UpdateKeeps ==
    ASSUME FoldersInv, NEW f \in Folders, NEW parent, UpdateFolder(f, parent)
    PROVE  FoldersInv' /\ Standing' = Standing
<1>1. /\ PlacesTyped /\ StoredStand /\ Standing \in SUBSET Folders
      /\ f \in Standing /\ f \notin Line(parent)
      /\ parent \in Standing \cup {Top} /\ parent \in Places /\ Top \notin Folders
      /\ Unset \notin Places
      /\ stored' = [stored EXCEPT ![f] = parent] /\ UNCHANGED <<gone, placed, deletion>>
  BY StandingFacts, PlaceFacts DEF FoldersInv, UpdateFolder, Standing, Folders, Places
<1>2. stored \in [Folders -> Places \cup {Unset}] /\ gone \subseteq Builtin
  BY <1>1 DEF PlacesTyped, FoldersTypeOK
<1>3. Standing' = Standing
  BY <1>1, <1>2 DEF Standing
<1>4. PlacesTyped'
  <2>1. f \notin gone
    BY <1>1 DEF Standing
  <2> QED BY <1>1, <1>2, <2>1 DEF PlacesTyped, FoldersTypeOK
<1>5. StoredStand'
  BY <1>1, <1>2, <1>3 DEF StoredStand
<1>6. ShownParent(f)' = parent
  <2>1. OwnParent(f)' = parent
    BY <1>1, <1>2 DEF OwnParent
  <2>2. Up(Standing)[parent] = parent
    BY <1>1, UpFacts
  <2> QED BY <1>1, <1>3, <2>1, <2>2, ShownNext
<1>7. ASSUME NEW g \in Standing \ {f} PROVE ShownParent(g)' = ShownParent(g)
  <2>1. OwnParent(g)' = OwnParent(g) /\ OwnParent(g) \in Places
    BY <1>1, <1>2, OwnIsAPlace DEF OwnParent
  <2> QED BY <1>1, <1>3, <2>1, ShownNext, ShownFacts
<1>8. Forest'
  <2>1. PICK n \in Nat : \E level \in [Standing -> 0 .. n] : Nests(n, level)
    BY DEF FoldersInv, Forest
  <2>2. PICK level \in [Standing -> 0 .. n] : Nests(n, level)
    BY <2>1
  <2> DEFINE deeper == [g \in Standing |-> IF f \in Line(g) THEN level[g] + n + 1 ELSE level[g]]
             m == n + n + 1
  <2>3. /\ Line(Top) = {}
        /\ \A g \in Standing : Line(g) = {g} \cup Line(ShownParent(g))
    BY <1>1, LineFacts DEF FoldersInv
  <2>4. m \in Nat /\ deeper \in [Standing' -> 0 .. m]
    BY <1>3, <2>2
  <2>5. ASSUME NEW g \in Standing', ShownParent(g)' \in Standing'
        PROVE  deeper[ShownParent(g)'] < deeper[g]
    <3>1. g \in Standing /\ level[g] \in 0 .. n
      BY <1>3, <2>2
    <3>2. CASE g = f
      <4>1. parent \in Standing /\ level[parent] \in 0 .. n
        BY <1>1, <1>3, <1>6, <2>2, <2>5, <3>2
      <4>2. f \in Line(f)
        BY <1>1, <2>3
      <4>3. deeper[parent] = level[parent] /\ deeper[f] = level[f] + n + 1
        BY <1>1, <4>1, <4>2
      <4>4. ShownParent(g)' = parent
        BY <1>6, <3>2
      <4> HIDE DEF deeper
      <4> QED BY <3>1, <3>2, <4>1, <4>3, <4>4
    <3>3. CASE g # f
      <4> DEFINE above == ShownParent(g)
      <4>1. ShownParent(g)' = above
        BY <1>7, <3>1, <3>3
      <4>2. above \in Standing
        BY <1>3, <2>5, <4>1
      <4>3. level[above] < level[g] /\ level[above] \in 0 .. n
        BY <2>2, <3>1, <4>2 DEF Nests
      <4>4. f \in Line(g) <=> f \in Line(above)
        BY <2>3, <3>1, <3>3
      <4>5. deeper[above] < deeper[g]
        <5> HIDE DEF above
        <5>1. CASE f \in Line(g)
          <6>1. deeper[g] = level[g] + n + 1 /\ deeper[above] = level[above] + n + 1
            BY <3>1, <4>2, <4>4, <5>1
          <6> HIDE DEF deeper
          <6> QED BY <3>1, <4>3, <6>1
        <5>2. CASE f \notin Line(g)
          <6>1. deeper[g] = level[g] /\ deeper[above] = level[above]
            BY <3>1, <4>2, <4>4, <5>2
          <6> HIDE DEF deeper
          <6> QED BY <4>3, <6>1
        <5> QED BY <5>1, <5>2
      <4> HIDE DEF deeper, above
      <4> QED BY <4>1, <4>5
    <3> QED BY <3>2, <3>3
  <2> HIDE DEF deeper, m
  <2> QED BY <2>4, <2>5, ForestNext
<1> QED BY <1>3, <1>4, <1>5, <1>8 DEF FoldersInv

(* A folder goes: those in it are shown where it was, and so are universes.  *)
LEMMA DeleteMoves ==
    ASSUME FoldersInv, DeleteFolder
    PROVE  LET f == deletion.folder
               to == ShownParent(f)
           IN  /\ f \in Standing /\ Standing' = Standing \ {f}
               /\ to \in Standing' \cup {Top} /\ PlacesTyped' /\ StoredStand'
               /\ \A g \in Standing' :
                     ShownParent(g)' = IF ShownParent(g) = f THEN to ELSE ShownParent(g)
               /\ \A u \in deletion.known :
                     ShownPlace(u)' = IF ShownPlace(u) = f THEN to ELSE ShownPlace(u)
<1> DEFINE f == deletion.folder
           to == ShownParent(f)
<1>1. /\ PlacesTyped /\ StoredStand /\ Standing \in SUBSET Folders /\ f \in Standing
      /\ f \in Folders /\ Unset \notin Places /\ Top \notin Folders
  BY StandingFacts, PlaceFacts DEF FoldersInv, DeleteFolder, Folders
<1>2. /\ stored \in [Folders -> Places \cup {Unset}] /\ gone \subseteq Builtin
      /\ placed \in [UniverseNames -> Places \cup {Unset}]
      /\ deletion.known \subseteq UniverseNames /\ NoDeletion.known \subseteq UniverseNames
      /\ NoDeletion \in [folder : Places, known : SUBSET UniverseNames]
  BY <1>1 DEF PlacesTyped, FoldersTypeOK, NoDeletion, Places
<1>3. to \in Standing \cup {Top} /\ to # f
  <2>1. PICK n \in Nat : \E level \in [Standing -> 0 .. n] : Nests(n, level)
    BY DEF FoldersInv, Forest
  <2>2. PICK level \in [Standing -> 0 .. n] : Nests(n, level)
    BY <2>1
  <2>3. to \in Standing => level[to] < level[f] /\ level[f] \in 0 .. n
    BY <1>1, <2>2 DEF Nests
  <2>4. to \in Standing \cup {Top}
    BY <1>1, ShownFacts
  <2> HIDE DEF f, to
  <2>5. to # f
    BY <1>1, <2>3
  <2> QED BY <2>4, <2>5
<1>4. /\ stored' = [g \in Folders |->
                      IF g = f THEN Unset
                      ELSE IF g \in Standing /\ ShownParent(g) = f THEN to
                      ELSE stored[g]]
      /\ placed' = [u \in UniverseNames |->
                      IF u \in deletion.known /\ ShownPlace(u) = f THEN to
                      ELSE placed[u]]
      /\ gone' = gone \cup ({f} \cap Builtin) /\ deletion' = NoDeletion
  BY DEF DeleteFolder
<1>5. to \in Places
  BY <1>1, <1>3 DEF Places
<1> HIDE DEF f, to
<1>6. PlacesTyped'
  <2>1. stored' \in [Folders -> Places \cup {Unset}]
    BY <1>2, <1>4, <1>5
  <2>2. placed' \in [UniverseNames -> Places \cup {Unset}]
    BY <1>2, <1>4, <1>5
  <2>3. ASSUME NEW g \in gone' PROVE stored'[g] = Unset
    <3>1. CASE g = f
      BY <1>1, <1>4, <3>1
    <3>2. CASE g # f
      <4>1. g \in gone /\ g \in Folders /\ g \notin Standing
        BY <1>2, <1>4, <3>2 DEF Standing, Folders
      <4> QED BY <1>1, <1>4, <3>2, <4>1 DEF PlacesTyped
    <3> QED BY <3>1, <3>2
  <2> QED BY <1>2, <1>4, <2>1, <2>2, <2>3 DEF PlacesTyped, FoldersTypeOK
<1>7. Standing' = Standing \ {f}
  <2>1. ASSUME NEW g \in Folders PROVE g \in Standing' <=> g \in Standing /\ g # f
    <3>1. CASE g = f
      BY <1>1, <1>4, <3>1 DEF Standing
    <3>2. CASE g # f
      <4>1. g \in gone' <=> g \in gone
        BY <1>4, <3>2
      <4>2. CASE g \in Standing
        BY <1>1, <1>4, <1>5, <3>2, <4>1, <4>2 DEF Standing
      <4>3. CASE g \notin Standing
        BY <1>1, <1>4, <3>2, <4>1, <4>3 DEF Standing
      <4> QED BY <4>2, <4>3
    <3> QED BY <3>1, <3>2
  <2>2. Standing' \subseteq Folders
    BY DEF Standing
  <2> QED BY <1>1, <2>1, <2>2
<1>8. to \in Standing' \cup {Top}
  BY <1>3, <1>7
<1>9. StoredStand'
  <2>1. ASSUME NEW g \in Folders PROVE stored'[g] \in Standing' \cup {Top, Unset}
    <3>1. CASE g = f \/ (g \in Standing /\ ShownParent(g) = f)
      BY <1>4, <1>8, <3>1
    <3>2. CASE g # f /\ ~(g \in Standing /\ ShownParent(g) = f)
      <4>1. stored'[g] = stored[g] /\ stored[g] \in Standing \cup {Top, Unset}
        BY <1>1, <1>4, <3>2 DEF StoredStand
      <4>2. stored[g] # f
        <5>1. CASE g \in Standing
          <6>1. ASSUME stored[g] = f PROVE FALSE
            <7>1. OwnParent(g) = f
              BY <1>1, <6>1 DEF OwnParent, Places
            <7>2. ShownParent(g) = f
              BY <1>1, <7>1, ShownFacts, UpFacts
            <7> QED BY <3>2, <5>1, <7>2
          <6> QED BY <6>1
        <5>2. CASE g \notin Standing
          BY <1>1, <5>2, StandingFacts DEF Places
        <5> QED BY <5>1, <5>2
      <4> QED BY <1>7, <4>1, <4>2
    <3> QED BY <3>1, <3>2
  <2> QED BY <2>1 DEF StoredStand
<1>10. Up(Standing')[to] = to
  <2>1. Standing' \in SUBSET Folders
    BY <1>1, <1>7
  <2> QED BY <1>8, <2>1, UpFacts
<1>11. ASSUME NEW q \in Places, Up(Standing)[q] # f
       PROVE  Up(Standing')[q] = Up(Standing)[q]
  <2> DEFINE S == Standing
  <2>1. S \in SUBSET Folders /\ f \in S /\ Up(S)[q] # f /\ Standing' = S \ {f}
    BY <1>1, <1>7, <1>11
  <2> HIDE DEF S
  <2>2. Up(S \ {f})[q] = Up(S)[q]
    BY <2>1, UpWithout
  <2> QED BY <2>1, <2>2 DEF S
<1>12. ASSUME NEW g \in Standing'
       PROVE  ShownParent(g)' = IF ShownParent(g) = f THEN to ELSE ShownParent(g)
  <2>1. g \in Folders /\ g \in Standing /\ g # f
    BY <1>1, <1>7
  <2>2. OwnParent(g) \in Places /\ ShownParent(g) = Up(Standing)[OwnParent(g)]
    BY <1>1, <2>1, ShownFacts, OwnIsAPlace
  <2>3. CASE ShownParent(g) = f
    <3>1. OwnParent(g)' = to
      BY <1>1, <1>4, <1>5, <2>1, <2>3 DEF OwnParent
    <3> QED BY <1>5, <1>10, <2>3, <3>1, ShownNext
  <2>4. CASE ShownParent(g) # f
    <3>1. OwnParent(g)' = OwnParent(g)
      BY <1>4, <2>1, <2>4 DEF OwnParent
    <3> QED BY <1>11, <2>2, <2>4, <3>1, ShownNext
  <2> QED BY <2>3, <2>4
<1>13. ASSUME NEW u \in deletion.known
       PROVE  ShownPlace(u)' = IF ShownPlace(u) = f THEN to ELSE ShownPlace(u)
  <2>1. u \in UniverseNames
    BY <1>2
  <2>2. OwnPlace(u) \in Places /\ ShownPlace(u) = Up(Standing)[OwnPlace(u)]
    BY <1>1, <2>1, ShownPlaceIsUp
  <2>3. ShownPlace(u)' = Up(Standing')[OwnPlace(u)']
    BY <1>6, <2>1, ShownPlaceNext
  <2>4. CASE ShownPlace(u) = f
    <3>1. OwnPlace(u)' = to
      BY <1>1, <1>4, <1>5, <2>1, <2>4 DEF OwnPlace
    <3> QED BY <1>10, <2>3, <2>4, <3>1
  <2>5. CASE ShownPlace(u) # f
    <3>1. OwnPlace(u)' = OwnPlace(u)
      BY <1>4, <2>1, <2>5 DEF OwnPlace
    <3> QED BY <1>11, <2>2, <2>3, <2>5, <3>1
  <2> QED BY <2>4, <2>5
<1> QED BY <1>1, <1>6, <1>7, <1>8, <1>9, <1>12, <1>13 DEF f, to

(* A step that is no deletion leaves every folder standing.                  *)
LEMMA RequestKeepsFolders ==
    ASSUME IInv, FoldersInv, NEW p \in Procs, FolderRequest(p)
    PROVE  FoldersInv' /\ Standing \subseteq Standing'
<1> DEFINE Keeps == FoldersInv' /\ Standing \subseteq Standing'
<1>1. ASSUME NEW f \in UserFolders, NEW parent \in Places, CreateFolder(f, parent) PROVE Keeps
  BY <1>1, CreateKeeps
<1>2. ASSUME NEW f \in Folders, NEW parent, UpdateFolder(f, parent) PROVE Keeps
  BY <1>2, UpdateKeeps
<1>3. ASSUME NEW f \in Folders, RenameFolder(f) PROVE Keeps
  BY <1>2, <1>3 DEF RenameFolder
<1>4. FoldersTypeOK
  BY DEF FoldersInv, PlacesTyped
<1>5. ASSUME NEW f \in Folders, AskDeletion(f, Known(p)) PROVE Keeps
  <2>1. loaded[p] \in [Names \ {Reserved} -> Contents \cup {NoFile}]
    BY DEF IInv, MemoryOK
  <2>2. Known(p) \subseteq UniverseNames
    BY <2>1, HomeAssumption DEF Known, UniverseNames
  <2>3. /\ deletion' \in [folder : Places, known : SUBSET UniverseNames]
        /\ UNCHANGED <<stored, gone>>
        /\ placed' \in [UniverseNames -> Places \cup {Unset}]
    BY <1>4, <1>5, <2>2 DEF AskDeletion, FoldersTypeOK, Places
  <2> QED BY <2>3, PlacedKeeps, ShownSame
<1>6. ASSUME NEW u \in Known(p), NEW place \in Places, MoveUniverses({u}, place) PROVE Keeps
  <2>1. /\ deletion' \in [folder : Places, known : SUBSET UniverseNames]
        /\ UNCHANGED <<stored, gone>>
        /\ placed' \in [UniverseNames -> Places \cup {Unset}]
    BY <1>4, <1>6 DEF MoveUniverses, FoldersTypeOK
  <2> QED BY <2>1, PlacedKeeps, ShownSame
<1> QED BY <1>1, <1>2, <1>3, <1>5, <1>6 DEF FolderRequest

LEMMA RefuseKeepsFolders ==
    ASSUME FoldersInv, RefuseDeletion
    PROVE  FoldersInv' /\ Standing \subseteq Standing'
<1>1. FoldersTypeOK
  BY DEF FoldersInv, PlacesTyped
<1>2. /\ deletion' \in [folder : Places, known : SUBSET UniverseNames]
      /\ UNCHANGED <<stored, gone>>
      /\ placed' \in [UniverseNames -> Places \cup {Unset}]
  BY <1>1 DEF RefuseDeletion, NoDeletion, FoldersTypeOK, Places
<1> QED BY <1>2, PlacedKeeps, ShownSame

LEMMA RemovedKeepsFolders ==
    ASSUME FoldersInv, NEW p \in Procs, UniverseRemoved(p)
    PROVE  FoldersInv' /\ Standing \subseteq Standing'
<1>1. FoldersTypeOK
  BY DEF FoldersInv, PlacesTyped
<1>2. /\ deletion' \in [folder : Places, known : SUBSET UniverseNames]
      /\ UNCHANGED <<stored, gone>>
      /\ placed' \in [UniverseNames -> Places \cup {Unset}]
  BY <1>1 DEF UniverseRemoved, ForgetUniverse, FoldersTypeOK
<1> QED BY <1>2, PlacedKeeps, ShownSame

LEMMA DeleteKeeps ==
    ASSUME FoldersInv, DeleteFolder
    PROVE  FoldersInv'
<1> DEFINE f == deletion.folder
           to == ShownParent(f)
<1>1. /\ f \in Standing /\ Standing' = Standing \ {f}
      /\ to \in Standing' \cup {Top} /\ PlacesTyped' /\ StoredStand'
      /\ \A g \in Standing' :
            ShownParent(g)' = IF ShownParent(g) = f THEN to ELSE ShownParent(g)
  BY DeleteMoves
<1>2. PICK n \in Nat : \E level \in [Standing -> 0 .. n] : Nests(n, level)
  BY DEF FoldersInv, Forest
<1>3. PICK level \in [Standing -> 0 .. n] : Nests(n, level)
  BY <1>2
<1> HIDE DEF f
<1>4. ASSUME NEW g \in Standing', ShownParent(g)' \in Standing'
      PROVE  level[ShownParent(g)'] < level[g]
  <2>1. g \in Standing /\ level[g] \in 0 .. n /\ level[f] \in 0 .. n
    BY <1>1, <1>3
  <2>2. CASE ShownParent(g) = f
    <3>1. to \in Standing /\ ShownParent(g)' = to
      BY <1>1, <1>4, <2>2
    <3>2. level[to] < level[f] /\ level[f] < level[g] /\ level[to] \in 0 .. n
      BY <1>1, <1>3, <2>1, <2>2, <3>1 DEF Nests
    <3> HIDE DEF to
    <3> QED BY <2>1, <3>1, <3>2
  <2>3. CASE ShownParent(g) # f
    <3>1. ShownParent(g)' = ShownParent(g) /\ ShownParent(g) \in Standing
      BY <1>1, <1>4, <2>3
    <3> QED BY <1>3, <2>1, <3>1 DEF Nests
  <2> QED BY <2>2, <2>3
<1> DEFINE rest == [g \in Standing' |-> level[g]]
<1>5. rest \in [Standing' -> 0 .. n]
  BY <1>1, <1>3
<1>6. \A g \in Standing' : ShownParent(g)' \in Standing' => rest[ShownParent(g)'] < rest[g]
  BY <1>4
<1> HIDE DEF rest
<1>7. Forest'
  BY <1>5, <1>6, ForestNext
<1> QED BY <1>1, <1>7 DEF FoldersInv

LEMMA FoldersInductive ==
    ASSUME IInv, FoldersInv, [Next]_homeVars
    PROVE  FoldersInv' /\ (Standing \subseteq Standing' \/ DeleteFolder)
<1> DEFINE Keeps == FoldersInv' /\ (Standing \subseteq Standing' \/ DeleteFolder)
<1>1. UNCHANGED folderVars => Keeps
  <2> SUFFICES ASSUME UNCHANGED folderVars PROVE Keeps
    OBVIOUS
  <2>1. UNCHANGED <<stored, gone, placed, deletion>>
    BY DEF folderVars
  <2>2. Standing' = Standing
    BY <2>1, ShownSame
  <2>3. FoldersInv'
    BY <2>1, PlacedKeeps DEF FoldersInv, PlacesTyped, FoldersTypeOK
  <2> QED BY <2>2, <2>3
<1>2. ASSUME NEW p \in Procs, UniverseRequest(p) \/ UniverseStep(p) \/ UniverseUsed(p)
      PROVE  Keeps
  BY <1>1, <1>2 DEF UniverseRequest, UniverseStep, UniverseUsed, UniversesAlone
<1>3. ASSUME NEW p \in Procs, UniverseRemoved(p) PROVE Keeps
  BY <1>3, RemovedKeepsFolders
<1>4. ASSUME NEW p \in Procs, FolderRequest(p) PROVE Keeps
  BY <1>4, RequestKeepsFolders
<1>5. CASE FolderStep
  BY <1>5, DeleteKeeps, RefuseKeepsFolders DEF FolderStep
<1>6. ASSUME NEW j \in Jobs, PriceRequest(j) \/ PriceStep(j) PROVE Keeps
  BY <1>1, <1>6 DEF PriceRequest, PriceStep, PricesAlone, SignalsAlone
<1>7. ASSUME NEW q \in Asks, SignalRequest(q) \/ SignalJobStep(q) PROVE Keeps
  BY <1>1, <1>7 DEF SignalRequest, SignalJobStep, SignalsAlone
<1>8. CASE PricesRestart \/ Tomorrow \/ UNCHANGED homeVars
  BY <1>1, <1>8 DEF PricesRestart, Tomorrow, PricesAlone, SignalsAlone, homeVars
<1> QED BY <1>2, <1>3, <1>4, <1>5, <1>6, <1>7, <1>8 DEF Next

LEMMA FoldersInitial == ASSUME FoldersInit PROVE FoldersInv
<1>1. PlacesTyped /\ Standing = Builtin
  BY PlaceFacts DEF FoldersInit, PlacesTyped, FoldersTypeOK, NoDeletion, Places, Standing,
                    Folders
<1>2. StoredStand
  BY DEF FoldersInit, StoredStand
<1>3. PICK n \in Nat : \E level \in [Places -> 0 .. n] :
         \A f \in Builtin : level[DefaultParent[f]] < level[f]
  BY LevelsExist
<1>4. PICK level \in [Places -> 0 .. n] : \A f \in Builtin : level[DefaultParent[f]] < level[f]
  BY <1>3
<1>5. ASSUME NEW f \in Builtin PROVE ShownParent(f) = DefaultParent[f]
  <2>1. f \in Folders /\ OwnParent(f) = DefaultParent[f]
    BY PlaceFacts DEF FoldersInit, OwnParent, Folders
  <2>2. Builtin \in SUBSET Folders /\ DefaultParent[f] \in Builtin \cup {Top}
    BY PlaceFacts DEF Folders
  <2> QED BY <1>1, <2>1, <2>2, ShownFacts, UpFacts
<1> DEFINE rank == [f \in Builtin |-> level[f]]
<1>6. rank \in [Standing -> 0 .. n]
  BY <1>1, <1>4, PlaceFacts
<1>7. \A f \in Standing : ShownParent(f) \in Standing => rank[ShownParent(f)] < rank[f]
  BY <1>1, <1>4, <1>5
<1> HIDE DEF rank
<1>8. Forest
  BY <1>3, <1>6, <1>7 DEF Forest, Nests
<1> QED BY <1>1, <1>2, <1>8 DEF FoldersInv

(* Folders nest in folders that stand, and what is stored of one is of a folder *)
(* that stands (create_folder, update_folder, delete_folder).                *)
THEOREM FoldersCorrect == Spec => []FoldersInv
<1>1. Init => FoldersInv
  BY FoldersInitial DEF Init
<1>2. IInv /\ FoldersInv /\ [Next]_homeVars => FoldersInv'
  BY FoldersInductive
<1> QED BY <1>1, <1>2, UniversesCorrect, PTL DEF Spec

(* Whatever is created, moved and deleted, no folder is inside itself, so    *)
(* _effective_folders never finds a cycle that it would break.               *)
THEOREM FoldersNest == Spec => []Forest
  BY FoldersCorrect, PTL DEF FoldersInv

(* Universes, folders, prices and signals keep their types.                  *)
THEOREM HomeTypesCorrect == Spec => []DataTypeOK
<1>1. FoldersInv => FoldersTypeOK
  BY DEF FoldersInv, PlacesTyped
<1>2. UniversesTypeOK /\ PricesTypeOK /\ SignalsTypeOK /\ FoldersTypeOK => DataTypeOK
  BY DEF DataTypeOK
<1> QED BY <1>1, <1>2, FoldersCorrect, TypesCorrect, PTL

(* What is shown directly in a folder that is deleted, folder or universe,   *)
(* is shown where the folder was, and no other folder and no other universe  *)
(* the deletion was told of moves (delete_folder).                           *)
THEOREM DeletionCorrect == Spec => DeletedFolderMovesUp
<1> DEFINE Moved ==
       \A f \in Standing \ Standing' :
          LET to == ShownParent(f) IN
          /\ \A g \in Standing \ {f} :
                /\ g \in Standing'
                /\ ShownParent(g)' = IF ShownParent(g) = f THEN to ELSE ShownParent(g)
          /\ \A u \in deletion.known :
                ShownPlace(u)' = IF ShownPlace(u) = f THEN to ELSE ShownPlace(u)
<1>1. IInv /\ FoldersInv /\ [Next]_homeVars => Moved
  <2> SUFFICES ASSUME IInv, FoldersInv, [Next]_homeVars PROVE Moved
    OBVIOUS
  <2>1. CASE Standing \subseteq Standing'
    BY <2>1
  <2>2. CASE DeleteFolder
    BY <2>2, DeleteMoves
  <2> QED BY <2>1, <2>2, FoldersInductive
<1>2. IInv /\ FoldersInv /\ [Next]_homeVars => [Moved]_folderVars
  BY <1>1
<1> QED BY <1>2, UniversesCorrect, FoldersCorrect, PTL DEF Spec, DeletedFolderMovesUp
=============================================================================
