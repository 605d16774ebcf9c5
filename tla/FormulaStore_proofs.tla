------------------------- MODULE FormulaStore_proofs -------------------------
(***************************************************************************)
(* Proofs about formulas and their revisions (module FormulaStore): for    *)
(* any families, bodies, threads, requests and restarts, with one thread   *)
(* that edits, a published revision never gets another body, a deletion    *)
(* takes nothing away that a formula it read uses, a live run keeps what   *)
(* it pinned, and a test ran the revisions it records unless it ran a body  *)
(* that a client brought under the name of one.                             *)
(*                                                                          *)
(* Requests write documents they read earlier, so the document goes back   *)
(* and forth.  What makes it harmless is an order between the copies that  *)
(* are under way: a deletion's copy is a part of the document, the         *)
(* document is a part of an editor's copy (SubStore), and all agree on the *)
(* packaged catalog, which nobody needs to merge while somebody has a      *)
(* copy.                                                                    *)
(***************************************************************************)
EXTENDS FormulaStore, FiniteSetTheorems, WellFoundedInduction, TLAPS

OneEditor == \A a, b \in Editors : a = b

Editing(e) == pc[e] \in {"edit", "register", "write"}
Deleting(d) == pc[d] \in {"delete", "remove"}
Holds(t) == pc[t] \in {"edit", "register", "write", "delete", "remove", "load", "load_test"}

SameManaged(x, y) == \A n \in Runtimes : n[1] \in Managed => x[n] = y[n]
SubStore(x, y) == \A n \in Runtimes : n[1] \notin Managed /\ x[n] # None => x[n] = y[n]

DocOK(d) == d \in MaybeBodies /\ Contiguous(d) /\ ManagedStandAlone(d)

(* Where a thread of each kind may be.                                       *)
Label(t) ==
    IF t \in Editors THEN {"idle", "edit", "register", "write"}
    ELSE IF t \in Deleters THEN {"idle", "delete", "remove"}
    ELSE IF t \in Readers THEN {"idle", "load", "load_test", "resolve", "expand"}
    ELSE IF t \in Runs THEN {"idle", "load", "pin"}
    ELSE {"idle", "load", "pin", "save", "extend"}

PlacesOK == \A t \in Threads : pc[t] \in Label(t)

LockOK ==
    /\ \A d \in Deleters : Deleting(d) => lock = d
    /\ \A j \in Runs : pc[j] \in {"load", "pin"} => lock = j

(* Whoever has a copy has the catalog as the document has it, merged.        *)
CopiesOK ==
    \A t \in Threads : Holds(t) => DocOK(copy[t]) /\ SameManaged(copy[t], doc) /\ Merged

EditsOK ==
    \A e \in Editors : Editing(e) =>
        /\ draft[e].family \in Families \ Managed /\ draft[e].body \in Body
        /\ SubStore(doc, copy[e])

(* What an edit is about to write has all the document has.                  *)
PlanOK(e) ==
    /\ \A n \in Runtimes : n[1] \in Managed => plan[e][n] = None
    /\ DocOK(Overlay(copy[e], plan[e]))
    /\ SubStore(doc, Overlay(copy[e], plan[e]))

PlansOK == \A e \in Editors : pc[e] \in {"register", "write"} => PlanOK(e)

(* No formula that a deletion is about to write back uses one it takes away. *)
Spared(d, f) ==
    \A n \in Runtimes : d[n] # None /\ n[1] # f =>
        \A m \in d[n].uses : m[1] = f => d[m] = None

DeletesOK ==
    \A d \in Deleters : Deleting(d) =>
        /\ draft[d].family \in Families \ Managed
        /\ SubStore(copy[d], doc)
        /\ pc[d] = "remove" => Spared(copy[d], draft[d].family)

PinsOK ==
    \A j \in Runs : jobs[j] = "live" =>
        \A n \in pins[j] : n \in Runtimes /\ (n[1] \in Managed => doc[n] # None)

StoreInv ==
    /\ DocOK(doc) /\ PlacesOK /\ LockOK /\ CopiesOK
    /\ EditsOK /\ PlansOK /\ DeletesOK /\ PinsOK

core == <<doc, packaged, lock, pc, copy, draft, plan, jobs, pins>>

IInv == TypeOK /\ StoreInv

-----------------------------------------------------------------------------
(* Documents.                                                                *)

LEMMA HasGreatest ==
    ASSUME NEW S \in SUBSET Nat, NEW n \in Nat, S # {}, \A x \in S : x <= n
    PROVE  \E x \in S : \A y \in S : y <= x
<1> DEFINE T == {n - x : x \in S}
           R == OpToRel(<, Nat)
<1>1. \A x \in S : n - x \in Nat
  OBVIOUS
<1>2. T \in SUBSET Nat /\ T # {}
  BY <1>1
<1>3. IsWellFoundedOn(R, Nat)
  BY NatLessThanWellFounded
<1>4. \A i, j \in Nat : i < j => <<i, j>> \in R
  BY DEF OpToRel
<1> HIDE DEF R
<1>5. PICK t \in T : \A u \in T : <<u, t>> \notin R
  BY <1>2, <1>3, WFMin
<1>6. PICK x \in S : t = n - x
  OBVIOUS
<1>7. ASSUME NEW y \in S PROVE y <= x
  <2>1. n - y \in T /\ n - y \in Nat /\ t \in Nat
    BY <1>1, <1>2
  <2>2. ~(n - y < t)
    BY <1>4, <1>5, <2>1
  <2> QED BY <1>6, <2>1, <2>2
<1> QED BY <1>7

LEMMA RuntimeFacts ==
    /\ MaxRevision \in Nat /\ 1 \in Revisions /\ Revisions \subseteq Nat
    /\ \A r \in Revisions : 1 <= r /\ r <= MaxRevision
    /\ \A n \in Runtimes : n[1] \in Families /\ n[2] \in Revisions /\ n = <<n[1], n[2]>>
    /\ \A f \in Families, r \in Revisions : <<f, r>> \in Runtimes
    /\ None \notin Body
  BY FormulaAssumption DEF Revisions, Runtimes

LEMMA LatestIsGreatest ==
    ASSUME NEW d, NEW f \in Known(d)
    PROVE  /\ Latest(d, f) \in Revisions /\ d[LatestName(d, f)] # None
           /\ LatestName(d, f) \in Runtimes /\ f \in Families
           /\ \A r \in Revisions : d[<<f, r>>] # None => r <= Latest(d, f)
<1>1. Published(d, f) \in SUBSET Nat /\ Published(d, f) # {} /\ MaxRevision \in Nat
      /\ \A x \in Published(d, f) : x <= MaxRevision
  BY RuntimeFacts DEF Known, Published
<1>2. \E r \in Published(d, f) : \A s \in Published(d, f) : s <= r
  BY <1>1, HasGreatest
<1>3. Latest(d, f) \in Published(d, f) /\ \A s \in Published(d, f) : s <= Latest(d, f)
  BY <1>2 DEF Latest
<1>4. f \in Families
  BY DEF Known
<1> QED BY <1>3, <1>4, RuntimeFacts DEF Published, LatestName

(* The next revision of a family is not in the document.                     *)
LEMMA NextIsNew ==
    ASSUME NEW d, NEW f \in Families, NextRevision(d, f) \in Revisions
    PROVE  /\ <<f, NextRevision(d, f)>> \in Runtimes /\ d[<<f, NextRevision(d, f)>>] = None
           /\ NextRevision(d, f) = 1
              \/ (NextRevision(d, f) - 1 \in Revisions
                  /\ d[<<f, NextRevision(d, f) - 1>>] # None)
<1>1. CASE f \in Known(d)
  <2>1. /\ Latest(d, f) \in Revisions /\ d[<<f, Latest(d, f)>>] # None
        /\ \A r \in Revisions : d[<<f, r>>] # None => r <= Latest(d, f)
    BY <1>1, LatestIsGreatest DEF LatestName
  <2>2. NextRevision(d, f) = Latest(d, f) + 1
    BY <1>1 DEF NextRevision
  <2>3. Latest(d, f) \in Nat
    BY <2>1, RuntimeFacts
  <2>4. NextRevision(d, f) - 1 = Latest(d, f) /\ ~(NextRevision(d, f) <= Latest(d, f))
    BY <2>2, <2>3
  <2> QED BY <2>1, <2>4, RuntimeFacts
<1>2. CASE f \notin Known(d)
  <2>1. NextRevision(d, f) = 1 /\ d[<<f, 1>>] = None
    BY <1>2, RuntimeFacts DEF NextRevision, Known, Published
  <2> QED BY <2>1, RuntimeFacts
<1> QED BY <1>1, <1>2

(* What is said of the catalog depends on the managed families alone.        *)
LEMMA MergedAgrees ==
    ASSUME NEW x, NEW y, SameManaged(x, y), NEW m \in Managed
    PROVE  /\ m \in Known(x) <=> m \in Known(y)
           /\ Latest(x, m) = Latest(y, m)
           /\ m \in Known(x) => LatestBody(x, m) = LatestBody(y, m)
<1>1. m \in Families
  BY FormulaAssumption
<1>2. \A r \in Revisions : x[<<m, r>>] = y[<<m, r>>]
  <2> SUFFICES ASSUME NEW r \in Revisions PROVE x[<<m, r>>] = y[<<m, r>>]
    OBVIOUS
  <2>1. <<m, r>> \in Runtimes /\ <<m, r>>[1] = m
    BY <1>1, RuntimeFacts
  <2> QED BY <2>1 DEF SameManaged
<1>3. Published(x, m) = Published(y, m)
  BY <1>2 DEF Published
<1>4. Latest(x, m) = Latest(y, m)
  BY <1>3 DEF Latest
<1>5. m \in Known(x) <=> m \in Known(y)
  BY <1>3 DEF Known
<1>6. ASSUME m \in Known(x) PROVE LatestBody(x, m) = LatestBody(y, m)
  <2>1. LatestName(x, m) = LatestName(y, m) /\ LatestName(x, m) = <<m, Latest(x, m)>>
        /\ Latest(x, m) \in Revisions
    BY <1>4, <1>6, LatestIsGreatest DEF LatestName
  <2> QED BY <1>2, <2>1 DEF LatestBody
<1> QED BY <1>4, <1>5, <1>6

LEMMA MergedStays ==
    ASSUME Merged, SameManaged(doc, doc'), UNCHANGED packaged
    PROVE  Merged'
<1> SUFFICES ASSUME NEW m \in Managed, NeedsMerge(m)' PROVE NeedsMerge(m)
  BY DEF Merged
<1>1. /\ m \in Known(doc) <=> m \in Known(doc')
      /\ m \in Known(doc) => LatestBody(doc, m) = LatestBody(doc', m)
  BY MergedAgrees
<1>2. CASE m \in Known(doc)
  <2>1. m \in Known(doc') /\ LatestBody(doc, m) = LatestBody(doc', m)
    BY <1>1, <1>2
  <2>2. CatalogBody(m)' = CatalogBody(m)
    BY <2>1 DEF CatalogBody
  <2> QED BY <1>2, <2>1, <2>2 DEF NeedsMerge
<1>3. CASE m \notin Known(doc)
  BY <1>1, <1>3 DEF NeedsMerge
<1> QED BY <1>2, <1>3

-----------------------------------------------------------------------------
(* Steps that leave the document alone.                                      *)

LEMMA ThreadFacts ==
    /\ \A e \in Editors : e \in Threads /\ e \notin Deleters \cup Readers \cup Runs \cup Sessions
    /\ \A d \in Deleters : d \in Threads /\ d \notin Editors \cup Readers \cup Runs \cup Sessions
    /\ \A r \in Readers : r \in Threads /\ r \notin Editors \cup Deleters \cup Runs \cup Sessions
    /\ \A j \in Runs : j \in Threads /\ j \notin Editors \cup Deleters \cup Readers \cup Sessions
    /\ \A s \in Sessions : s \in Threads /\ s \notin Editors \cup Deleters \cup Readers \cup Runs
    /\ None \notin Threads
  BY FormulaAssumption DEF Threads

LEMMA LabelFacts ==
    /\ \A e \in Editors : Label(e) = {"idle", "edit", "register", "write"}
    /\ \A d \in Deleters : Label(d) = {"idle", "delete", "remove"}
    /\ \A r \in Readers : Label(r) = {"idle", "load", "load_test", "resolve", "expand"}
    /\ \A j \in Runs : Label(j) = {"idle", "load", "pin"}
    /\ \A s \in Sessions : Label(s) = {"idle", "load", "pin", "save", "extend"}
  BY ThreadFacts DEF Label

LEMMA Aside ==
    ASSUME StoreInv, UNCHANGED core
    PROVE  StoreInv'
<1>1. UNCHANGED <<doc, packaged, lock, pc, copy, draft, plan, jobs, pins>>
  BY DEF core
<1>2. Merged' = Merged
  BY <1>1 DEF Merged, NeedsMerge, CatalogBody
<1>3. DocOK(doc') /\ PlacesOK' /\ LockOK' /\ PinsOK'
  BY <1>1 DEF StoreInv, PlacesOK, LockOK, PinsOK, Deleting
<1>4. CopiesOK'
  BY <1>1, <1>2 DEF StoreInv, CopiesOK, Holds
<1>5. EditsOK' /\ DeletesOK'
  BY <1>1 DEF StoreInv, EditsOK, DeletesOK, Editing, Deleting
<1>6. PlansOK'
  BY <1>1 DEF StoreInv, PlansOK, PlanOK
<1> QED BY <1>1, <1>3, <1>4, <1>5, <1>6 DEF StoreInv

(* A thread that writes no document goes on; if it has a copy it is new.     *)
LEMMA ReaderMoves ==
    ASSUME IInv, NEW t \in Readers \cup Runs \cup Sessions, NEW label \in Label(t),
           pc' = [pc EXCEPT ![t] = label], \A u \in Threads \ {t} : copy'[u] = copy[u],
           UNCHANGED <<doc, packaged, draft, plan>>,
           label \in {"load", "load_test"} => copy'[t] = doc /\ Merged,
           LockOK', PinsOK'
    PROVE  StoreInv'
<1>1. t \in Threads /\ t \notin Editors /\ t \notin Deleters
  BY ThreadFacts
<1>2. pc'[t] = label /\ \A u \in Threads \ {t} : pc'[u] = pc[u]
  BY <1>1 DEF IInv, TypeOK
<1>3. Merged' = Merged
  BY DEF Merged, NeedsMerge, CatalogBody
<1>4. label \notin {"edit", "register", "write", "delete", "remove"}
  BY LabelFacts
<1>5. PlacesOK'
  BY <1>2 DEF IInv, StoreInv, PlacesOK
<1>6. CopiesOK'
  <2> SUFFICES ASSUME NEW u \in Threads, Holds(u)'
               PROVE  DocOK(copy'[u]) /\ SameManaged(copy'[u], doc') /\ Merged'
    BY DEF CopiesOK
  <2>1. CASE u = t
    <3>1. copy'[t] = doc /\ Merged
      BY <1>2, <1>4, <2>1 DEF Holds
    <3> QED BY <1>3, <2>1, <3>1 DEF IInv, StoreInv, SameManaged
  <2>2. CASE u # t
    BY <1>2, <1>3, <2>2 DEF IInv, StoreInv, CopiesOK, Holds
  <2> QED BY <2>1, <2>2
<1>7. EditsOK'
  BY <1>1, <1>2 DEF IInv, StoreInv, EditsOK, Editing, Threads
<1>8. PlansOK'
  <2> SUFFICES ASSUME NEW e \in Editors, pc'[e] \in {"register", "write"} PROVE PlanOK(e)'
    BY DEF PlansOK
  <2>1. e # t /\ e \in Threads
    BY <1>1, ThreadFacts
  <2>2. PlanOK(e) /\ copy'[e] = copy[e]
    BY <1>2, <2>1 DEF IInv, StoreInv, PlansOK
  <2> QED BY <2>2 DEF PlanOK
<1>9. DeletesOK'
  BY <1>1, <1>2 DEF IInv, StoreInv, DeletesOK, Deleting, Threads
<1> QED BY <1>5, <1>6, <1>7, <1>8, <1>9 DEF IInv, StoreInv

(* The editor goes on.                                                       *)
LEMMA EditorMoves ==
    ASSUME IInv, NEW e \in Editors, NEW label \in Label(e),
           pc' = [pc EXCEPT ![e] = label], \A u \in Threads \ {e} : copy'[u] = copy[u],
           \A d \in Deleters : draft'[d] = draft[d],
           \A a \in Editors \ {e} : draft'[a] = draft[a] /\ plan'[a] = plan[a],
           UNCHANGED <<doc, packaged, lock, jobs, pins>>,
           label # "idle" =>
              /\ DocOK(copy'[e]) /\ SameManaged(copy'[e], doc) /\ Merged
              /\ draft'[e].family \in Families \ Managed /\ draft'[e].body \in Body
              /\ SubStore(doc, copy'[e]),
           label \in {"register", "write"} => PlanOK(e)'
    PROVE  StoreInv'
<1>1. e \in Threads /\ e \notin Deleters /\ e \notin Runs
  BY ThreadFacts
<1>2. pc'[e] = label /\ \A u \in Threads \ {e} : pc'[u] = pc[u]
  BY <1>1 DEF IInv, TypeOK
<1>3. Merged' = Merged
  BY DEF Merged, NeedsMerge, CatalogBody
<1>4. PlacesOK'
  BY <1>2 DEF IInv, StoreInv, PlacesOK
<1>5. LockOK'
  BY <1>1, <1>2 DEF IInv, StoreInv, LockOK, Deleting, Threads
<1>6. PinsOK'
  BY DEF IInv, StoreInv, PinsOK
<1>7. CopiesOK'
  BY <1>2, <1>3 DEF IInv, StoreInv, CopiesOK, Holds
<1>8. EditsOK'
  BY <1>2 DEF IInv, StoreInv, EditsOK, Editing, Threads
<1>9. PlansOK'
  <2> SUFFICES ASSUME NEW a \in Editors, pc'[a] \in {"register", "write"}, a # e
               PROVE  PlanOK(a)'
    BY <1>2 DEF PlansOK
  <2>1. PlanOK(a) /\ copy'[a] = copy[a] /\ plan'[a] = plan[a]
    BY <1>2, ThreadFacts DEF IInv, StoreInv, PlansOK
  <2> QED BY <2>1 DEF PlanOK
<1>10. DeletesOK'
  BY <1>1, <1>2 DEF IInv, StoreInv, DeletesOK, Deleting, Threads
<1> QED BY <1>4, <1>5, <1>6, <1>7, <1>8, <1>9, <1>10 DEF IInv, StoreInv

(* The thread that deletes goes on, with the lock.                           *)
LEMMA DeleterMoves ==
    ASSUME IInv, NEW d \in Deleters, NEW label \in Label(d),
           pc' = [pc EXCEPT ![d] = label], \A u \in Threads \ {d} : copy'[u] = copy[u],
           \A e \in Editors : draft'[e] = draft[e],
           \A a \in Deleters \ {d} : draft'[a] = draft[a],
           UNCHANGED <<doc, packaged, plan, jobs, pins>>,
           lock \in {None, d}, lock' = IF label = "idle" THEN None ELSE d,
           label # "idle" =>
              /\ DocOK(copy'[d]) /\ SameManaged(copy'[d], doc) /\ Merged
              /\ draft'[d].family \in Families \ Managed
              /\ SubStore(copy'[d], doc),
           label = "remove" => Spared(copy'[d], draft'[d].family)
    PROVE  StoreInv'
<1>1. d \in Threads /\ d \notin Editors /\ d \notin Runs /\ d # None
  BY ThreadFacts
<1>2. pc'[d] = label /\ \A u \in Threads \ {d} : pc'[u] = pc[u]
  BY <1>1 DEF IInv, TypeOK
<1>3. Merged' = Merged
  BY DEF Merged, NeedsMerge, CatalogBody
<1>4. PlacesOK'
  BY <1>2 DEF IInv, StoreInv, PlacesOK
<1>5. \A a \in Deleters \ {d} : ~Deleting(a)
  BY ThreadFacts DEF IInv, StoreInv, LockOK
<1>6. \A j \in Runs : pc[j] \notin {"load", "pin"}
  BY <1>1, ThreadFacts DEF IInv, StoreInv, LockOK
<1>7. LockOK'
  BY <1>1, <1>2, <1>5, <1>6, ThreadFacts DEF LockOK, Deleting
<1>8. PinsOK'
  BY DEF IInv, StoreInv, PinsOK
<1>9. CopiesOK'
  BY <1>2, <1>3 DEF IInv, StoreInv, CopiesOK, Holds
<1>10. EditsOK'
  BY <1>1, <1>2 DEF IInv, StoreInv, EditsOK, Editing, Threads
<1>11. PlansOK'
  <2> SUFFICES ASSUME NEW e \in Editors, pc'[e] \in {"register", "write"} PROVE PlanOK(e)'
    BY DEF PlansOK
  <2>1. PlanOK(e) /\ copy'[e] = copy[e]
    BY <1>1, <1>2, ThreadFacts DEF IInv, StoreInv, PlansOK
  <2> QED BY <2>1 DEF PlanOK
<1>12. DeletesOK'
  BY <1>2, <1>5, ThreadFacts DEF DeletesOK, Deleting
<1> QED BY <1>4, <1>7, <1>8, <1>9, <1>10, <1>11, <1>12 DEF IInv, StoreInv

-----------------------------------------------------------------------------
(* What an edit publishes.                                                   *)

LEMMA PredecessorIsARuntime ==
    ASSUME NEW n \in Runtimes, n[2] # 1
    PROVE  <<n[1], n[2] - 1>> \in Runtimes
<1>1. n[1] \in Families /\ n[2] \in Nat /\ 1 <= n[2] /\ n[2] <= MaxRevision /\ MaxRevision \in Nat
  BY RuntimeFacts
<1>2. n[2] - 1 \in Revisions
  BY <1>1 DEF Revisions
<1> QED BY <1>1, <1>2, RuntimeFacts

(* New revisions laid over a copy that has all the document has.             *)
LEMMA OverlayIsOK ==
    ASSUME NEW d, NEW here, NEW new \in MaybeBodies, DocOK(here), SubStore(d, here),
           \A n \in Runtimes : n[1] \in Managed => new[n] = None,
           \A n \in Runtimes : new[n] # None => n[2] = 1 \/ here[<<n[1], n[2] - 1>>] # None,
           \A n \in Runtimes : new[n] # None => d[n] \in {None, new[n]}
    PROVE  DocOK(Overlay(here, new)) /\ SubStore(d, Overlay(here, new))
<1> DEFINE all == Overlay(here, new)
<1>1. \A n \in Runtimes : all[n] = IF new[n] # None THEN new[n] ELSE here[n]
  BY DEF Overlay
<1>2. all \in MaybeBodies
  BY DEF Overlay, MaybeBodies, DocOK
<1> HIDE DEF all
<1>3. Contiguous(all)
  <2> SUFFICES ASSUME NEW n \in Runtimes, all[n] # None, n[2] # 1
               PROVE  all[<<n[1], n[2] - 1>>] # None
    BY DEF Contiguous, Present
  <2>1. <<n[1], n[2] - 1>> \in Runtimes
    BY PredecessorIsARuntime
  <2>2. here[<<n[1], n[2] - 1>>] # None
    BY <1>1 DEF DocOK, Contiguous, Present
  <2> QED BY <1>1, <2>1, <2>2
<1>4. ManagedStandAlone(all)
  BY <1>1 DEF DocOK, ManagedStandAlone, Present
<1>5. SubStore(d, all)
  BY <1>1 DEF SubStore
<1> QED BY <1>2, <1>3, <1>4, <1>5 DEF DocOK, all

(* An upgrade reaches no formula of the catalog.                             *)
LEMMA UpgradedByUsers ==
    ASSUME NEW d, DocOK(d), NEW f \in Known(d) \ Managed
    PROVE  Upgraded(d, f) \subseteq Known(d) \ Managed
<1> DEFINE S == Known(d) \ Managed
<1>1. ASSUME NEW h \in Known(d), \E k \in S : LatestName(d, k) \in LatestBody(d, h).uses
      PROVE  h \in S
  <2>1. LatestName(d, h) \in Present(d) /\ LatestName(d, h)[1] = h
    BY LatestIsGreatest DEF Present, LatestName
  <2>2. LatestBody(d, h).uses # {}
    BY <1>1
  <2> QED BY <2>1, <2>2 DEF DocOK, ManagedStandAlone, LatestBody
<1>2. S \in SUBSET Known(d) /\ f \in S
  OBVIOUS
<1> HIDE DEF S
<1>3. \A g \in Upgraded(d, f) : g \in S
  BY <1>1, <1>2 DEF Upgraded
<1> QED BY <1>3 DEF S

LEMMA NewBodyIsABody ==
    ASSUME DocOK(doc), NEW e \in Editors, draft[e].body \in Body, Room(e),
           NEW g, g = draft[e].family \/ g \in Known(doc)
    PROVE  NewBody(e, doc, g) \in Body
<1> DEFINE f == draft[e].family
           moved == Upgraded(doc, f)
           Follow(n) == IF n[1] \in moved /\ n = LatestName(doc, n[1])
                      THEN <<n[1], n[2] + 1>> ELSE n
           old == LatestBody(doc, g)
<1>1. CASE g = f
  BY <1>1 DEF NewBody
<1>2. CASE g # f
  <2>1. g \in Known(doc)
    BY <1>2
  <2>2. old \in Body
    <3>1. LatestName(doc, g) \in Runtimes /\ doc[LatestName(doc, g)] # None
      BY <2>1, LatestIsGreatest
    <3> QED BY <3>1 DEF DocOK, MaybeBodies, LatestBody
  <2>3. ASSUME NEW n \in old.uses PROVE Follow(n) \in Runtimes
    <3>1. n \in Runtimes
      BY <2>2 DEF Body
    <3>2. CASE n[1] \in moved /\ n = LatestName(doc, n[1])
      <4>1. n[1] \in Known(doc)
        BY <3>2 DEF Upgraded
      <4>2. NextRevision(doc, n[1]) = Latest(doc, n[1]) + 1
        BY <4>1 DEF NextRevision
      <4>3. n[2] = Latest(doc, n[1])
        BY <3>2 DEF LatestName
      <4>4. NextRevision(doc, n[1]) \in Revisions
        BY <3>2 DEF Room
      <4>5. n[2] + 1 \in Revisions
        BY <4>2, <4>3, <4>4
      <4>6. <<n[1], n[2] + 1>> \in Runtimes
        BY <3>1, <4>5, RuntimeFacts
      <4> QED BY <3>2, <4>6
    <3> QED BY <3>1, <3>2
  <2> DEFINE uses == {Follow(n) : n \in old.uses}
  <2>4. NewBody(e, doc, g) = [old EXCEPT !.uses = uses]
    BY <1>2 DEF NewBody
  <2>5. uses \in SUBSET Runtimes
    BY <2>3
  <2> HIDE DEF uses, old
  <2> QED BY <2>2, <2>4, <2>5 DEF Body
<1> QED BY <1>1, <1>2

(* The plan of an edit that keeps the calculation.                           *)
LEMMA SameCalculation ==
    ASSUME NEW e \in Editors, DocOK(doc), DocOK(copy[e]), SubStore(doc, copy[e]),
           draft[e].family \in Families \ Managed, draft[e].body \in Body, ChangesNothing(e)
    PROVE  /\ Planned(e) \in MaybeBodies
           /\ \A n \in Runtimes : n[1] \in Managed => Planned(e)[n] = None
           /\ DocOK(Overlay(copy[e], Planned(e))) /\ SubStore(doc, Overlay(copy[e], Planned(e)))
<1> DEFINE f == draft[e].family
           here == copy[e]
           name == LatestName(here, f)
           new == Planned(e)
<1>1. f \in Known(here) /\ f \in Known(doc) /\ LatestBody(doc, f) = draft[e].body
  BY DEF ChangesNothing
<1>2. name \in Runtimes /\ here[name] # None /\ name = <<f, Latest(here, f)>>
      /\ \A r \in Revisions : here[<<f, r>>] # None => r <= Latest(here, f)
  BY <1>1, LatestIsGreatest DEF LatestName
<1>3. new = [NoBodies EXCEPT ![name] = draft[e].body]
  BY DEF Planned
<1>4. \A n \in Runtimes : new[n] = IF n = name THEN draft[e].body ELSE None
  BY <1>2, <1>3 DEF NoBodies
<1>5. new \in MaybeBodies
  BY <1>2, <1>3 DEF NoBodies, MaybeBodies
<1>6. \A n \in Runtimes : n[1] \in Managed => new[n] = None
  BY <1>2, <1>4
<1>7. ASSUME NEW n \in Runtimes, new[n] # None
      PROVE  n[2] = 1 \/ here[<<n[1], n[2] - 1>>] # None
  BY <1>2, <1>4, <1>7 DEF DocOK, Contiguous, Present
<1>8. ASSUME NEW n \in Runtimes, new[n] # None PROVE doc[n] \in {None, new[n]}
  <2>1. n = name
    BY <1>4, <1>8
  <2> SUFFICES ASSUME doc[name] # None PROVE doc[name] = draft[e].body
    BY <1>4, <2>1
  <2>2. /\ Latest(doc, f) \in Revisions /\ doc[<<f, Latest(doc, f)>>] # None
        /\ <<f, Latest(doc, f)>> \in Runtimes
        /\ \A r \in Revisions : doc[<<f, r>>] # None => r <= Latest(doc, f)
    BY <1>1, LatestIsGreatest DEF LatestName
  <2>3. here[<<f, Latest(doc, f)>>] # None
    BY <2>2 DEF SubStore
  <2>4. Latest(here, f) \in Revisions
    BY <1>1, LatestIsGreatest
  <2>5. Latest(doc, f) <= Latest(here, f) /\ Latest(here, f) <= Latest(doc, f)
    BY <1>2, <2>2, <2>3, <2>4
  <2>6. Latest(doc, f) \in Nat /\ Latest(here, f) \in Nat
    BY <2>2, <2>4, RuntimeFacts
  <2>7. Latest(doc, f) = Latest(here, f)
    BY <2>5, <2>6
  <2> QED BY <1>1, <1>2, <2>7 DEF LatestBody, LatestName
<1> HIDE DEF here, new
<1>9. DocOK(Overlay(here, new)) /\ SubStore(doc, Overlay(here, new))
  BY <1>5, <1>6, <1>7, <1>8, OverlayIsOK DEF here
<1> QED BY <1>5, <1>6, <1>9 DEF here, new

(* The plan of an edit that changes it.                                      *)
LEMMA NewCalculation ==
    ASSUME NEW e \in Editors, DocOK(doc), DocOK(copy[e]), SubStore(doc, copy[e]),
           draft[e].family \in Families \ Managed, draft[e].body \in Body, ~ChangesNothing(e),
           Room(e), draft[e].family \in Known(copy[e]) => draft[e].family \in Known(doc)
    PROVE  /\ Planned(e) \in MaybeBodies
           /\ \A n \in Runtimes : n[1] \in Managed => Planned(e)[n] = None
           /\ DocOK(Overlay(copy[e], Planned(e))) /\ SubStore(doc, Overlay(copy[e], Planned(e)))
<1> DEFINE f == draft[e].family
           here == copy[e]
           next(g) == <<g, NextRevision(IF g = f THEN here ELSE doc, g)>>
           moved == IF f \in Known(here) /\ Referenced(f)
                    THEN Upgraded(doc, f) \cap Known(here) ELSE {f}
           new == Planned(e)
<1>1. new = [n \in Runtimes |->
               IF \E g \in moved : n = next(g) THEN NewBody(e, doc, n[1]) ELSE None]
  BY DEF Planned
<1>2. \A g \in moved : g \in Families \ Managed /\ (g = f \/ g \in Known(doc))
  <2>1. CASE f \in Known(here) /\ Referenced(f)
    <3>1. f \in Known(doc) \ Managed
      BY <2>1
    <3>2. Upgraded(doc, f) \subseteq Known(doc) \ Managed
      BY <3>1, UpgradedByUsers
    <3> QED BY <2>1, <3>2 DEF Known
  <2>2. CASE ~(f \in Known(here) /\ Referenced(f))
    BY <2>2
  <2> QED BY <2>1, <2>2
<1> HIDE DEF moved
<1>3. ASSUME NEW n \in Runtimes, NEW g \in moved, n = next(g)
      PROVE  /\ n[1] = g /\ NewBody(e, doc, n[1]) \in Body /\ doc[n] = None
             /\ n[2] = 1 \/ here[<<n[1], n[2] - 1>>] # None
  <2>1. n[1] = g /\ n[2] \in Revisions /\ g \in Families
        /\ n[2] = NextRevision(IF g = f THEN here ELSE doc, g)
    BY <1>3, RuntimeFacts
  <2>2. NewBody(e, doc, n[1]) \in Body
    BY <1>2, <2>1, NewBodyIsABody
  <2>3. CASE g = f
    <3>1. n[2] = NextRevision(here, g) /\ n = <<g, NextRevision(here, g)>>
      BY <1>3, <2>1, <2>3
    <3>2. here[n] = None /\ (n[2] = 1 \/ here[<<g, n[2] - 1>>] # None)
      BY <2>1, <3>1, NextIsNew
    <3>3. doc[n] = None
      BY <1>2, <2>1, <3>2 DEF SubStore
    <3> QED BY <2>1, <2>2, <3>2, <3>3
  <2>4. CASE g # f
    <3>1. n[2] = NextRevision(doc, g) /\ n = <<g, NextRevision(doc, g)>>
      BY <1>3, <2>1, <2>4
    <3>2. doc[n] = None
          /\ (n[2] = 1 \/ (n[2] - 1 \in Revisions /\ doc[<<g, n[2] - 1>>] # None))
      BY <2>1, <3>1, NextIsNew
    <3>3. n[2] - 1 \in Revisions => <<g, n[2] - 1>> \in Runtimes
      BY <2>1, RuntimeFacts
    <3>4. n[2] = 1 \/ here[<<g, n[2] - 1>>] # None
      BY <1>2, <3>2, <3>3 DEF SubStore
    <3> QED BY <2>1, <2>2, <3>2, <3>4
  <2> QED BY <2>3, <2>4
<1> HIDE DEF next
<1>4. new \in MaybeBodies
  <2> DEFINE value(n) == IF \E g \in moved : n = next(g) THEN NewBody(e, doc, n[1]) ELSE None
  <2>1. ASSUME NEW n \in Runtimes PROVE value(n) \in Body \cup {None}
    BY <1>3
  <2>2. new = [n \in Runtimes |-> value(n)]
    BY <1>1
  <2> HIDE DEF value, new
  <2> QED BY <2>1, <2>2 DEF MaybeBodies
<1>5. ASSUME NEW n \in Runtimes, new[n] # None
      PROVE  /\ n[1] \notin Managed /\ doc[n] = None
             /\ n[2] = 1 \/ here[<<n[1], n[2] - 1>>] # None
  <2>1. PICK g \in moved : n = next(g)
    BY <1>1, <1>5
  <2> QED BY <1>2, <1>3, <2>1
<1> HIDE DEF here, new
<1>6. DocOK(Overlay(here, new)) /\ SubStore(doc, Overlay(here, new))
  <2>1. \A n \in Runtimes : n[1] \in Managed => new[n] = None
    BY <1>5
  <2>2. \A n \in Runtimes : new[n] # None => n[2] = 1 \/ here[<<n[1], n[2] - 1>>] # None
    BY <1>5
  <2>3. \A n \in Runtimes : new[n] # None => doc[n] \in {None, new[n]}
    BY <1>5
  <2>4. DocOK(here) /\ SubStore(doc, here)
    BY DEF here
  <2> QED BY <1>4, <2>1, <2>2, <2>3, <2>4, OverlayIsOK
<1> QED BY <1>4, <1>5, <1>6 DEF here, new

-----------------------------------------------------------------------------
(* Edits.                                                                    *)

LEMMA EditFacts ==
    ASSUME IInv, NEW e \in Editors, Editing(e)
    PROVE  /\ DocOK(copy[e]) /\ SameManaged(copy[e], doc) /\ Merged
           /\ draft[e].family \in Families \ Managed /\ draft[e].body \in Body
           /\ SubStore(doc, copy[e])
<1>1. Holds(e) /\ e \in Threads
  BY ThreadFacts DEF Editing, Holds
<1> QED BY <1>1 DEF IInv, StoreInv, CopiesOK, EditsOK

LEMMA DoneFacts ==
    ASSUME IInv, NEW e \in Editors, Done(e)
    PROVE  /\ pc' = [pc EXCEPT ![e] = "idle"] /\ \A u \in Threads \ {e} : copy'[u] = copy[u]
           /\ \A d \in Deleters : draft'[d] = draft[d]
           /\ \A a \in Editors \ {e} : draft'[a] = draft[a] /\ plan'[a] = plan[a]
  BY ThreadFacts DEF Done, Goto, Forget, IInv, TypeOK

LEMMA BeginEditKeeps ==
    ASSUME IInv, NEW e \in Editors, BeginEdit(e)
    PROVE  StoreInv'
<1>1. PICK f \in Families \ Managed, b \in UserBodies, up \in BOOLEAN :
         draft' = [draft EXCEPT ![e] = [family |-> f, body |-> b, upgrade |-> up]]
  BY DEF BeginEdit
<1>2. e \in Threads /\ e \notin Deleters /\ b \in Body
  BY ThreadFacts, FormulaAssumption
<1>3. /\ pc' = [pc EXCEPT ![e] = "edit"] /\ copy' = [copy EXCEPT ![e] = doc]
      /\ UNCHANGED <<doc, packaged, lock, plan, jobs, pins>> /\ Merged
  BY DEF BeginEdit, Goto, Read, runState
<1>4. copy'[e] = doc /\ \A u \in Threads \ {e} : copy'[u] = copy[u]
  BY <1>2, <1>3 DEF IInv, TypeOK
<1>5. /\ draft'[e].family = f /\ draft'[e].body = b
      /\ \A d \in Deleters : draft'[d] = draft[d]
      /\ \A a \in Editors \ {e} : draft'[a] = draft[a]
  BY <1>1, <1>2 DEF IInv, TypeOK
<1>6. DocOK(doc) /\ SameManaged(doc, doc) /\ SubStore(doc, doc)
  BY DEF IInv, StoreInv, SameManaged, SubStore
<1>7. "edit" \in Label(e)
  BY LabelFacts
<1> QED BY <1>2, <1>3, <1>4, <1>5, <1>6, <1>7, EditorMoves

LEMMA RefuseEditKeeps ==
    ASSUME IInv, NEW e \in Editors, RefuseEdit(e)
    PROVE  StoreInv'
<1>1. Done(e) /\ UNCHANGED <<doc, packaged, lock, jobs, pins>>
  BY DEF RefuseEdit, runState, process
<1>2. "idle" \in Label(e)
  BY LabelFacts
<1> QED BY <1>1, <1>2, DoneFacts, EditorMoves

LEMMA PlanEditKeeps ==
    ASSUME IInv, NEW e \in Editors, PlanEdit(e)
    PROVE  StoreInv'
<1>1. /\ Editing(e) /\ Room(e) /\ plan' = [plan EXCEPT ![e] = Planned(e)]
      /\ draft[e].family \in Known(copy[e]) => draft[e].family \in Known(doc)
      /\ UNCHANGED <<doc, packaged, lock, copy, draft, jobs, pins>>
  BY DEF PlanEdit, Editing, runState, process
<1>2. PICK label \in {"register", "write"} : pc' = [pc EXCEPT ![e] = label]
  BY DEF PlanEdit, Goto
<1>3. label \in Label(e) /\ label # "idle"
  BY LabelFacts
<1>4. /\ DocOK(copy[e]) /\ SameManaged(copy[e], doc) /\ Merged /\ DocOK(doc)
      /\ draft[e].family \in Families \ Managed /\ draft[e].body \in Body
      /\ SubStore(doc, copy[e])
  BY <1>1, EditFacts DEF IInv, StoreInv
<1>5. /\ Planned(e) \in MaybeBodies
      /\ \A n \in Runtimes : n[1] \in Managed => Planned(e)[n] = None
      /\ DocOK(Overlay(copy[e], Planned(e))) /\ SubStore(doc, Overlay(copy[e], Planned(e)))
  BY <1>1, <1>4, SameCalculation, NewCalculation
<1>6. plan'[e] = Planned(e) /\ \A a \in Editors \ {e} : plan'[a] = plan[a]
  BY <1>1 DEF IInv, TypeOK
<1>7. PlanOK(e)'
  BY <1>1, <1>5, <1>6 DEF PlanOK
<1> QED BY <1>1, <1>2, <1>3, <1>4, <1>6, <1>7, EditorMoves

LEMMA RegisterEditKeeps ==
    ASSUME IInv, NEW e \in Editors, RegisterEdit(e)
    PROVE  StoreInv'
<1>1. pc[e] = "register" /\ Editing(e) /\ UNCHANGED <<doc, packaged, lock, jobs, pins>>
  BY DEF RegisterEdit, Editing, runState, process
<1>2. CASE Done(e)
  <2>1. "idle" \in Label(e)
    BY LabelFacts
  <2> QED BY <1>1, <1>2, <2>1, DoneFacts, EditorMoves
<1>3. CASE ~Done(e)
  <2>1. pc' = [pc EXCEPT ![e] = "write"] /\ UNCHANGED <<copy, draft, plan>>
    BY <1>3 DEF RegisterEdit, Goto
  <2>2. "write" \in Label(e)
    BY LabelFacts
  <2>3. PlanOK(e)
    BY <1>1 DEF IInv, StoreInv, PlansOK
  <2>4. PlanOK(e)'
    BY <1>1, <2>1, <2>3 DEF PlanOK
  <2> QED BY <1>1, <2>1, <2>2, <2>4, EditFacts, EditorMoves
<1> QED BY <1>2, <1>3

(* The editor writes: a deletion's copy is still a part of the document.     *)
LEMMA WriteEditKeeps ==
    ASSUME IInv, OneEditor, NEW e \in Editors, WriteEdit(e)
    PROVE  StoreInv'
<1>1. /\ pc[e] = "write" /\ Editing(e) /\ Done(e) /\ doc' = Overlay(copy[e], plan[e])
      /\ UNCHANGED <<packaged, lock, jobs, pins>>
  BY DEF WriteEdit, Editing, runState, process
<1>2. PlanOK(e)
  BY <1>1 DEF IInv, StoreInv, PlansOK
<1>3. DocOK(doc') /\ SubStore(doc, doc')
  BY <1>1, <1>2 DEF PlanOK
<1>4. SameManaged(doc, doc')
  BY <1>1, <1>2, EditFacts DEF PlanOK, SameManaged, Overlay
<1>5. e \in Threads /\ e \notin Deleters /\ e \notin Runs
  BY ThreadFacts
<1>6. /\ pc'[e] = "idle" /\ \A u \in Threads \ {e} : pc'[u] = pc[u] /\ copy'[u] = copy[u]
      /\ \A d \in Deleters : draft'[d] = draft[d]
  BY <1>1, <1>5, DoneFacts DEF IInv, TypeOK
<1>7. Merged'
  BY <1>1, <1>4, EditFacts, MergedStays
<1>8. PlacesOK'
  BY <1>6, LabelFacts DEF IInv, StoreInv, PlacesOK
<1>9. LockOK'
  BY <1>1, <1>5, <1>6 DEF IInv, StoreInv, LockOK, Deleting, Threads
<1>10. CopiesOK'
  <2> SUFFICES ASSUME NEW t \in Threads, Holds(t)'
               PROVE  DocOK(copy'[t]) /\ SameManaged(copy'[t], doc')
    BY <1>7 DEF CopiesOK
  <2>1. t # e /\ Holds(t)
    BY <1>6 DEF Holds
  <2>2. DocOK(copy[t]) /\ SameManaged(copy[t], doc) /\ copy'[t] = copy[t]
    BY <1>6, <2>1 DEF IInv, StoreInv, CopiesOK
  <2> QED BY <1>4, <2>2 DEF SameManaged
<1>11. \A a \in Editors : pc'[a] = "idle"
  BY <1>6 DEF OneEditor
<1>12. EditsOK' /\ PlansOK'
  BY <1>11 DEF EditsOK, PlansOK, Editing
<1>13. DeletesOK'
  <2> SUFFICES ASSUME NEW d \in Deleters, Deleting(d)'
               PROVE  /\ draft'[d].family \in Families \ Managed
                      /\ SubStore(copy'[d], doc')
                      /\ pc'[d] = "remove" => Spared(copy'[d], draft'[d].family)
    BY DEF DeletesOK
  <2>1. d # e /\ d \in Threads
    BY <1>5, ThreadFacts
  <2>2. Deleting(d) /\ copy'[d] = copy[d] /\ draft'[d] = draft[d] /\ pc'[d] = pc[d]
    BY <1>6, <2>1 DEF Deleting
  <2>3. /\ draft[d].family \in Families \ Managed /\ SubStore(copy[d], doc)
        /\ pc[d] = "remove" => Spared(copy[d], draft[d].family)
    BY <2>2 DEF IInv, StoreInv, DeletesOK
  <2>4. SubStore(copy[d], doc')
    BY <1>3, <2>3 DEF SubStore
  <2> QED BY <2>2, <2>3, <2>4
<1>14. PinsOK'
  BY <1>1, <1>4 DEF IInv, StoreInv, PinsOK, SameManaged
<1> QED BY <1>3, <1>8, <1>9, <1>10, <1>12, <1>13, <1>14 DEF StoreInv

-----------------------------------------------------------------------------
(* Deletions.                                                                *)

LEMMA DeleteFacts ==
    ASSUME IInv, NEW d \in Deleters, Deleting(d)
    PROVE  /\ DocOK(copy[d]) /\ SameManaged(copy[d], doc) /\ Merged /\ lock = d
           /\ draft[d].family \in Families \ Managed /\ SubStore(copy[d], doc)
<1>1. Holds(d) /\ d \in Threads
  BY ThreadFacts DEF Deleting, Holds
<1> QED BY <1>1 DEF IInv, StoreInv, CopiesOK, DeletesOK, LockOK

LEMMA EndDeleteFacts ==
    ASSUME IInv, NEW d \in Deleters, EndDelete(d)
    PROVE  /\ pc' = [pc EXCEPT ![d] = "idle"] /\ \A u \in Threads \ {d} : copy'[u] = copy[u]
           /\ \A e \in Editors : draft'[e] = draft[e]
           /\ \A a \in Deleters \ {d} : draft'[a] = draft[a]
           /\ lock' = None
  BY ThreadFacts DEF EndDelete, Goto, Forget, IInv, TypeOK

LEMMA BeginDeleteKeeps ==
    ASSUME IInv, NEW d \in Deleters, BeginDelete(d)
    PROVE  StoreInv'
<1>1. PICK f \in Known(doc) \ Managed :
         draft' = [draft EXCEPT ![d] = [NoDraft EXCEPT !.family = f]]
  BY DEF BeginDelete
<1>2. d \in Threads /\ d \notin Editors /\ f \in Families \ Managed
  BY ThreadFacts DEF Known
<1>3. /\ pc' = [pc EXCEPT ![d] = "delete"] /\ copy' = [copy EXCEPT ![d] = doc]
      /\ lock = None /\ lock' = d /\ UNCHANGED <<doc, packaged, plan, jobs, pins>> /\ Merged
  BY DEF BeginDelete, Goto, Read, runState
<1>4. copy'[d] = doc /\ \A u \in Threads \ {d} : copy'[u] = copy[u]
  BY <1>2, <1>3 DEF IInv, TypeOK
<1>5. /\ draft'[d].family = f
      /\ \A e \in Editors : draft'[e] = draft[e]
      /\ \A a \in Deleters \ {d} : draft'[a] = draft[a]
  BY <1>1, <1>2 DEF IInv, TypeOK, NoDraft
<1>6. DocOK(doc) /\ SameManaged(doc, doc) /\ SubStore(doc, doc)
  BY DEF IInv, StoreInv, SameManaged, SubStore
<1>7. "delete" \in Label(d)
  BY LabelFacts
<1> QED BY <1>2, <1>3, <1>4, <1>5, <1>6, <1>7, DeleterMoves

(* Nobody refers to the formula, by the document; then no other formula of   *)
(* the copy, which the document has too, uses one of its revisions.          *)
LEMMA UnregisterKeeps ==
    ASSUME IInv, NEW d \in Deleters, Unregister(d)
    PROVE  StoreInv'
<1> DEFINE f == draft[d].family
<1>1. Deleting(d) /\ UNCHANGED <<doc, packaged, plan, jobs, pins>>
  BY DEF Unregister, Deleting, runState, process
<1>2. /\ DocOK(copy[d]) /\ SameManaged(copy[d], doc) /\ Merged /\ lock = d
      /\ f \in Families \ Managed /\ SubStore(copy[d], doc)
  BY <1>1, DeleteFacts
<1>3. CASE EndDelete(d)
  <2>1. "idle" \in Label(d)
    BY LabelFacts
  <2> QED BY <1>1, <1>2, <1>3, <2>1, EndDeleteFacts, DeleterMoves
<1>4. CASE ~EndDelete(d)
  <2>1. /\ ~Referenced(f) /\ pc' = [pc EXCEPT ![d] = "remove"]
        /\ UNCHANGED <<lock, copy, draft>>
    BY <1>4 DEF Unregister, Goto
  <2>2. Spared(copy[d], f)
    <3> SUFFICES ASSUME NEW n \in Runtimes, copy[d][n] # None, n[1] # f,
                        NEW m \in copy[d][n].uses, m[1] = f, copy[d][m] # None
                 PROVE  FALSE
      BY DEF Spared
    <3>1. doc[n] = copy[d][n]
      BY <1>2 DEF SameManaged, SubStore
    <3>2. m \in Runtimes
      BY <1>2 DEF DocOK, MaybeBodies, Body
    <3>3. doc[m] # None
      BY <1>2, <3>2 DEF SameManaged, SubStore
    <3> QED BY <2>1, <3>1, <3>2, <3>3 DEF Referenced, UsedBy, Present
  <2>3. "remove" \in Label(d) /\ d # None
    BY LabelFacts, ThreadFacts
  <2> QED BY <1>1, <1>2, <2>1, <2>2, <2>3, DeleterMoves
<1> QED BY <1>3, <1>4

LEMMA WithoutIsOK ==
    ASSUME NEW d, NEW f \in Families \ Managed, DocOK(d)
    PROVE  DocOK(Without(d, f)) /\ SameManaged(d, Without(d, f)) /\ SubStore(Without(d, f), d)
<1>1. \A n \in Runtimes : Without(d, f)[n] = IF n[1] = f THEN None ELSE d[n]
  BY DEF Without
<1>2. Without(d, f) \in MaybeBodies
  BY DEF Without, DocOK, MaybeBodies
<1>3. Contiguous(Without(d, f))
  <2> SUFFICES ASSUME NEW n \in Runtimes, Without(d, f)[n] # None, n[2] # 1
               PROVE  Without(d, f)[<<n[1], n[2] - 1>>] # None
    BY DEF Contiguous, Present
  <2>1. <<n[1], n[2] - 1>> \in Runtimes /\ n[1] # f /\ d[n] # None
    BY <1>1, PredecessorIsARuntime
  <2>2. d[<<n[1], n[2] - 1>>] # None
    BY <2>1 DEF DocOK, Contiguous, Present
  <2> QED BY <1>1, <2>1, <2>2
<1>4. ManagedStandAlone(Without(d, f))
  BY <1>1 DEF DocOK, ManagedStandAlone, Present
<1> QED BY <1>1, <1>2, <1>3, <1>4 DEF DocOK, SameManaged, SubStore

LEMMA WriteDeleteKeeps ==
    ASSUME IInv, NEW d \in Deleters, WriteDelete(d)
    PROVE  StoreInv'
<1> DEFINE f == draft[d].family
<1>1. /\ Deleting(d) /\ EndDelete(d) /\ doc' = Without(copy[d], f)
      /\ UNCHANGED <<packaged, plan, jobs, pins>>
  BY DEF WriteDelete, Deleting, runState, process
<1>2. /\ DocOK(copy[d]) /\ SameManaged(copy[d], doc) /\ Merged /\ lock = d
      /\ f \in Families \ Managed /\ SubStore(copy[d], doc)
  BY <1>1, DeleteFacts
<1>3. DocOK(doc') /\ SameManaged(doc, doc') /\ SubStore(doc', doc)
  <2>1. DocOK(doc') /\ SameManaged(copy[d], doc') /\ SubStore(doc', copy[d])
    BY <1>1, <1>2, WithoutIsOK
  <2> QED BY <1>2, <2>1 DEF SameManaged, SubStore
<1>4. d \in Threads /\ d \notin Editors /\ d \notin Runs /\ d # None
  BY ThreadFacts
<1>5. /\ pc'[d] = "idle" /\ \A u \in Threads \ {d} : pc'[u] = pc[u] /\ copy'[u] = copy[u]
      /\ \A e \in Editors : draft'[e] = draft[e]
  BY <1>1, <1>4, EndDeleteFacts DEF IInv, TypeOK
<1>6. Merged'
  BY <1>1, <1>2, <1>3, MergedStays
<1>7. PlacesOK'
  BY <1>5, LabelFacts DEF IInv, StoreInv, PlacesOK
<1>8. \A a \in Deleters : ~Deleting(a)'
  <2> SUFFICES ASSUME NEW a \in Deleters, a # d PROVE ~Deleting(a)'
    BY <1>5 DEF Deleting
  <2>1. ~Deleting(a)
    BY <1>2, ThreadFacts DEF IInv, StoreInv, LockOK
  <2> QED BY <1>5, <2>1, ThreadFacts DEF Deleting
<1>9. \A j \in Runs : pc'[j] \notin {"load", "pin"}
  BY <1>2, <1>4, <1>5, ThreadFacts DEF IInv, StoreInv, LockOK
<1>10. LockOK' /\ DeletesOK'
  BY <1>8, <1>9 DEF LockOK, DeletesOK
<1>11. CopiesOK'
  <2> SUFFICES ASSUME NEW t \in Threads, Holds(t)'
               PROVE  DocOK(copy'[t]) /\ SameManaged(copy'[t], doc')
    BY <1>6 DEF CopiesOK
  <2>1. t # d /\ Holds(t)
    BY <1>5 DEF Holds
  <2>2. DocOK(copy[t]) /\ SameManaged(copy[t], doc) /\ copy'[t] = copy[t]
    BY <1>5, <2>1 DEF IInv, StoreInv, CopiesOK
  <2> QED BY <1>3, <2>2 DEF SameManaged
<1>12. \A e \in Editors : e \in Threads \ {d}
  BY <1>4, ThreadFacts
<1>13. EditsOK'
  <2> SUFFICES ASSUME NEW e \in Editors, Editing(e)'
               PROVE  /\ draft'[e].family \in Families \ Managed /\ draft'[e].body \in Body
                      /\ SubStore(doc', copy'[e])
    BY DEF EditsOK
  <2>1. Editing(e) /\ copy'[e] = copy[e] /\ draft'[e] = draft[e]
    BY <1>5, <1>12 DEF Editing
  <2>2. /\ draft[e].family \in Families \ Managed /\ draft[e].body \in Body
        /\ SubStore(doc, copy[e])
    BY <2>1, EditFacts
  <2> QED BY <1>3, <2>1, <2>2 DEF SubStore
<1>14. PlansOK'
  <2> SUFFICES ASSUME NEW e \in Editors, pc'[e] \in {"register", "write"} PROVE PlanOK(e)'
    BY DEF PlansOK
  <2>1. PlanOK(e) /\ copy'[e] = copy[e] /\ plan'[e] = plan[e]
    BY <1>1, <1>5, <1>12 DEF IInv, StoreInv, PlansOK
  <2> DEFINE all == Overlay(copy[e], plan[e])
  <2>2. SubStore(doc, all)
    BY <2>1 DEF PlanOK
  <2> HIDE DEF all
  <2>3. SubStore(doc', all)
    BY <1>3, <2>2 DEF SubStore
  <2> QED BY <2>1, <2>3 DEF PlanOK, all
<1>15. PinsOK'
  BY <1>1, <1>3 DEF IInv, StoreInv, PinsOK, SameManaged
<1> QED BY <1>3, <1>7, <1>10, <1>11, <1>13, <1>14, <1>15 DEF StoreInv

-----------------------------------------------------------------------------
(* Requests that write no document.                                          *)

(* A list of formulas, a test or a session: none takes the lock.             *)
LEMMA Lookup ==
    ASSUME IInv, NEW t \in Readers \cup Sessions, NEW label \in Label(t),
           pc' = [pc EXCEPT ![t] = label], \A u \in Threads \ {t} : copy'[u] = copy[u],
           UNCHANGED <<doc, packaged, lock, draft, plan, jobs, pins>>,
           label \in {"load", "load_test"} => copy'[t] = doc /\ Merged
    PROVE  StoreInv'
<1>1. t \in Threads /\ t \notin Deleters /\ t \notin Runs
  BY ThreadFacts
<1>2. \A u \in Threads \ {t} : pc'[u] = pc[u]
  BY <1>1 DEF IInv, TypeOK
<1>3. LockOK'
  BY <1>1, <1>2, ThreadFacts DEF IInv, StoreInv, LockOK, Deleting
<1>4. PinsOK'
  BY DEF IInv, StoreInv, PinsOK
<1> QED BY <1>3, <1>4, ReaderMoves

LEMMA BeginLookupKeeps ==
    ASSUME IInv, NEW t \in Readers \cup Sessions, BeginLoad(t) \/ BeginTest(t) \/ BeginSession(t),
           t \in Readers => BeginLoad(t) \/ BeginTest(t),
           t \in Sessions => BeginSession(t)
    PROVE  StoreInv'
<1>1. t \in Threads
  BY ThreadFacts
<1>2. PICK label \in {"load", "load_test"} :
         label \in Label(t) /\ pc' = [pc EXCEPT ![t] = label]
  <2>1. CASE t \in Readers
    BY <2>1, LabelFacts DEF BeginLoad, BeginTest, Goto
  <2>2. CASE t \in Sessions
    BY <2>2, LabelFacts DEF BeginSession, Goto
  <2> QED BY <2>1, <2>2
<1>3. /\ copy' = [copy EXCEPT ![t] = doc] /\ Merged
      /\ UNCHANGED <<doc, packaged, lock, draft, plan, jobs, pins>>
  BY DEF BeginLoad, BeginTest, BeginSession, Read, runState
<1>4. copy'[t] = doc /\ \A u \in Threads \ {t} : copy'[u] = copy[u]
  BY <1>1, <1>3 DEF IInv, TypeOK
<1> QED BY <1>2, <1>3, <1>4, Lookup

LEMMA EndLookupKeeps ==
    ASSUME IInv, NEW t \in Readers \cup Sessions, NEW label \in Label(t) \ {"load", "load_test"},
           Goto(t, label), \A u \in Threads \ {t} : copy'[u] = copy[u],
           UNCHANGED <<doc, packaged, lock, draft, plan, jobs, pins>>
    PROVE  StoreInv'
<1>1. pc' = [pc EXCEPT ![t] = label]
  BY DEF Goto
<1> QED BY <1>1, Lookup

LEMMA CopyOnly ==
    ASSUME IInv, NEW t \in Threads, NEW c, copy' = [copy EXCEPT ![t] = c]
    PROVE  \A u \in Threads \ {t} : copy'[u] = copy[u]
  BY DEF IInv, TypeOK

LEMMA ReaderKeeps ==
    ASSUME IInv, NEW r \in Readers,
           \/ BeginLoad(r) \/ Load(r) \/ BeginTest(r) \/ LoadForTest(r) \/ Resolve(r)
           \/ Expand(r) \/ RefuseTest(r)
    PROVE  StoreInv'
<1>1. r \in Threads /\ r \notin Sessions
      /\ Label(r) = {"idle", "load", "load_test", "resolve", "expand"}
  BY ThreadFacts, LabelFacts
<1>2. CASE BeginLoad(r) \/ BeginTest(r)
  BY <1>1, <1>2, BeginLookupKeeps
<1>3. CASE Load(r) \/ LoadForTest(r) \/ Resolve(r) \/ Expand(r) \/ RefuseTest(r)
  <2>1. UNCHANGED <<doc, packaged, lock, draft, plan, jobs, pins>>
    BY <1>3 DEF Load, LoadForTest, Resolve, Expand, RefuseTest, runState, process
  <2>2. PICK label \in {"idle", "resolve", "expand"} : Goto(r, label)
    BY <1>3 DEF Load, LoadForTest, Resolve, Expand, RefuseTest
  <2>3. \A u \in Threads \ {r} : copy'[u] = copy[u]
    <3>1. CASE Expand(r)
      BY <3>1 DEF Expand
    <3>2. CASE ~Expand(r)
      <4>1. \E c : copy' = [copy EXCEPT ![r] = c]
        BY <1>3, <3>2 DEF Load, LoadForTest, Resolve, RefuseTest, Forget
      <4> QED BY <1>1, <4>1, CopyOnly
    <3> QED BY <3>1, <3>2
  <2> QED BY <1>1, <2>1, <2>2, <2>3, EndLookupKeeps
<1> QED BY <1>2, <1>3

SessionStep(s) ==
    \/ BeginSession(s) \/ LoadForSession(s) \/ PinSession(s) \/ SaveSession(s)
    \/ ExtendSession(s) \/ SaveOperators(s) \/ RefuseSession(s)

RunStep(j) ==
    BeginRun(j) \/ LoadForRun(j) \/ SubmitRun(j) \/ RefuseRun(j) \/ EndRun(j)

LEMMA SessionKeeps ==
    ASSUME IInv, NEW s \in Sessions, SessionStep(s)
    PROVE  StoreInv'
<1>1. s \in Threads /\ s \notin Readers
      /\ Label(s) = {"idle", "load", "pin", "save", "extend"}
  BY ThreadFacts, LabelFacts
<1>2. CASE BeginSession(s)
  BY <1>1, <1>2, BeginLookupKeeps
<1>3. CASE ~BeginSession(s)
  <2>1. UNCHANGED <<doc, packaged, lock, draft, plan, jobs, pins>>
    BY <1>3 DEF SessionStep, LoadForSession, PinSession, SaveSession, ExtendSession,
       SaveOperators, RefuseSession, runState, process
  <2>2. PICK label \in {"idle", "pin", "save", "extend"} : Goto(s, label)
    BY <1>3 DEF SessionStep, LoadForSession, PinSession, SaveSession, ExtendSession,
       SaveOperators, RefuseSession
  <2>3. copy' = copy \/ copy' = [copy EXCEPT ![s] = NoBodies]
    BY <1>3 DEF SessionStep, LoadForSession, PinSession, SaveSession, ExtendSession,
       SaveOperators, RefuseSession, Forget
  <2>4. \A u \in Threads \ {s} : copy'[u] = copy[u]
    BY <1>1, <2>3, CopyOnly
  <2> QED BY <1>1, <2>1, <2>2, <2>4, EndLookupKeeps
<1> QED BY <1>2, <1>3

(* A run has the lock from its first read until it is submitted.             *)
LEMMA BeginRunKeeps ==
    ASSUME IInv, NEW j \in Runs, BeginRun(j)
    PROVE  StoreInv'
<1>1. j \in Threads /\ j \notin Deleters /\ Label(j) = {"idle", "load", "pin"}
  BY ThreadFacts, LabelFacts
<1>2. /\ pc' = [pc EXCEPT ![j] = "load"] /\ copy' = [copy EXCEPT ![j] = doc]
      /\ Merged /\ lock = None /\ lock' = j
      /\ UNCHANGED <<doc, packaged, draft, plan, jobs, pins>>
  BY DEF BeginRun, Goto, Read, runState
<1>3. copy'[j] = doc /\ \A u \in Threads \ {j} : copy'[u] = copy[u] /\ pc'[u] = pc[u]
  BY <1>1, <1>2 DEF IInv, TypeOK
<1>4. LockOK'
  BY <1>1, <1>2, <1>3, ThreadFacts DEF IInv, StoreInv, LockOK, Deleting
<1>5. PinsOK'
  BY <1>2 DEF IInv, StoreInv, PinsOK
<1> QED BY <1>1, <1>2, <1>3, <1>4, <1>5, ReaderMoves

LEMMA LoadForRunKeeps ==
    ASSUME IInv, NEW j \in Runs, LoadForRun(j)
    PROVE  StoreInv'
<1>1. j \in Threads /\ j \notin Deleters /\ Label(j) = {"idle", "load", "pin"}
  BY ThreadFacts, LabelFacts
<1>2. /\ pc[j] = "load" /\ pc' = [pc EXCEPT ![j] = "pin"]
      /\ copy' = [copy EXCEPT ![j] = NoBodies]
      /\ UNCHANGED <<doc, packaged, lock, draft, plan, jobs, pins>>
  BY DEF LoadForRun, Goto, Forget, runState, process
<1>3. \A u \in Threads \ {j} : copy'[u] = copy[u] /\ pc'[u] = pc[u]
  BY <1>1, <1>2 DEF IInv, TypeOK
<1>4. LockOK'
  BY <1>1, <1>2, <1>3, ThreadFacts DEF IInv, StoreInv, LockOK, Deleting
<1>5. PinsOK'
  BY <1>2 DEF IInv, StoreInv, PinsOK
<1> QED BY <1>1, <1>2, <1>3, <1>4, <1>5, ReaderMoves

LEMMA SubmitRunKeeps ==
    ASSUME IInv, NEW j \in Runs, SubmitRun(j)
    PROVE  StoreInv'
<1>1. j \in Threads /\ j \notin Deleters /\ j # None /\ Label(j) = {"idle", "load", "pin"}
  BY ThreadFacts, LabelFacts
<1>2. /\ pc[j] = "pin" /\ pc' = [pc EXCEPT ![j] = "idle"]
      /\ lock' = None /\ jobs' = [jobs EXCEPT ![j] = "live"]
      /\ copy' = [copy EXCEPT ![j] = NoBodies]
      /\ UNCHANGED <<doc, packaged, draft, plan>>
  BY DEF SubmitRun, Goto, Forget, process
<1>3. PICK start : pins' = [pins EXCEPT ![j] = Closure(doc, start)]
  BY DEF SubmitRun, PinsOf
<1>4. \A u \in Threads \ {j} : pc'[u] = pc[u] /\ copy'[u] = copy[u]
  BY <1>1, <1>2 DEF IInv, TypeOK
<1>5. lock = j
  BY <1>2 DEF IInv, StoreInv, LockOK
<1>6. LockOK'
  BY <1>1, <1>2, <1>4, <1>5, ThreadFacts DEF IInv, StoreInv, LockOK, Deleting, TypeOK
<1>7. PinsOK'
  <2> SUFFICES ASSUME NEW i \in Runs, jobs'[i] = "live", NEW n \in pins'[i]
               PROVE  n \in Runtimes /\ (n[1] \in Managed => doc[n] # None)
    BY <1>2 DEF PinsOK
  <2>1. CASE i = j
    <3>1. n \in Closure(doc, start)
      BY <1>3, <2>1 DEF IInv, TypeOK
    <3> QED BY <3>1 DEF Closure, Present
  <2>2. CASE i # j
    <3>1. jobs[i] = "live" /\ n \in pins[i]
      BY <1>2, <1>3, <2>2 DEF IInv, TypeOK
    <3> QED BY <3>1 DEF IInv, StoreInv, PinsOK
  <2> QED BY <2>1, <2>2
<1> QED BY <1>1, <1>2, <1>4, <1>6, <1>7, ReaderMoves

LEMMA RefuseRunKeeps ==
    ASSUME IInv, NEW j \in Runs, RefuseRun(j)
    PROVE  StoreInv'
<1>1. j \in Threads /\ j \notin Deleters /\ j # None /\ Label(j) = {"idle", "load", "pin"}
  BY ThreadFacts, LabelFacts
<1>2. /\ pc[j] = "pin" /\ pc' = [pc EXCEPT ![j] = "idle"]
      /\ lock' = None /\ copy' = [copy EXCEPT ![j] = NoBodies]
      /\ UNCHANGED <<doc, packaged, draft, plan, jobs, pins>>
  BY DEF RefuseRun, Goto, Forget, runState, process
<1>3. \A u \in Threads \ {j} : pc'[u] = pc[u] /\ copy'[u] = copy[u]
  BY <1>1, <1>2 DEF IInv, TypeOK
<1>4. lock = j
  BY <1>2 DEF IInv, StoreInv, LockOK
<1>5. LockOK'
  BY <1>1, <1>2, <1>3, <1>4, ThreadFacts DEF IInv, StoreInv, LockOK, Deleting, TypeOK
<1>6. PinsOK'
  BY <1>2 DEF IInv, StoreInv, PinsOK
<1> QED BY <1>1, <1>2, <1>3, <1>5, <1>6, ReaderMoves

(* The operators of a request are registered by a thread that has no copy of *)
(* the document left.                                                        *)
LEMMA RegisterOwnKeeps ==
    ASSUME IInv, NEW t \in Runs \cup Sessions, RegisterOwn(t)
    PROVE  StoreInv'
<1>1. t \in Threads /\ t \in Readers \cup Runs \cup Sessions
  BY ThreadFacts
<1>2. PICK o : copy' = [copy EXCEPT ![t][o[1]] = o[2]]
  BY DEF RegisterOwn
<1>3. \A u \in Threads \ {t} : copy'[u] = copy[u]
  BY <1>1, <1>2 DEF IInv, TypeOK
<1>4. /\ pc[t] \in {"pin", "extend"}
      /\ UNCHANGED <<doc, packaged, lock, pc, draft, plan, jobs, pins>>
  BY DEF RegisterOwn, runState, process
<1>5. pc[t] \in Label(t)
  BY <1>1 DEF IInv, StoreInv, PlacesOK
<1>6. pc' = [pc EXCEPT ![t] = pc[t]]
  BY <1>1, <1>4 DEF IInv, TypeOK
<1>7. LockOK' /\ PinsOK'
  BY <1>4 DEF IInv, StoreInv, LockOK, PinsOK, Deleting
<1>8. pc[t] \notin {"load", "load_test"}
  BY <1>4
<1> QED BY <1>1, <1>3, <1>4, <1>5, <1>6, <1>7, <1>8, ReaderMoves

LEMMA EndRunKeeps ==
    ASSUME IInv, NEW j \in Runs, EndRun(j)
    PROVE  StoreInv'
<1>1. /\ jobs' = [jobs EXCEPT ![j] = "over"]
      /\ UNCHANGED <<doc, packaged, lock, pc, copy, draft, plan, pins>>
  BY DEF EndRun, process
<1>2. PinsOK'
  BY <1>1 DEF IInv, StoreInv, PinsOK, TypeOK
<1>3. Merged' = Merged
  BY <1>1 DEF Merged, NeedsMerge, CatalogBody
<1>4. PlacesOK' /\ LockOK' /\ EditsOK' /\ DeletesOK'
  BY <1>1 DEF IInv, StoreInv, PlacesOK, LockOK, EditsOK, DeletesOK, Editing, Deleting
<1>5. CopiesOK'
  BY <1>1, <1>3 DEF IInv, StoreInv, CopiesOK, Holds
<1>6. PlansOK'
  BY <1>1 DEF IInv, StoreInv, PlansOK, PlanOK
<1> QED BY <1>1, <1>2, <1>4, <1>5, <1>6 DEF IInv, StoreInv

-----------------------------------------------------------------------------
(* The catalog is merged while nobody has a copy.                            *)
LEMMA CatalogBodyFacts ==
    ASSUME IInv, NEW m \in Managed, NeedsMerge(m)
    PROVE  CatalogBody(m) \in Body /\ CatalogBody(m).uses = {}
<1>1. m \in Families
  BY FormulaAssumption
<1>2. CASE packaged[m] # None
  <2>1. packaged[m] \in Calcs
    BY <1>2 DEF IInv, TypeOK
  <2>2. CatalogBody(m) = [uses |-> {}, calc |-> packaged[m], active |-> TRUE]
    BY <1>2 DEF CatalogBody
  <2> QED BY <2>1, <2>2 DEF Body
<1>3. CASE packaged[m] = None
  <2>1. m \in Known(doc)
    BY <1>3 DEF NeedsMerge
  <2> DEFINE old == LatestBody(doc, m)
  <2>2. LatestName(doc, m) \in Runtimes /\ doc[LatestName(doc, m)] # None
        /\ LatestName(doc, m)[1] = m
    BY <2>1, LatestIsGreatest DEF LatestName
  <2>3. old \in Body /\ old.uses = {}
    BY <2>2 DEF IInv, StoreInv, DocOK, MaybeBodies, ManagedStandAlone, LatestBody, Present
  <2>4. CatalogBody(m) = [old EXCEPT !.active = FALSE]
    BY <1>3 DEF CatalogBody
  <2> HIDE DEF old
  <2> QED BY <2>3, <2>4 DEF Body
<1> QED BY <1>2, <1>3

LEMMA MergeCatalogKeeps ==
    ASSUME IInv, NEW m \in Managed, MergeCatalog(m)
    PROVE  /\ StoreInv'
           /\ \A n \in Runtimes : doc[n] # None => doc'[n] = doc[n]
<1> DEFINE name == <<m, NextRevision(doc, m)>>
           body == CatalogBody(m)
<1>1. m \in Families
  BY FormulaAssumption
<1>2. /\ NeedsMerge(m) /\ doc' = [doc EXCEPT ![name] = body]
      /\ NextRevision(doc, m) \in Revisions
      /\ UNCHANGED <<packaged, lock, pc, copy, draft, plan, jobs, pins>>
  BY DEF MergeCatalog, runState, process
<1>3. body \in Body /\ body.uses = {} /\ body # None
  BY <1>2, CatalogBodyFacts, RuntimeFacts
<1>4. name \in Runtimes /\ doc[name] = None /\ name[1] = m /\ name[2] = NextRevision(doc, m)
      /\ (name[2] = 1 \/ doc[<<name[1], name[2] - 1>>] # None)
  BY <1>1, <1>2, NextIsNew
<1>5. doc \in MaybeBodies /\ Contiguous(doc) /\ ManagedStandAlone(doc)
  BY DEF IInv, StoreInv, DocOK
<1> HIDE DEF name, body
<1>6. \A n \in Runtimes : doc'[n] = IF n = name THEN body ELSE doc[n]
  BY <1>2, <1>5 DEF MaybeBodies
<1>7. doc' \in MaybeBodies
  BY <1>2, <1>3, <1>4, <1>5 DEF MaybeBodies
<1>8. Contiguous(doc')
  <2> SUFFICES ASSUME NEW n \in Runtimes, doc'[n] # None, n[2] # 1
               PROVE  doc'[<<n[1], n[2] - 1>>] # None
    BY DEF Contiguous, Present
  <2>1. <<n[1], n[2] - 1>> \in Runtimes
    BY PredecessorIsARuntime
  <2>2. doc[<<n[1], n[2] - 1>>] # None
    BY <1>4, <1>5, <1>6 DEF Contiguous, Present
  <2> QED BY <1>3, <1>6, <2>1, <2>2
<1>9. ManagedStandAlone(doc')
  BY <1>3, <1>5, <1>6 DEF ManagedStandAlone, Present
<1>10. \A t \in Threads : ~Holds(t) /\ ~Holds(t)'
  BY <1>2 DEF IInv, StoreInv, CopiesOK, Merged, Holds
<1>11. CopiesOK'
  BY <1>10 DEF CopiesOK
<1>12. EditsOK' /\ PlansOK' /\ DeletesOK'
  BY <1>10, ThreadFacts DEF EditsOK, PlansOK, DeletesOK, Holds, Editing, Deleting
<1>13. PlacesOK' /\ LockOK'
  BY <1>2 DEF IInv, StoreInv, PlacesOK, LockOK, Deleting
<1>14. \A n \in Runtimes : doc[n] # None => doc'[n] = doc[n]
  BY <1>4, <1>6
<1>15. PinsOK'
  BY <1>2, <1>14 DEF IInv, StoreInv, PinsOK
<1> QED BY <1>7, <1>8, <1>9, <1>11, <1>12, <1>13, <1>14, <1>15 DEF StoreInv, DocOK

-----------------------------------------------------------------------------
(* Steps that touch only registry, artifacts or tests, restarts, the start.  *)

LEMMA AsideKeeps ==
    ASSUME IInv,
           \/ UNCHANGED vars
           \/ \E r \in Readers : EndTest(r) \/ KeepTest(r) \/ ClearTest(r)
           \/ \E k \in Results : SaveResult(k)
           \/ \E a \in Sessions \cup Results : DeleteArtifact(a) \/ Materialize(a)
           \/ \E n \in Runtimes : RemoveOperator(n)
           \/ AddOperator
    PROVE  StoreInv' /\ UNCHANGED <<doc, pc, copy, jobs, pins>>
<1>1. UNCHANGED core
  BY DEF vars, core, EndTest, KeepTest, ClearTest, SaveResult, DeleteArtifact, Materialize,
         RemoveOperator, AddOperator, runState, process
<1> QED BY <1>1, Aside DEF IInv, core

LEMMA RestartKeeps ==
    ASSUME IInv, Restart
    PROVE  StoreInv'
<1>1. /\ doc' = doc /\ pc' = [t \in Threads |-> "idle"]
      /\ jobs' = [j \in Runs |-> IF jobs[j] = "live" THEN "over" ELSE jobs[j]]
  BY DEF Restart
<1>2. \A t \in Threads : pc'[t] = "idle"
  BY <1>1
<1>3. PlacesOK'
  BY <1>2 DEF PlacesOK, Label
<1>4. LockOK' /\ CopiesOK' /\ EditsOK' /\ PlansOK' /\ DeletesOK'
  BY <1>2, ThreadFacts DEF LockOK, CopiesOK, EditsOK, PlansOK, DeletesOK, Holds, Editing, Deleting
<1>5. PinsOK'
  BY <1>1 DEF PinsOK
<1> QED BY <1>1, <1>3, <1>4, <1>5 DEF IInv, StoreInv

LEMMA StoreInitially ==
    ASSUME Init
    PROVE  StoreInv
<1>1. DocOK(doc)
  BY FormulaAssumption, StoresAssumption DEF Init, DocOK, MaybeBodies
<1>2. \A t \in Threads : pc[t] = "idle"
  BY DEF Init
<1>3. PlacesOK
  BY <1>2 DEF PlacesOK, Label
<1>4. LockOK /\ CopiesOK /\ EditsOK /\ PlansOK /\ DeletesOK
  BY <1>2, ThreadFacts DEF LockOK, CopiesOK, EditsOK, PlansOK, DeletesOK, Holds, Editing, Deleting
<1>5. PinsOK
  BY DEF Init, PinsOK
<1> QED BY <1>1, <1>3, <1>4, <1>5 DEF StoreInv

LEMMA StoreKept ==
    ASSUME IInv, OneEditor, [Next]_vars
    PROVE  StoreInv'
<1>1. ASSUME NEW m \in Managed, MergeCatalog(m) PROVE StoreInv'
  BY <1>1, MergeCatalogKeeps
<1>2. ASSUME NEW e \in Editors,
             BeginEdit(e) \/ PlanEdit(e) \/ RefuseEdit(e) \/ RegisterEdit(e) \/ WriteEdit(e)
      PROVE  StoreInv'
  BY <1>2, BeginEditKeeps, PlanEditKeeps, RefuseEditKeeps, RegisterEditKeeps, WriteEditKeeps
<1>3. ASSUME NEW d \in Deleters, BeginDelete(d) \/ Unregister(d) \/ WriteDelete(d)
      PROVE  StoreInv'
  BY <1>3, BeginDeleteKeeps, UnregisterKeeps, WriteDeleteKeeps
<1>4. ASSUME NEW j \in Runs, RunStep(j) PROVE StoreInv'
  BY <1>4, BeginRunKeeps, LoadForRunKeeps, SubmitRunKeeps, RefuseRunKeeps, EndRunKeeps
     DEF RunStep
<1> QED BY <1>1, <1>2, <1>3, <1>4, ReaderKeeps, SessionKeeps, RegisterOwnKeeps, AsideKeeps,
        RestartKeeps DEF Next, RunStep, SessionStep

-----------------------------------------------------------------------------
(* Types.                                                                    *)

LEMMA OverlayTyped ==
    ASSUME NEW x \in MaybeBodies, NEW y \in MaybeBodies
    PROVE  Overlay(x, y) \in MaybeBodies
  BY DEF Overlay, MaybeBodies

LEMMA LoadedTyped ==
    ASSUME NEW d \in MaybeBodies, registry \in MaybeBodies
    PROVE  Loaded(d) \in MaybeBodies
<1> DEFINE registered == UNION {S \in SUBSET (Standing(d) \cup Present(d)) :
                                   \A n \in S : n \in Standing(d) \/ d[n].uses \subseteq S}
<1>1. Loaded(d) = [n \in Runtimes |->
         IF n \notin registered THEN None ELSE IF d[n] # None THEN d[n] ELSE registry[n]]
  BY DEF Loaded
<1> HIDE DEF registered
<1> QED BY <1>1 DEF MaybeBodies

LEMMA ClosureTyped ==
    ASSUME NEW d, NEW start
    PROVE  Closure(d, start) \in SUBSET Runtimes
  BY DEF Closure, Present

LEMMA EmptyTyped ==
    NoBodies \in MaybeBodies /\ NoDraft \in [family : Families \cup {None}, body : Body \cup {None},
                                             upgrade : BOOLEAN]
    /\ Untested \in [names : SUBSET Runtimes, ran : MaybeBodies]
  BY DEF NoBodies, NoDraft, Untested, MaybeBodies

Places == {"idle", "edit", "register", "write", "delete", "remove", "load", "load_test",
           "resolve", "expand", "pin", "save", "extend"}
Drafts == [family : Families \cup {None}, body : Body \cup {None}, upgrade : BOOLEAN]

LEMMA DoneTyped ==
    ASSUME IInv, NEW e \in Editors, Done(e)
    PROVE  /\ pc' \in [Threads -> Places] /\ copy' \in [Threads -> MaybeBodies]
           /\ draft' \in [Editors \cup Deleters -> Drafts] /\ plan' \in [Editors -> MaybeBodies]
<1>1. /\ pc' = [pc EXCEPT ![e] = "idle"] /\ copy' = [copy EXCEPT ![e] = NoBodies]
      /\ draft' = [draft EXCEPT ![e] = NoDraft] /\ plan' = [plan EXCEPT ![e] = NoBodies]
  BY DEF Done, Goto, Forget
<1>2. NoBodies \in MaybeBodies /\ NoDraft \in Drafts
  BY EmptyTyped DEF Drafts
<1>3. pc' \in [Threads -> Places]
  BY <1>1 DEF IInv, TypeOK, Places
<1>4. copy' \in [Threads -> MaybeBodies] /\ plan' \in [Editors -> MaybeBodies]
  BY <1>1, <1>2 DEF IInv, TypeOK
<1>5. draft' \in [Editors \cup Deleters -> Drafts]
  BY <1>1, <1>2 DEF IInv, TypeOK, Drafts
<1> QED BY <1>3, <1>4, <1>5

LEMMA EndDeleteTyped ==
    ASSUME IInv, NEW d \in Deleters, EndDelete(d)
    PROVE  /\ pc' \in [Threads -> Places] /\ copy' \in [Threads -> MaybeBodies]
           /\ draft' \in [Editors \cup Deleters -> Drafts]
           /\ lock' \in Deleters \cup Runs \cup {None}
<1>1. /\ pc' = [pc EXCEPT ![d] = "idle"] /\ copy' = [copy EXCEPT ![d] = NoBodies]
      /\ draft' = [draft EXCEPT ![d] = NoDraft] /\ lock' = None
  BY DEF EndDelete, Goto, Forget
<1>2. NoBodies \in MaybeBodies /\ NoDraft \in Drafts
  BY EmptyTyped DEF Drafts
<1>3. pc' \in [Threads -> Places]
  BY <1>1 DEF IInv, TypeOK, Places
<1>4. copy' \in [Threads -> MaybeBodies]
  BY <1>1, <1>2 DEF IInv, TypeOK
<1>5. draft' \in [Editors \cup Deleters -> Drafts]
  BY <1>1, <1>2 DEF IInv, TypeOK, Drafts
<1> QED BY <1>1, <1>3, <1>4, <1>5

LEMMA EditTyped ==
    ASSUME IInv, DocOK(doc)', NEW e \in Editors,
           BeginEdit(e) \/ PlanEdit(e) \/ RefuseEdit(e) \/ RegisterEdit(e) \/ WriteEdit(e)
    PROVE  TypeOK'
<1>1. e \in Threads /\ e \in Editors \cup Deleters
  BY ThreadFacts
<1>2. CASE BeginEdit(e)
  <2>1. PICK f \in Families \ Managed, b \in UserBodies, up \in BOOLEAN :
           draft' = [draft EXCEPT ![e] = [family |-> f, body |-> b, upgrade |-> up]]
    BY <1>2 DEF BeginEdit
  <2>2. b \in Body
    BY FormulaAssumption
  <2>3. requests' \in 0 .. MaxRequests
    BY <1>2, FormulaAssumption DEF BeginEdit, Request, IInv, TypeOK
  <2> QED BY <1>1, <1>2, <2>1, <2>2, <2>3 DEF BeginEdit, Read, Goto, IInv, TypeOK, DocOK,
             runState, artifacts, history, testState
<1>3. CASE PlanEdit(e)
  <2>1. /\ Editing(e) /\ Room(e) /\ plan' = [plan EXCEPT ![e] = Planned(e)]
        /\ draft[e].family \in Known(copy[e]) => draft[e].family \in Known(doc)
    BY <1>3 DEF PlanEdit, Editing
  <2>2. PICK label \in {"register", "write"} : pc' = [pc EXCEPT ![e] = label]
    BY <1>3 DEF PlanEdit, Goto
  <2>3. Planned(e) \in MaybeBodies
    BY <2>1, EditFacts, SameCalculation, NewCalculation DEF IInv, StoreInv
  <2> QED BY <1>1, <1>3, <2>1, <2>2, <2>3 DEF PlanEdit, IInv, TypeOK, DocOK,
             runState, artifacts, process, history, testState
<1>4. CASE RefuseEdit(e)
  BY <1>4, DoneTyped DEF RefuseEdit, Places, Drafts, IInv, TypeOK, DocOK,
     runState, artifacts, process, history, testState
<1>5. CASE RegisterEdit(e)
  <2>1. CASE Done(e)
    <3>1. registry' \in MaybeBodies
      BY <1>5, OverlayTyped DEF RegisterEdit, IInv, TypeOK
    <3> QED BY <1>5, <2>1, <3>1, DoneTyped DEF RegisterEdit, Places, Drafts, IInv, TypeOK, DocOK,
       runState, artifacts, process, history, testState
  <2>2. CASE ~Done(e)
    <3>1. registry' \in MaybeBodies
      BY <1>5, OverlayTyped DEF RegisterEdit, IInv, TypeOK
    <3> QED BY <1>1, <1>5, <2>2, <3>1 DEF RegisterEdit, Goto, IInv, TypeOK, DocOK,
       runState, artifacts, process, history, testState
  <2> QED BY <2>1, <2>2
<1>6. CASE WriteEdit(e)
  <2>1. Done(e) /\ gone' \subseteq Runtimes
    BY <1>6 DEF WriteEdit, IInv, TypeOK, Present
  <2> QED BY <1>6, <2>1, DoneTyped DEF WriteEdit, Places, Drafts, IInv, TypeOK, DocOK,
     runState, artifacts, process, testState
<1> QED BY <1>2, <1>3, <1>4, <1>5, <1>6

LEMMA DeleteTyped ==
    ASSUME IInv, DocOK(doc)', NEW d \in Deleters, BeginDelete(d) \/ Unregister(d) \/ WriteDelete(d)
    PROVE  TypeOK'
<1>1. d \in Threads /\ d \in Editors \cup Deleters
  BY ThreadFacts
<1>2. CASE BeginDelete(d)
  <2>1. PICK f \in Known(doc) \ Managed :
           draft' = [draft EXCEPT ![d] = [NoDraft EXCEPT !.family = f]]
    BY <1>2 DEF BeginDelete
  <2>2. [NoDraft EXCEPT !.family = f] \in [family : Families \cup {None}, body : Body \cup {None},
                                           upgrade : BOOLEAN]
    BY EmptyTyped DEF Known, NoDraft
  <2>3. requests' \in 0 .. MaxRequests
    BY <1>2, FormulaAssumption DEF BeginDelete, Request, IInv, TypeOK
  <2> QED BY <1>1, <1>2, <2>1, <2>2, <2>3 DEF BeginDelete, Read, Goto, IInv, TypeOK, DocOK,
             runState, artifacts, history, testState
<1>3. CASE Unregister(d)
  <2>1. registry' \in MaybeBodies
    BY <1>3 DEF Unregister, IInv, TypeOK, MaybeBodies
  <2>2. CASE EndDelete(d)
    BY <1>3, <2>1, <2>2, EndDeleteTyped DEF Unregister, Places, Drafts, IInv, TypeOK, DocOK,
       runState, artifacts, process, history, testState
  <2>3. CASE ~EndDelete(d)
    BY <1>1, <1>3, <2>1, <2>3 DEF Unregister, Goto, IInv, TypeOK, DocOK,
       runState, artifacts, process, history, testState
  <2> QED BY <2>2, <2>3
<1>4. CASE WriteDelete(d)
  <2>1. EndDelete(d) /\ gone' \subseteq Runtimes
    BY <1>4 DEF WriteDelete, IInv, TypeOK, Present
  <2> QED BY <1>4, <2>1, EndDeleteTyped DEF WriteDelete, Places, Drafts, IInv, TypeOK, DocOK,
     runState, artifacts, process, testState
<1> QED BY <1>2, <1>3, <1>4

LEMMA ReaderTyped ==
    ASSUME IInv, DocOK(doc)', NEW r \in Readers,
           \/ BeginLoad(r) \/ Load(r) \/ BeginTest(r) \/ LoadForTest(r) \/ Resolve(r)
           \/ Expand(r) \/ RefuseTest(r)
    PROVE  TypeOK'
<1>1. r \in Threads /\ r \in Readers \cup Results /\ copy[r] \in MaybeBodies
  BY ThreadFacts DEF IInv, TypeOK
<1>2. CASE BeginLoad(r) \/ BeginTest(r)
  <2>1. requests' \in 0 .. MaxRequests
    BY <1>2, FormulaAssumption DEF BeginLoad, BeginTest, Request, IInv, TypeOK
  <2>2. copy' \in [Threads -> MaybeBodies]
    BY <1>1, <1>2 DEF BeginLoad, BeginTest, Read, IInv, TypeOK, DocOK
  <2>3. pc' \in [Threads -> Places]
    BY <1>1, <1>2 DEF BeginLoad, BeginTest, Goto, IInv, TypeOK, Places
  <2> QED BY <1>2, <2>1, <2>2, <2>3 DEF BeginLoad, BeginTest, IInv, TypeOK, DocOK, Places,
             runState, artifacts, history, testState
<1>3. CASE Load(r)
  BY <1>1, <1>3, EmptyTyped, LoadedTyped DEF Load, Forget, Goto, IInv, TypeOK, DocOK,
     runState, artifacts, process, history, testState
<1>4. CASE LoadForTest(r)
  <2>1. registry' \in MaybeBodies
    BY <1>1, <1>4, LoadedTyped DEF LoadForTest, IInv, TypeOK
  <2> DEFINE left == [n \in Runtimes |-> IF registry'[n] = None THEN copy[r][n] ELSE None]
  <2>2. left \in MaybeBodies
    BY <1>1 DEF MaybeBodies
  <2>3. copy' = [copy EXCEPT ![r] = left]
    BY <1>4 DEF LoadForTest
  <2> HIDE DEF left
  <2> QED BY <1>1, <1>4, <2>1, <2>2, <2>3 DEF LoadForTest, Goto, IInv, TypeOK, DocOK,
     runState, artifacts, process, history, testState
<1>5. CASE Resolve(r)
  <2>1. PICK start :
           tested' = [tested EXCEPT ![r].names = Closure(doc, start),
                                    ![r].ran = [n \in Runtimes |->
                                          IF n \in start THEN registry[n] ELSE None]]
    BY <1>5 DEF Resolve
  <2> DEFINE names == Closure(doc, start)
             ran == [n \in Runtimes |-> IF n \in start THEN registry[n] ELSE None]
  <2>2. names \in SUBSET Runtimes /\ ran \in MaybeBodies
    BY ClosureTyped DEF IInv, TypeOK, MaybeBodies
  <2>3. tested' = [tested EXCEPT ![r].names = names, ![r].ran = ran]
    BY <2>1
  <2> HIDE DEF names, ran
  <2>4. tested' \in [Readers \cup Results -> [names : SUBSET Runtimes, ran : MaybeBodies]]
    <3>1. tested \in [Readers \cup Results -> [names : SUBSET Runtimes, ran : MaybeBodies]]
      BY DEF IInv, TypeOK
    <3> DEFINE row == [tested[r] EXCEPT !.names = names, !.ran = ran]
    <3>2. tested' = [tested EXCEPT ![r] = row]
      BY <2>3, <3>1
    <3>3. row \in [names : SUBSET Runtimes, ran : MaybeBodies]
      <4>1. tested[r] \in [names : SUBSET Runtimes, ran : MaybeBodies]
        BY <1>1, <3>1
      <4> QED BY <2>2, <4>1
    <3> HIDE DEF row
    <3> QED BY <3>1, <3>2, <3>3
  <2>5. /\ copy' = [copy EXCEPT ![r] = NoBodies] /\ pc' = [pc EXCEPT ![r] = "expand"]
        /\ UNCHANGED <<doc, registry, lock, draft, plan, runState, artifacts,
                       removed, process, gone, brought, tests, keeps>>
    BY <1>5 DEF Resolve, Forget, Goto
  <2>6. copy' \in [Threads -> MaybeBodies]
    BY <1>1, <2>5, EmptyTyped DEF IInv, TypeOK
  <2>7. pc' \in [Threads -> Places]
    BY <1>1, <2>5 DEF IInv, TypeOK, Places
  <2> QED BY <2>4, <2>5, <2>6, <2>7 DEF IInv, TypeOK, DocOK, Places, runState, artifacts, process
<1>6. CASE Expand(r)
  <2> DEFINE needed == Closure(registry, Present(tested[r].ran))
             ran == [n \in Runtimes |-> IF n \in needed THEN registry[n] ELSE None]
  <2>1. tested' = [tested EXCEPT ![r].ran = ran] /\ tests' = [tests EXCEPT ![r] = "live"]
    BY <1>6 DEF Expand
  <2> HIDE DEF needed
  <2>2. ran \in MaybeBodies
    BY DEF IInv, TypeOK, MaybeBodies
  <2> HIDE DEF ran
  <2>3. tested' \in [Readers \cup Results -> [names : SUBSET Runtimes, ran : MaybeBodies]]
    BY <1>1, <2>1, <2>2 DEF IInv, TypeOK
  <2> QED BY <1>1, <1>6, <2>1, <2>3 DEF Expand, Goto, IInv, TypeOK, DocOK,
     runState, artifacts, process
<1>7. CASE RefuseTest(r)
  BY <1>1, <1>7, EmptyTyped DEF RefuseTest, Forget, Goto, IInv, TypeOK, DocOK,
     runState, artifacts, process
<1> QED BY <1>2, <1>3, <1>4, <1>5, <1>6, <1>7

LEMMA RunTyped ==
    ASSUME IInv, DocOK(doc)', NEW j \in Runs, RunStep(j)
    PROVE  TypeOK'
<1>1. j \in Threads /\ copy[j] \in MaybeBodies
  BY ThreadFacts DEF IInv, TypeOK
<1>2. CASE BeginRun(j)
  <2>1. requests' \in 0 .. MaxRequests
    BY <1>2, FormulaAssumption DEF BeginRun, Request, IInv, TypeOK
  <2> QED BY <1>1, <1>2, <2>1 DEF BeginRun, Read, Goto, IInv, TypeOK, DocOK,
             runState, artifacts, history, testState
<1>3. CASE LoadForRun(j)
  BY <1>1, <1>3, EmptyTyped, LoadedTyped DEF LoadForRun, Forget, Goto, IInv, TypeOK, DocOK,
     runState, artifacts, process, history, testState
<1>4. CASE SubmitRun(j)
  <2>1. PICK start : pins' = [pins EXCEPT ![j] = Closure(doc, start)]
    BY <1>4 DEF SubmitRun, PinsOf
  <2>2. pins' \in [Runs -> SUBSET Runtimes]
    BY <2>1, ClosureTyped DEF IInv, TypeOK
  <2>3. copy' \in [Threads -> MaybeBodies] /\ pc' \in [Threads -> Places]
    BY <1>1, <1>4, EmptyTyped DEF SubmitRun, Forget, Goto, IInv, TypeOK, Places
  <2> QED BY <1>1, <1>4, <2>2, <2>3 DEF SubmitRun, Places, IInv, TypeOK, DocOK,
     runState, artifacts, process, history, testState
<1>5. CASE RefuseRun(j)
  <2>1. copy' \in [Threads -> MaybeBodies] /\ pc' \in [Threads -> Places]
    BY <1>1, <1>5, EmptyTyped DEF RefuseRun, Forget, Goto, IInv, TypeOK, Places
  <2> QED BY <1>5, <2>1 DEF RefuseRun, Places, IInv, TypeOK, DocOK,
     runState, artifacts, process, history, testState
<1>6. CASE EndRun(j)
  BY <1>6 DEF EndRun, IInv, TypeOK, DocOK, runState, artifacts, process, history, testState
<1> QED BY <1>2, <1>3, <1>4, <1>5, <1>6 DEF RunStep

LEMMA SessionTyped ==
    ASSUME IInv, DocOK(doc)', NEW s \in Sessions, SessionStep(s)
    PROVE  TypeOK'
<1>1. s \in Threads /\ copy[s] \in MaybeBodies /\ s \in Sessions \cup Results
  BY ThreadFacts DEF IInv, TypeOK
<1>2. CASE BeginSession(s)
  <2>1. requests' \in 0 .. MaxRequests
    BY <1>2, FormulaAssumption DEF BeginSession, Request, IInv, TypeOK
  <2> QED BY <1>1, <1>2, <2>1 DEF BeginSession, Read, Goto, IInv, TypeOK, DocOK,
             runState, artifacts, history, testState
<1>3. CASE LoadForSession(s)
  BY <1>1, <1>3, EmptyTyped, LoadedTyped DEF LoadForSession, Forget, Goto, IInv, TypeOK, DocOK,
     runState, artifacts, process, history, testState
<1>4. CASE PinSession(s)
  <2> DEFINE latest == [n \in Runtimes |-> IF n[1] \in Known(doc) /\ n = LatestName(doc, n[1])
                                           THEN doc[n] ELSE None]
  <2>1. pinned' = [pinned EXCEPT ![s] = latest]
    BY <1>4 DEF PinSession
  <2>2. latest \in MaybeBodies
    BY DEF IInv, TypeOK, MaybeBodies
  <2> HIDE DEF latest
  <2>3. pinned' \in [Sessions \cup Results -> MaybeBodies]
    BY <2>1, <2>2 DEF IInv, TypeOK
  <2>4. own' \in [Sessions \cup Results -> MaybeBodies]
    BY <1>1, <1>4 DEF PinSession, IInv, TypeOK
  <2>5. copy' \in [Threads -> MaybeBodies] /\ pc' \in [Threads -> Places]
    BY <1>1, <1>4, EmptyTyped DEF PinSession, Forget, Goto, IInv, TypeOK, Places
  <2> QED BY <1>4, <2>3, <2>4, <2>5 DEF PinSession, Places, IInv, TypeOK, DocOK,
     runState, process, history, testState
<1>5. CASE SaveSession(s)
  BY <1>1, <1>5 DEF SaveSession, Goto, IInv, TypeOK, DocOK, runState, process, history, testState
<1>6. CASE ExtendSession(s)
  <2>1. requests' \in 0 .. MaxRequests
    BY <1>6, FormulaAssumption DEF ExtendSession, Request, IInv, TypeOK
  <2> QED BY <1>1, <1>6, <2>1 DEF ExtendSession, Goto, IInv, TypeOK, DocOK,
             runState, artifacts, history, testState
<1>7. CASE SaveOperators(s)
  <2>1. Overlay(own[s], copy[s]) \in MaybeBodies
    BY <1>1, OverlayTyped DEF IInv, TypeOK
  <2>2. own' \in [Sessions \cup Results -> MaybeBodies]
    BY <1>1, <1>7, <2>1 DEF SaveOperators, IInv, TypeOK
  <2>3. copy' \in [Threads -> MaybeBodies] /\ pc' \in [Threads -> Places]
    BY <1>1, <1>7, EmptyTyped DEF SaveOperators, Forget, Goto, IInv, TypeOK, Places
  <2> QED BY <1>7, <2>2, <2>3 DEF SaveOperators, Places, IInv, TypeOK, DocOK,
     runState, process, history, testState
<1>8. CASE RefuseSession(s)
  <2>1. copy' \in [Threads -> MaybeBodies] /\ pc' \in [Threads -> Places]
    BY <1>1, <1>8, EmptyTyped DEF RefuseSession, Forget, Goto, IInv, TypeOK, Places
  <2> QED BY <1>8, <2>1 DEF RefuseSession, Places, IInv, TypeOK, DocOK,
     runState, artifacts, process, history, testState
<1> QED BY <1>2, <1>3, <1>4, <1>5, <1>6, <1>7, <1>8 DEF SessionStep

(* A body registered by name, from a request or from what is embedded.       *)
LEMMA RegisterTyped ==
    ASSUME registry \in MaybeBodies, NEW n \in Runtimes, NEW b \in Body, Register(n, b)
    PROVE  registry' \in MaybeBodies
  BY DEF Register, MaybeBodies

LEMMA OwnTyped ==
    ASSUME IInv, DocOK(doc)', NEW t \in Runs \cup Sessions, RegisterOwn(t)
    PROVE  TypeOK'
<1>1. t \in Threads /\ copy[t] \in MaybeBodies
  BY ThreadFacts DEF IInv, TypeOK
<1>2. PICK o \in Operators :
         /\ Register(o[1], o[2]) \/ registry' = registry
         /\ copy' = [copy EXCEPT ![t][o[1]] = o[2]] /\ brought' = brought \cup {o}
  BY DEF RegisterOwn
<1>3. o[1] \in Runtimes /\ o[2] \in Body
  BY FormulaAssumption
<1>4. registry' \in MaybeBodies
  BY <1>2, <1>3, RegisterTyped DEF IInv, TypeOK
<1> DEFINE row == [copy[t] EXCEPT ![o[1]] = o[2]]
<1>5. row \in MaybeBodies
  BY <1>1, <1>3 DEF MaybeBodies
<1>6. copy' = [copy EXCEPT ![t] = row]
  BY <1>2
<1> HIDE DEF row
<1>7. copy' \in [Threads -> MaybeBodies]
  BY <1>1, <1>5, <1>6 DEF IInv, TypeOK
<1>8. brought' \subseteq Operators
  BY <1>2 DEF IInv, TypeOK
<1> QED BY <1>4, <1>7, <1>8 DEF RegisterOwn, IInv, TypeOK, DocOK, runState, artifacts, process,
        testState

LEMMA AsideTyped ==
    ASSUME IInv, DocOK(doc)',
           \/ UNCHANGED vars
           \/ \E r \in Readers : EndTest(r) \/ KeepTest(r) \/ ClearTest(r)
           \/ \E k \in Results : SaveResult(k)
           \/ \E a \in Sessions \cup Results : DeleteArtifact(a) \/ Materialize(a)
           \/ \E n \in Runtimes : RemoveOperator(n)
           \/ AddOperator
    PROVE  TypeOK'
<1>1. CASE UNCHANGED vars
  BY <1>1 DEF vars, IInv, TypeOK, runState, artifacts, process, history, testState, MaybeBodies
<1>2. ASSUME NEW r \in Readers, EndTest(r) PROVE TypeOK'
  BY <1>2 DEF EndTest, IInv, TypeOK, DocOK, runState, artifacts, process
<1>3. ASSUME NEW r \in Readers, KeepTest(r) PROVE TypeOK'
  <2>1. PICK k \in Results \ saved :
           /\ saved' = saved \cup {k} /\ keeps' = [keeps EXCEPT ![r] = k]
           /\ tested' = [tested EXCEPT ![k] = tested[r]]
    BY <1>3 DEF KeepTest
  <2>2. requests' \in 0 .. MaxRequests
    BY <1>3, FormulaAssumption DEF KeepTest, Request, IInv, TypeOK
  <2>3. tested' \in [Readers \cup Results -> [names : SUBSET Runtimes, ran : MaybeBodies]]
    BY <2>1 DEF IInv, TypeOK
  <2> QED BY <1>3, <2>1, <2>2, <2>3 DEF KeepTest, IInv, TypeOK, DocOK, runState
<1>4. ASSUME NEW r \in Readers, ClearTest(r) PROVE TypeOK'
  BY <1>4, EmptyTyped DEF ClearTest, IInv, TypeOK, DocOK, runState, artifacts, process
<1>5. ASSUME NEW k \in Results, SaveResult(k) PROVE TypeOK'
  <2>1. PICK needed : pinned' = [pinned EXCEPT ![k] =
                        [m \in Runtimes |-> IF m \in needed THEN registry[m] ELSE None]]
    BY <1>5 DEF SaveResult
  <2> DEFINE spec == [m \in Runtimes |-> IF m \in needed THEN registry[m] ELSE None]
  <2>2. spec \in MaybeBodies
    BY DEF IInv, TypeOK, MaybeBodies
  <2>3. pinned' = [pinned EXCEPT ![k] = spec]
    BY <2>1
  <2> HIDE DEF spec
  <2>4. pinned' \in [Sessions \cup Results -> MaybeBodies]
    BY <2>2, <2>3 DEF IInv, TypeOK
  <2>5. requests' \in 0 .. MaxRequests
    BY <1>5, FormulaAssumption DEF SaveResult, Request, IInv, TypeOK
  <2> QED BY <1>5, <2>4, <2>5 DEF SaveResult, IInv, TypeOK, DocOK, runState, history, testState
<1>6. ASSUME NEW a \in Sessions \cup Results, DeleteArtifact(a) PROVE TypeOK'
  <2>1. tested' \in [Readers \cup Results -> [names : SUBSET Runtimes, ran : MaybeBodies]]
    <3>1. tested' = [x \in Readers \cup Results |-> IF x = a THEN Untested ELSE tested[x]]
      BY <1>6 DEF DeleteArtifact
    <3> QED BY <3>1, EmptyTyped DEF IInv, TypeOK
  <2> QED BY <1>6, <2>1, EmptyTyped DEF DeleteArtifact, IInv, TypeOK, DocOK, runState, process
<1>7. ASSUME NEW a \in Sessions \cup Results, Materialize(a) PROVE TypeOK'
  <2>0. PICK n \in Runtimes :
             \E b \in {pinned[a][n], own[a][n]} \ {None} : Register(n, b)
    BY <1>7 DEF Materialize
  <2>1. PICK b \in {pinned[a][n], own[a][n]} \ {None} : Register(n, b)
    BY <2>0
  <2>2. b \in Body
    BY DEF IInv, TypeOK, MaybeBodies
  <2>3. registry' \in MaybeBodies
    BY <2>1, <2>2, RegisterTyped DEF IInv, TypeOK
  <2> QED BY <1>7, <2>3 DEF Materialize, IInv, TypeOK, DocOK, runState, artifacts, process,
          history, testState
<1>8. ASSUME NEW n \in Runtimes, RemoveOperator(n) PROVE TypeOK'
  <2>1. registry' \in MaybeBodies
    BY <1>8 DEF RemoveOperator, IInv, TypeOK, MaybeBodies
  <2>2. requests' \in 0 .. MaxRequests
    BY <1>8, FormulaAssumption DEF RemoveOperator, Request, IInv, TypeOK
  <2> QED BY <1>8, <2>1, <2>2 DEF RemoveOperator, IInv, TypeOK, DocOK, runState, artifacts,
          history, testState
<1>9. ASSUME AddOperator PROVE TypeOK'
  <2>1. PICK o \in Operators : Register(o[1], o[2]) /\ brought' = brought \cup {o}
    BY <1>9 DEF AddOperator
  <2>2. o[1] \in Runtimes /\ o[2] \in Body
    BY FormulaAssumption
  <2>3. registry' \in MaybeBodies
    BY <2>1, <2>2, RegisterTyped DEF IInv, TypeOK
  <2>4. requests' \in 0 .. MaxRequests
    BY <1>9, FormulaAssumption DEF AddOperator, Request, IInv, TypeOK
  <2> QED BY <1>9, <2>1, <2>3, <2>4 DEF AddOperator, IInv, TypeOK, DocOK, runState, artifacts,
          testState
<1> QED BY <1>1, <1>2, <1>3, <1>4, <1>5, <1>6, <1>7, <1>8, <1>9

LEMMA RestartTyped ==
    ASSUME IInv, Restart
    PROVE  TypeOK'
<1>1. restarts' \in 0 .. MaxRestarts
  BY FormulaAssumption DEF Restart, IInv, TypeOK
<1>2. /\ registry' \in MaybeBodies /\ lock' \in Deleters \cup Runs \cup {None}
      /\ packaged' \in [Managed -> Calcs \cup {None}]
  BY EmptyTyped DEF Restart
<1>3. pc' \in [Threads -> Places] /\ copy' \in [Threads -> MaybeBodies]
  BY EmptyTyped DEF Restart, Places
<1>4. draft' \in [Editors \cup Deleters -> Drafts] /\ plan' \in [Editors -> MaybeBodies]
  BY EmptyTyped DEF Restart, Drafts
<1>5. jobs' \in [Runs -> {"absent", "live", "over"}]
  BY DEF Restart, IInv, TypeOK
<1>6. /\ pinned' \in [Sessions \cup Results -> MaybeBodies]
      /\ own' \in [Sessions \cup Results -> MaybeBodies]
  <2>1. /\ pinned' = [a \in Sessions \cup Results |-> IF a \in saved THEN pinned[a] ELSE NoBodies]
        /\ own' = [a \in Sessions \cup Results |-> IF a \in saved THEN own[a] ELSE NoBodies]
    BY DEF Restart
  <2> QED BY <2>1, EmptyTyped DEF IInv, TypeOK
<1>7. tested' \in [Readers \cup Results -> [names : SUBSET Runtimes, ran : MaybeBodies]]
  <2>1. tested' = [a \in Readers \cup Results |-> IF a \in Readers THEN Untested ELSE tested[a]]
    BY DEF Restart
  <2> QED BY <2>1, EmptyTyped DEF IInv, TypeOK
<1>8. tests' \in [Readers -> {"none", "live", "done", "over"}]
      /\ keeps' \in [Readers -> Results \cup {None}]
  BY DEF Restart
<1>9. removed' = {} /\ UNCHANGED <<doc, pins, saved, brought, requests>>
      /\ gone' \subseteq Runtimes
  BY DEF Restart, Unwritten, Present, IInv, TypeOK
<1>10. doc' \in MaybeBodies /\ Contiguous(doc')
  BY <1>9 DEF IInv, TypeOK
<1> QED BY <1>1, <1>2, <1>3, <1>4, <1>5, <1>6, <1>7, <1>8, <1>9, <1>10
        DEF IInv, TypeOK, Places, Drafts

LEMMA TypesInitially ==
    ASSUME Init
    PROVE  TypeOK
<1>1. doc \in MaybeBodies /\ Contiguous(doc)
  BY StoreInitially DEF StoreInv, DocOK
<1>2. 0 \in 0 .. MaxRequests /\ 0 \in 0 .. MaxRestarts
  BY FormulaAssumption
<1>3. pinned \in [Sessions \cup Results -> MaybeBodies]
      /\ own \in [Sessions \cup Results -> MaybeBodies]
      /\ tested \in [Readers \cup Results -> [names : SUBSET Runtimes, ran : MaybeBodies]]
  BY EmptyTyped DEF Init
<1>4. pc \in [Threads -> Places] /\ copy \in [Threads -> MaybeBodies]
      /\ draft \in [Editors \cup Deleters -> Drafts] /\ plan \in [Editors -> MaybeBodies]
  BY EmptyTyped DEF Init, Places, Drafts
<1>5. registry \in MaybeBodies /\ packaged \in [Managed -> Calcs \cup {None}]
  BY EmptyTyped DEF Init
<1> QED BY <1>1, <1>2, <1>3, <1>4, <1>5 DEF Init, TypeOK, Places, Drafts

LEMMA TypesKept ==
    ASSUME IInv, [Next]_vars, DocOK(doc)'
    PROVE  TypeOK'
<1>1. ASSUME NEW m \in Managed, MergeCatalog(m) PROVE TypeOK'
  BY <1>1 DEF MergeCatalog, IInv, TypeOK, DocOK, runState, artifacts, process, history, testState
<1>2. ASSUME NEW e \in Editors,
             BeginEdit(e) \/ PlanEdit(e) \/ RefuseEdit(e) \/ RegisterEdit(e) \/ WriteEdit(e)
      PROVE  TypeOK'
  BY <1>2, EditTyped
<1>3. ASSUME NEW d \in Deleters, BeginDelete(d) \/ Unregister(d) \/ WriteDelete(d)
      PROVE  TypeOK'
  BY <1>3, DeleteTyped
<1>4. ASSUME NEW j \in Runs, RunStep(j) PROVE TypeOK'
  BY <1>4, RunTyped
<1>5. ASSUME NEW s \in Sessions, SessionStep(s) PROVE TypeOK'
  BY <1>5, SessionTyped
<1>6. ASSUME NEW r \in Readers,
             \/ BeginLoad(r) \/ Load(r) \/ BeginTest(r) \/ LoadForTest(r) \/ Resolve(r)
             \/ Expand(r) \/ RefuseTest(r)
      PROVE  TypeOK'
  BY <1>6, ReaderTyped
<1> QED BY <1>1, <1>2, <1>3, <1>4, <1>5, <1>6, OwnTyped, AsideTyped, RestartTyped
        DEF Next, RunStep, SessionStep

-----------------------------------------------------------------------------
LEMMA InvariantHolds ==
    ASSUME OneEditor
    PROVE  Spec => []IInv
<1>1. Init => IInv
  BY StoreInitially, TypesInitially DEF IInv
<1>2. IInv /\ [Next]_vars => IInv'
  <2> SUFFICES ASSUME IInv, [Next]_vars PROVE IInv'
    OBVIOUS
  <2>1. StoreInv'
    BY StoreKept
  <2>2. DocOK(doc)'
    BY <2>1 DEF StoreInv
  <2>3. TypeOK'
    BY <2>2, TypesKept
  <2> QED BY <2>1, <2>3 DEF IInv
<1> QED BY <1>1, <1>2, PTL DEF Spec

(* Whatever is read, edited, deleted, tested, pinned and restarted, in any   *)
(* order, the document and all that is kept of it have their types, and the  *)
(* revisions of a family are numbered without a gap, which _latest_formula   *)
(* and the naming of the next revision rely on (app.py 3453-3462).           *)
THEOREM TypeCorrect ==
    ASSUME OneEditor
    PROVE  Spec => []TypeOK
<1>1. IInv => TypeOK
  BY DEF IInv
<1> QED BY <1>1, InvariantHolds, PTL

(* Who writes the document: the catalog, the editor and a deletion.          *)
LEMMA DocumentSteps ==
    ASSUME IInv, [Next]_vars
    PROVE  \/ doc' = doc
           \/ \E m \in Managed : MergeCatalog(m)
           \/ \E e \in Editors : WriteEdit(e)
           \/ \E d \in Deleters : WriteDelete(d)
<1>1. ASSUME NEW e \in Editors, BeginEdit(e) \/ PlanEdit(e) \/ RefuseEdit(e) \/ RegisterEdit(e)
      PROVE  doc' = doc
  BY <1>1 DEF BeginEdit, PlanEdit, RefuseEdit, RegisterEdit
<1>2. ASSUME NEW d \in Deleters, BeginDelete(d) \/ Unregister(d) PROVE doc' = doc
  BY <1>2 DEF BeginDelete, Unregister
<1>3. ASSUME NEW r \in Readers,
             \/ BeginLoad(r) \/ Load(r) \/ BeginTest(r) \/ LoadForTest(r) \/ Resolve(r)
             \/ Expand(r) \/ RefuseTest(r)
      PROVE  doc' = doc
  BY <1>3 DEF BeginLoad, Load, BeginTest, LoadForTest, Resolve, Expand, RefuseTest
<1>4. ASSUME NEW j \in Runs, RunStep(j) PROVE doc' = doc
  BY <1>4 DEF RunStep, BeginRun, LoadForRun, SubmitRun, RefuseRun, EndRun
<1>5. ASSUME NEW s \in Sessions, SessionStep(s) PROVE doc' = doc
  BY <1>5 DEF SessionStep, BeginSession, LoadForSession, PinSession, SaveSession,
     ExtendSession, SaveOperators, RefuseSession
<1>6. ASSUME Restart \/ \E t \in Runs \cup Sessions : RegisterOwn(t) PROVE doc' = doc
  BY <1>6 DEF Restart, RegisterOwn
<1> QED BY <1>1, <1>2, <1>3, <1>4, <1>5, <1>6, AsideKeeps DEF Next, RunStep, SessionStep

LEMMA BodiesStay ==
    ASSUME IInv, [Next]_vars, NEW n \in Runtimes, doc[n] # None, doc'[n] # None
    PROVE  doc'[n] = doc[n]
<1>1. ASSUME NEW m \in Managed, MergeCatalog(m) PROVE doc'[n] = doc[n]
  BY <1>1, MergeCatalogKeeps
<1>2. ASSUME NEW e \in Editors, WriteEdit(e) PROVE doc'[n] = doc[n]
  <2>1. Editing(e) /\ pc[e] = "write" /\ doc' = Overlay(copy[e], plan[e])
    BY <1>2 DEF WriteEdit, Editing
  <2>2. PlanOK(e) /\ SameManaged(copy[e], doc)
    BY <2>1, EditFacts DEF IInv, StoreInv, PlansOK
  <2>3. SubStore(doc, doc') /\ SameManaged(doc', doc)
    BY <2>1, <2>2 DEF PlanOK, SameManaged, Overlay
  <2> QED BY <2>3 DEF SubStore, SameManaged
<1>3. ASSUME NEW d \in Deleters, WriteDelete(d) PROVE doc'[n] = doc[n]
  <2>1. Deleting(d) /\ doc' = Without(copy[d], draft[d].family)
    BY <1>3 DEF WriteDelete, Deleting
  <2>2. SubStore(copy[d], doc) /\ SameManaged(copy[d], doc)
    BY <2>1, DeleteFacts
  <2> QED BY <2>1, <2>2 DEF SubStore, SameManaged, Without
<1> QED BY <1>1, <1>2, <1>3, DocumentSteps

(* A published revision is never given another body (README.md 119-120): the *)
(* editor's copy has all the document has by then, a deletion writes back a  *)
(* part of the document, and the catalog only adds.                          *)
THEOREM RevisionsCorrect ==
    ASSUME OneEditor
    PROVE  Spec => RevisionFixed
<1> DEFINE Fixed == \A n \in Runtimes : doc[n] # None /\ doc'[n] # None => doc'[n] = doc[n]
<1>1. IInv /\ [Next]_vars => [Fixed]_vars
  BY BodiesStay
<1> QED BY <1>1, InvariantHolds, PTL DEF Spec, RevisionFixed

(* A deletion leaves no formula without one it uses and the deletion read    *)
(* (app.py 3566-3600): who refers to the formula is asked of the document,   *)
(* which still has all that the deletion read.                               *)
THEOREM DeletionCorrect ==
    ASSUME OneEditor
    PROVE  Spec => DeletionSparesUsers
<1> DEFINE Spares ==
        \A d \in Deleters :
          pc[d] = "remove" /\ pc'[d] # "remove" /\ doc' # doc =>
             \A n \in Present(doc') :
                doc'[n].uses \cap Present(copy[d]) \subseteq Present(doc')
<1>1. ASSUME IInv, [Next]_vars PROVE Spares
  <2> SUFFICES ASSUME NEW d \in Deleters, pc[d] = "remove", pc'[d] # "remove", doc' # doc,
                      NEW n \in Present(doc'), NEW m \in doc'[n].uses, m \in Present(copy[d])
               PROVE  m \in Present(doc')
    OBVIOUS
  <2>1. d \in Threads /\ d \notin Editors
    BY ThreadFacts
  <2>2. ASSUME NEW c \in Managed, MergeCatalog(c) PROVE FALSE
    BY <2>2 DEF MergeCatalog
  <2>3. ASSUME NEW e \in Editors, WriteEdit(e) PROVE FALSE
    BY <1>1, <2>1, <2>3 DEF WriteEdit, Done, Goto, IInv, TypeOK
  <2>4. ASSUME NEW c \in Deleters, WriteDelete(c) PROVE c = d
    BY <1>1, <2>1, <2>4 DEF WriteDelete, EndDelete, Goto, IInv, TypeOK
  <2>5. WriteDelete(d)
    BY <1>1, <2>2, <2>3, <2>4, DocumentSteps
  <2> DEFINE f == draft[d].family
  <2>6. doc' = Without(copy[d], f) /\ Spared(copy[d], f)
    BY <1>1, <2>5 DEF WriteDelete, IInv, StoreInv, DeletesOK, Deleting
  <2>7. n \in Runtimes /\ n[1] # f /\ doc'[n] = copy[d][n] /\ copy[d][n] # None
    BY <2>6 DEF Present, Without
  <2>8. m[1] # f
    BY <2>6, <2>7 DEF Spared, Present
  <2> QED BY <2>6, <2>8 DEF Present, Without
<1>2. IInv /\ [Next]_vars => [Spares]_vars
  BY <1>1
<1> QED BY <1>2, InvariantHolds, PTL DEF Spec, DeletionSparesUsers

(* A load of a document in which every formula has what it uses keeps what   *)
(* is registered, except for catalog names the document lacks.               *)
LEMMA LoadKeepsNames ==
    ASSUME NEW d, SelfContained(d), NEW n \in Runtimes, registry[n] # None,
           n[1] \in Managed => d[n] # None
    PROVE  Loaded(d)[n] # None
<1> DEFINE all == Standing(d) \cup Present(d)
           registered == UNION {S \in SUBSET (Standing(d) \cup Present(d)) :
                                   \A k \in S : k \in Standing(d) \/ d[k].uses \subseteq S}
<1>1. \A k \in all : k \in Standing(d) \/ d[k].uses \subseteq all
  BY DEF SelfContained
<1>2. n \in all
  BY DEF Standing, Present
<1>3. n \in registered
  BY <1>1, <1>2
<1>4. Loaded(d) = [k \in Runtimes |->
         IF k \notin registered THEN None ELSE IF d[k] # None THEN d[k] ELSE registry[k]]
  BY DEF Loaded
<1> HIDE DEF registered
<1> QED BY <1>3, <1>4

(* A live run keeps what it pinned (the comment at app.py 179): whoever      *)
(* unregisters a formula has asked for live runs by a document that has all  *)
(* the deletion read, and whoever loads has the catalog the run was pinned   *)
(* from.                                                                     *)
THEOREM RunCorrect ==
    ASSUME OneEditor
    PROVE  Spec => RunKeepsItsFormulas
<1> DEFINE Keeps ==
        \A j \in Runs : jobs[j] = "live" /\ jobs'[j] = "live" =>
          \A n \in pins[j] \ removed' :
             registry[n] # None => registry'[n] # None \/ \E t \in Threads : LoadsGaps(t)
<1>1. ASSUME IInv, [Next]_vars PROVE Keeps
  <2> SUFFICES ASSUME NEW j \in Runs, jobs[j] = "live", jobs'[j] = "live",
                      NEW n \in pins[j], n \notin removed', registry[n] # None,
                      registry'[n] = None, \A t \in Threads : ~LoadsGaps(t)
               PROVE  FALSE
    OBVIOUS
  <2>1. n \in Runtimes /\ (n[1] \in Managed => doc[n] # None)
    BY <1>1 DEF IInv, StoreInv, PinsOK
  <2>2. ASSUME NEW t \in Threads, registry' = Loaded(copy[t]), pc[t] \in {"load", "load_test"},
               pc'[t] # pc[t]
        PROVE  FALSE
    <3>1. SelfContained(copy[t])
      BY <2>2 DEF LoadsGaps
    <3>2. SameManaged(copy[t], doc)
      BY <1>1, <2>2 DEF IInv, StoreInv, CopiesOK, Holds
    <3> QED BY <2>1, <2>2, <3>1, <3>2, LoadKeepsNames DEF SameManaged
  <2>3. ASSUME NEW m \in Managed, MergeCatalog(m) PROVE FALSE
    BY <2>3 DEF MergeCatalog
  <2>4. ASSUME NEW e \in Editors,
               BeginEdit(e) \/ PlanEdit(e) \/ RefuseEdit(e) \/ RegisterEdit(e) \/ WriteEdit(e)
        PROVE  FALSE
    BY <2>1, <2>4 DEF BeginEdit, PlanEdit, RefuseEdit, RegisterEdit, WriteEdit, Overlay
  <2>5. ASSUME NEW d \in Deleters, BeginDelete(d) \/ Unregister(d) \/ WriteDelete(d)
        PROVE  FALSE
    <3> DEFINE f == draft[d].family
    <3>1. pc[d] = "delete" /\ ~Referenced(f) /\ n[1] = f /\ copy[d][n] # None
      BY <2>1, <2>5 DEF BeginDelete, Unregister, WriteDelete
    <3>2. SubStore(copy[d], doc) /\ SameManaged(copy[d], doc)
      BY <1>1, <3>1, DeleteFacts DEF Deleting
    <3>3. n \in Present(doc)
      BY <2>1, <3>1, <3>2 DEF SubStore, SameManaged, Present
    <3> QED BY <3>1, <3>3 DEF Referenced, UsedBy
  <2>6. ASSUME NEW r \in Readers,
               \/ BeginLoad(r) \/ Load(r) \/ BeginTest(r) \/ LoadForTest(r) \/ Resolve(r)
               \/ Expand(r) \/ RefuseTest(r)
        PROVE  FALSE
    <3>1. r \in Threads
      BY ThreadFacts
    <3>2. CASE Load(r) \/ LoadForTest(r)
      <4>1. registry' = Loaded(copy[r]) /\ pc[r] \in {"load", "load_test"} /\ pc'[r] # pc[r]
        BY <1>1, <3>1, <3>2 DEF Load, LoadForTest, Goto, IInv, TypeOK
      <4> QED BY <2>2, <3>1, <4>1
    <3>3. CASE ~(Load(r) \/ LoadForTest(r))
      BY <2>6, <3>3 DEF BeginLoad, BeginTest, Resolve, Expand, RefuseTest
    <3> QED BY <3>2, <3>3
  <2>7. ASSUME NEW i \in Runs, RunStep(i) PROVE FALSE
    <3>1. i \in Threads
      BY ThreadFacts
    <3>2. CASE LoadForRun(i)
      <4>1. registry' = Loaded(copy[i]) /\ pc[i] = "load" /\ pc'[i] # pc[i]
        BY <1>1, <3>1, <3>2 DEF LoadForRun, Goto, IInv, TypeOK
      <4> QED BY <2>2, <3>1, <4>1
    <3>3. CASE ~LoadForRun(i)
      BY <2>7, <3>3 DEF RunStep, BeginRun, SubmitRun, RefuseRun, EndRun
    <3> QED BY <3>2, <3>3
  <2>8. ASSUME NEW s \in Sessions, SessionStep(s) PROVE FALSE
    <3>1. s \in Threads
      BY ThreadFacts
    <3>2. CASE LoadForSession(s)
      <4>1. registry' = Loaded(copy[s]) /\ pc[s] = "load" /\ pc'[s] # pc[s]
        BY <1>1, <3>1, <3>2 DEF LoadForSession, Goto, IInv, TypeOK
      <4> QED BY <2>2, <3>1, <4>1
    <3>3. CASE ~LoadForSession(s)
      BY <2>8, <3>3 DEF SessionStep, BeginSession, PinSession, SaveSession, ExtendSession,
         SaveOperators, RefuseSession
    <3> QED BY <3>2, <3>3
  <2>9. ASSUME \/ UNCHANGED vars
               \/ \E r \in Readers : EndTest(r) \/ KeepTest(r) \/ ClearTest(r)
               \/ \E k \in Results : SaveResult(k)
               \/ \E a \in Sessions \cup Results : DeleteArtifact(a)
        PROVE  FALSE
    BY <2>9 DEF vars, EndTest, KeepTest, ClearTest, SaveResult, DeleteArtifact
  <2>10. ASSUME \/ \E a \in Sessions \cup Results : Materialize(a)
                \/ AddOperator
                \/ \E t \in Runs \cup Sessions : RegisterOwn(t)
         PROVE  FALSE
    <3>1. PICK k, b : Register(k, b)
      BY <2>1, <2>10 DEF Materialize, AddOperator, RegisterOwn
    <3>2. k # n /\ registry' = [registry EXCEPT ![k] = b]
      BY <3>1 DEF Register
    <3> QED BY <1>1, <2>1, <3>2 DEF IInv, TypeOK, MaybeBodies
  <2>11. ASSUME NEW k \in Runtimes, RemoveOperator(k) PROVE FALSE
    BY <1>1, <2>1, <2>11 DEF RemoveOperator, IInv, TypeOK, MaybeBodies
  <2>12. ASSUME Restart PROVE FALSE
    BY <2>12 DEF Restart
  <2> QED BY <1>1, <2>3, <2>4, <2>5, <2>6, <2>7, <2>8, <2>9, <2>10, <2>11, <2>12
          DEF Next, RunStep, SessionStep
<1>2. IInv /\ [Next]_vars => [Keeps]_vars
  BY <1>1
<1> QED BY <1>2, InvariantHolds, PTL DEF Spec, RunKeepsItsFormulas
-----------------------------------------------------------------------------
(* Tests.  Wherever a body is kept under the name of a revision, it is the   *)
(* body the document has, or is about to get from the edit that registered   *)
(* it, or one a client brought; only for names in gone may it be another one. *)
Means(n, b) ==
    \/ doc[n] = b
    \/ doc[n] = None /\ \E e \in Editors : pc[e] = "write" /\ plan[e][n] = b
    \/ <<n, b>> \in brought

Agrees(x) == \A n \in Runtimes : n \notin gone /\ x[n] # None => Means(n, x[n])

AgreementOK ==
    /\ Agrees(registry)
    /\ \A a \in Sessions \cup Results : Agrees(pinned[a]) /\ Agrees(own[a])
    /\ \A t \in Threads : Agrees(copy[t])
    /\ \A a \in Readers \cup Results : Agrees(tested[a].ran)

(* It ran a body that a client brought in the place of one it recorded.      *)
RanBrought(a) ==
    \E n \in tested[a].names :
        tested[a].ran[n] # doc[n] /\ <<n, tested[a].ran[n]>> \in brought

(* What was recorded is in the document, and is what was expanded.           *)
Ran(a) ==
    LET names == tested[a].names
    IN  names \cap gone = {} =>
            /\ \A n \in names : doc[n] # None
            /\ RanBrought(a) \/ \A n \in names : doc[n] = tested[a].ran[n]

(* Before it is expanded: what was recorded is what the start leads to.      *)
Resolved(r) ==
    LET names == tested[r].names
    IN  names \cap gone = {} =>
            /\ \A n \in names : doc[n] # None
            /\ \A S \in SUBSET names :
                  (/\ names \cap Present(tested[r].ran) \subseteq S
                   /\ \A m \in S : doc[m].uses \cap names \subseteq S) => names \subseteq S

TestsOK ==
    /\ \A a \in Readers \cup Results :
          IF a \in Readers /\ pc[a] = "expand" THEN Resolved(a) ELSE Ran(a)
    /\ \A r \in Readers : pc[r] \in {"load_test", "resolve", "expand"} => tests[r] = "none"

LEMMA ClosureFacts ==
    ASSUME NEW d, NEW start
    PROVE  /\ start \cap Present(d) \subseteq Closure(d, start)
           /\ Closure(d, start) \subseteq Present(d)
           /\ \A m \in Closure(d, start) : d[m].uses \cap Present(d) \subseteq Closure(d, start)
  BY DEF Closure

(* How the document and the history move.                                    *)
LEMMA GoneGrows ==
    ASSUME IInv, [Next]_vars
    PROVE  /\ gone \subseteq gone' /\ brought \subseteq brought'
           /\ \A n \in Runtimes : doc[n] # None /\ n \notin gone' => doc'[n] = doc[n]
<1>1. gone \subseteq gone' /\ brought \subseteq brought'
  <2>1. ASSUME NEW m \in Managed, MergeCatalog(m) PROVE gone' = gone /\ brought' = brought
    BY <2>1 DEF MergeCatalog, history
  <2>2. ASSUME NEW e \in Editors,
               BeginEdit(e) \/ PlanEdit(e) \/ RefuseEdit(e) \/ RegisterEdit(e) \/ WriteEdit(e)
        PROVE  gone \subseteq gone' /\ brought \subseteq brought'
    BY <2>2 DEF BeginEdit, PlanEdit, RefuseEdit, RegisterEdit, WriteEdit, history
  <2>3. ASSUME NEW d \in Deleters, BeginDelete(d) \/ Unregister(d) \/ WriteDelete(d)
        PROVE  gone \subseteq gone' /\ brought \subseteq brought'
    BY <2>3 DEF BeginDelete, Unregister, WriteDelete, history
  <2>4. ASSUME NEW r \in Readers,
               \/ BeginLoad(r) \/ Load(r) \/ BeginTest(r) \/ LoadForTest(r) \/ Resolve(r)
               \/ Expand(r) \/ RefuseTest(r) \/ EndTest(r) \/ KeepTest(r) \/ ClearTest(r)
        PROVE  gone' = gone /\ brought' = brought
    BY <2>4 DEF BeginLoad, Load, BeginTest, LoadForTest, Resolve, Expand, RefuseTest,
       EndTest, KeepTest, ClearTest, history
  <2>5. ASSUME NEW j \in Runs, RunStep(j) PROVE gone' = gone /\ brought' = brought
    BY <2>5 DEF RunStep, BeginRun, LoadForRun, SubmitRun, RefuseRun, EndRun, history
  <2>6. ASSUME NEW s \in Sessions, SessionStep(s) PROVE gone' = gone /\ brought' = brought
    BY <2>6 DEF SessionStep, BeginSession, LoadForSession, PinSession, SaveSession,
     ExtendSession, SaveOperators, RefuseSession, history
  <2>7. ASSUME \/ \E k \in Results : SaveResult(k)
               \/ \E a \in Sessions \cup Results : DeleteArtifact(a) \/ Materialize(a)
               \/ \E n \in Runtimes : RemoveOperator(n)
               \/ UNCHANGED vars
        PROVE  gone' = gone /\ brought' = brought
    BY <2>7 DEF SaveResult, DeleteArtifact, Materialize, RemoveOperator, vars, history
  <2>8. ASSUME Restart \/ AddOperator \/ \E t \in Runs \cup Sessions : RegisterOwn(t)
        PROVE  gone \subseteq gone' /\ brought \subseteq brought'
    BY <2>8 DEF Restart, AddOperator, RegisterOwn
  <2> QED BY <2>1, <2>2, <2>3, <2>4, <2>5, <2>6, <2>7, <2>8 DEF Next, RunStep, SessionStep
<1>2. ASSUME NEW n \in Runtimes, doc[n] # None, doc'[n] = None PROVE n \in gone'
  <2>1. ASSUME NEW m \in Managed, MergeCatalog(m) PROVE FALSE
    BY <1>2, <2>1, MergeCatalogKeeps
  <2>2. ASSUME NEW e \in Editors, WriteEdit(e) PROVE n \in gone'
    BY <1>2, <2>2 DEF WriteEdit, Present
  <2>3. ASSUME NEW d \in Deleters, WriteDelete(d) PROVE n \in gone'
    BY <1>2, <2>3 DEF WriteDelete, Present
  <2> QED BY <1>2, <2>1, <2>2, <2>3, DocumentSteps
<1> QED BY <1>1, <1>2, BodiesStay

LEMMA EditorWaits ==
    ASSUME IInv, OneEditor, [Next]_vars, NEW e \in Editors, pc[e] = "write",
           ~WriteEdit(e), ~Restart
    PROVE  pc'[e] = "write" /\ plan'[e] = plan[e]
<1>1. e \in Threads /\ e \notin Deleters \cup Readers \cup Runs \cup Sessions
      /\ pc \in [Threads -> Places] /\ "write" # "idle"
  BY ThreadFacts DEF IInv, TypeOK, Places
<1>2. ASSUME NEW m \in Managed, MergeCatalog(m) PROVE pc'[e] = "write" /\ plan' = plan
  BY <1>2 DEF MergeCatalog
<1>3. ASSUME NEW x \in Editors,
             BeginEdit(x) \/ PlanEdit(x) \/ RefuseEdit(x) \/ RegisterEdit(x) \/ WriteEdit(x)
      PROVE  FALSE
  <2>1. x = e
    BY DEF OneEditor
  <2> QED BY <1>3, <2>1 DEF BeginEdit, PlanEdit, RefuseEdit, RegisterEdit
<1>4. ASSUME NEW d \in Deleters, BeginDelete(d) \/ Unregister(d) \/ WriteDelete(d)
      PROVE  pc'[e] = "write" /\ plan' = plan
  <2>1. plan' = plan /\ \E label : pc' = [pc EXCEPT ![d] = label]
    BY <1>4 DEF BeginDelete, Unregister, WriteDelete, EndDelete, Goto
  <2> QED BY <1>1, <2>1
<1>5. ASSUME NEW r \in Readers,
             \/ BeginLoad(r) \/ Load(r) \/ BeginTest(r) \/ LoadForTest(r) \/ Resolve(r)
             \/ Expand(r) \/ RefuseTest(r)
      PROVE  pc'[e] = "write" /\ plan' = plan
  <2>1. plan' = plan /\ \E label : pc' = [pc EXCEPT ![r] = label]
    BY <1>5 DEF BeginLoad, Load, BeginTest, LoadForTest, Resolve, Expand, RefuseTest, Goto
  <2> QED BY <1>1, <2>1
<1>6. ASSUME NEW j \in Runs, RunStep(j) PROVE pc'[e] = "write" /\ plan' = plan
  <2>1. plan' = plan /\ (pc' = pc \/ \E label : pc' = [pc EXCEPT ![j] = label])
    BY <1>6 DEF RunStep, BeginRun, LoadForRun, SubmitRun, RefuseRun, EndRun, Goto
  <2> QED BY <1>1, <2>1
<1>7. ASSUME NEW s \in Sessions, SessionStep(s) PROVE pc'[e] = "write" /\ plan' = plan
  <2>1. plan' = plan /\ \E label : pc' = [pc EXCEPT ![s] = label]
    BY <1>7 DEF SessionStep, BeginSession, LoadForSession, PinSession, SaveSession,
     ExtendSession, SaveOperators, RefuseSession, Goto
  <2> QED BY <1>1, <2>1
<1>8. ASSUME \/ \E k \in Results : SaveResult(k)
             \/ \E a \in Sessions \cup Results : DeleteArtifact(a) \/ Materialize(a)
             \/ \E n \in Runtimes : RemoveOperator(n)
             \/ \E r \in Readers : EndTest(r) \/ KeepTest(r) \/ ClearTest(r)
             \/ AddOperator \/ \E t \in Runs \cup Sessions : RegisterOwn(t)
             \/ UNCHANGED vars
      PROVE  pc' = pc /\ plan' = plan
  BY <1>8 DEF SaveResult, DeleteArtifact, Materialize, RemoveOperator, EndTest, KeepTest,
     ClearTest, AddOperator, RegisterOwn, vars
<1> QED BY <1>2, <1>3, <1>4, <1>5, <1>6, <1>7, <1>8 DEF Next, RunStep, SessionStep

(* What a body means stays: the editor writes what it registered, a deletion *)
(* writes nothing new, the catalog waits for editors, and an exit makes      *)
(* history of what was registered only.                                      *)
LEMMA MeaningsStay ==
    ASSUME IInv, OneEditor, [Next]_vars,
           NEW n \in Runtimes, n \notin gone', NEW b, b # None, Means(n, b)
    PROVE  Means(n, b)'
<1>1. CASE doc[n] = b
  BY <1>1, GoneGrows DEF Means
<1>2. CASE <<n, b>> \in brought
  BY <1>2, GoneGrows DEF Means
<1>3. CASE doc[n] # b /\ <<n, b>> \notin brought
  <2>1. doc[n] = None
    BY <1>3 DEF Means
  <2>2. PICK e \in Editors : pc[e] = "write" /\ plan[e][n] = b
    BY <1>3 DEF Means
  <2>3. e \in Threads /\ Holds(e)
    BY <2>2, ThreadFacts DEF Holds
  <2>4. CASE WriteEdit(e)
    <3>1. doc' = Overlay(copy[e], plan[e])
      BY <2>4 DEF WriteEdit
    <3>2. Overlay(copy[e], plan[e])[n] = b
      BY <2>2 DEF Overlay
    <3>3. doc'[n] = b
      BY <3>1, <3>2
    <3> QED BY <3>3 DEF Means
  <2>5. CASE Restart
    <3>1. n \in Unwritten
      BY <2>1, <2>2 DEF Unwritten, Present
    <3> QED BY <2>5, <3>1 DEF Restart
  <2>6. CASE ~WriteEdit(e) /\ ~Restart
    <3>1. pc'[e] = "write" /\ plan'[e] = plan[e]
      BY <2>2, <2>6, EditorWaits
    <3>2. doc'[n] = None
      <4>1. ASSUME NEW m \in Managed, MergeCatalog(m) PROVE FALSE
        BY <2>3, <4>1 DEF MergeCatalog, IInv, StoreInv, CopiesOK, Merged
      <4>2. ASSUME NEW x \in Editors, WriteEdit(x) PROVE FALSE
        BY <2>6, <4>2 DEF OneEditor
      <4>3. ASSUME NEW d \in Deleters, WriteDelete(d) PROVE doc'[n] = None
        <5>1. Deleting(d) /\ doc' = Without(copy[d], draft[d].family)
          BY <4>3 DEF WriteDelete, Deleting
        <5>2. SubStore(copy[d], doc) /\ SameManaged(copy[d], doc)
          BY <5>1, DeleteFacts
        <5> QED BY <2>1, <5>1, <5>2 DEF SubStore, SameManaged, Without
      <4> QED BY <2>1, <4>1, <4>2, <4>3, DocumentSteps
    <3> QED BY <2>2, <3>1, <3>2 DEF Means
  <2> QED BY <2>4, <2>5, <2>6
<1> QED BY <1>1, <1>2, <1>3

-----------------------------------------------------------------------------
(* Bodies of the kept ones.                                                  *)

LEMMA AgreesPart ==
    ASSUME NEW x, NEW y, NEW z, Agrees(x), Agrees(y),
           \A n \in Runtimes : z[n] \in {None, x[n], y[n]}
    PROVE  Agrees(z)
  BY DEF Agrees

LEMMA AgreesAnyway == Agrees(doc) /\ Agrees(NoBodies) /\ Agrees(Untested.ran)
  BY DEF Agrees, Means, NoBodies, Untested

LEMMA AgreesLoaded ==
    ASSUME NEW d, Agrees(d), Agrees(registry)
    PROVE  Agrees(Loaded(d))
<1> DEFINE registered == UNION {S \in SUBSET (Standing(d) \cup Present(d)) :
                                   \A n \in S : n \in Standing(d) \/ d[n].uses \subseteq S}
<1>1. Loaded(d) = [n \in Runtimes |->
         IF n \notin registered THEN None ELSE IF d[n] # None THEN d[n] ELSE registry[n]]
  BY DEF Loaded
<1> HIDE DEF registered
<1>2. \A n \in Runtimes : Loaded(d)[n] \in {None, d[n], registry[n]}
  BY <1>1
<1> QED BY <1>2, AgreesPart

(* All that is kept after a step agrees with what was before it.             *)
KeptAgree ==
    /\ Agrees(registry')
    /\ \A a \in Sessions \cup Results : Agrees(pinned'[a]) /\ Agrees(own'[a])
    /\ \A t \in Threads : Agrees(copy'[t])
    /\ \A a \in Readers \cup Results : Agrees(tested'[a].ran)

LEMMA AgreementMoves ==
    ASSUME IInv, OneEditor, [Next]_vars, KeptAgree
    PROVE  AgreementOK'
<1>1. ASSUME NEW x, Agrees(x), NEW n \in Runtimes, n \notin gone', x[n] # None
      PROVE  Means(n, x[n])'
  <2>1. n \notin gone
    BY <1>1, GoneGrows
  <2>2. Means(n, x[n])
    BY <1>1, <2>1 DEF Agrees
  <2> QED BY <1>1, <2>2, MeaningsStay
<1>2. Agrees(registry)'
  BY <1>1 DEF Agrees, KeptAgree
<1> QED BY <1>1, <1>2 DEF AgreementOK, Agrees, KeptAgree

LEMMA OneCopy ==
    ASSUME IInv, AgreementOK, NEW t \in Threads, NEW c, Agrees(c),
           copy' = [copy EXCEPT ![t] = c]
    PROVE  \A u \in Threads : Agrees(copy'[u])
<1> SUFFICES ASSUME NEW u \in Threads PROVE Agrees(copy'[u])
  OBVIOUS
<1>1. copy'[u] = IF u = t THEN c ELSE copy[u]
  BY DEF IInv, TypeOK
<1> QED BY <1>1 DEF AgreementOK

LEMMA OnePin ==
    ASSUME IInv, AgreementOK, NEW a \in Sessions \cup Results, NEW c, Agrees(c),
           pinned' = [pinned EXCEPT ![a] = c]
    PROVE  \A x \in Sessions \cup Results : Agrees(pinned'[x])
<1> SUFFICES ASSUME NEW x \in Sessions \cup Results PROVE Agrees(pinned'[x])
  OBVIOUS
<1>1. pinned'[x] = IF x = a THEN c ELSE pinned[x]
  BY DEF IInv, TypeOK
<1> QED BY <1>1 DEF AgreementOK

LEMMA OneOwn ==
    ASSUME IInv, AgreementOK, NEW a \in Sessions \cup Results, NEW c, Agrees(c),
           own' = [own EXCEPT ![a] = c]
    PROVE  \A x \in Sessions \cup Results : Agrees(own'[x])
<1> SUFFICES ASSUME NEW x \in Sessions \cup Results PROVE Agrees(own'[x])
  OBVIOUS
<1>1. own'[x] = IF x = a THEN c ELSE own[x]
  BY DEF IInv, TypeOK
<1> QED BY <1>1 DEF AgreementOK

LEMMA OneTest ==
    ASSUME IInv, AgreementOK, NEW a \in Readers \cup Results, NEW c, Agrees(c.ran),
           tested' = [tested EXCEPT ![a] = c]
    PROVE  \A x \in Readers \cup Results : Agrees(tested'[x].ran)
<1> SUFFICES ASSUME NEW x \in Readers \cup Results PROVE Agrees(tested'[x].ran)
  OBVIOUS
<1>1. tested'[x] = IF x = a THEN c ELSE tested[x]
  BY DEF IInv, TypeOK
<1> QED BY <1>1 DEF AgreementOK

(* The editor registers what its plan says: it means that from then on.      *)
LEMMA EditAgrees ==
    ASSUME IInv, OneEditor, AgreementOK, NEW e \in Editors,
           BeginEdit(e) \/ PlanEdit(e) \/ RefuseEdit(e) \/ RegisterEdit(e) \/ WriteEdit(e),
           [Next]_vars
    PROVE  AgreementOK'
<1>1. e \in Threads
  BY ThreadFacts
<1>2. pinned' = pinned /\ own' = own /\ tested' = tested
  BY DEF BeginEdit, PlanEdit, RefuseEdit, RegisterEdit, WriteEdit, artifacts, history, testState
<1>3. \A u \in Threads : Agrees(copy'[u])
  <2>1. CASE copy' = copy
    BY <2>1 DEF AgreementOK
  <2>2. CASE copy' = [copy EXCEPT ![e] = doc] \/ copy' = [copy EXCEPT ![e] = NoBodies]
    BY <1>1, <2>2, OneCopy, AgreesAnyway
  <2> QED BY <2>1, <2>2 DEF BeginEdit, PlanEdit, RefuseEdit, RegisterEdit, WriteEdit,
          Done, Forget, Read
<1>4. CASE registry' = registry
  BY <1>2, <1>3, <1>4, AgreementMoves DEF AgreementOK, KeptAgree
<1>5. CASE registry' # registry
  <2>1. RegisterEdit(e) /\ registry' = Overlay(registry, plan[e]) /\ pc[e] = "register"
        /\ Goto(e, "write") /\ UNCHANGED <<doc, plan, copy, gone>>
    BY <1>5 DEF BeginEdit, PlanEdit, RefuseEdit, RegisterEdit, WriteEdit, history
  <2>2. PlanOK(e)
    BY <2>1 DEF IInv, StoreInv, PlansOK
  <2>3. pc'[e] = "write"
    BY <1>1, <2>1 DEF Goto, IInv, TypeOK
  <2>4. ASSUME NEW n \in Runtimes, n \notin gone', NEW b, b # None, Means(n, b)
        PROVE  Means(n, b)'
    BY <2>4, MeaningsStay
  <2>5. ASSUME NEW n \in Runtimes, plan[e][n] # None
        PROVE  Means(n, plan[e][n])'
    <3>1. doc[n] # None => doc[n] = plan[e][n]
      BY <2>2, <2>5 DEF PlanOK, SubStore, Overlay
    <3> QED BY <2>1, <2>3, <3>1 DEF Means
  <2>6. Agrees(registry)'
    <3> SUFFICES ASSUME NEW n \in Runtimes, n \notin gone', registry'[n] # None
                 PROVE  Means(n, registry[n])'
      BY DEF Agrees
    <3>1. registry'[n] = IF plan[e][n] # None THEN plan[e][n] ELSE registry[n]
      BY <2>1 DEF Overlay
    <3>2. CASE plan[e][n] # None
      BY <2>1, <2>5, <3>1, <3>2 DEF Means
    <3>3. CASE plan[e][n] = None
      <4>1. registry[n] # None /\ Means(n, registry[n])
        BY <2>1, <3>1, <3>3 DEF AgreementOK, Agrees
      <4>2. registry'[n] = registry[n]
        BY <3>1, <3>3
      <4>3. \A b : b # None /\ Means(n, b) => Means(n, b)'
        BY <2>4
      <4> QED BY <4>1, <4>2, <4>3 DEF Means
    <3> QED BY <3>2, <3>3
  <2>7. ASSUME NEW x, Agrees(x), NEW n \in Runtimes, n \notin gone', x[n] # None
        PROVE  Means(n, x[n])'
    BY <2>1, <2>4, <2>7 DEF Agrees
  <2>8. /\ \A a \in Sessions \cup Results : Agrees(pinned'[a]) /\ Agrees(own'[a])
        /\ \A a \in Readers \cup Results : Agrees(tested'[a].ran)
    BY <1>2 DEF AgreementOK
  <2> QED BY <1>3, <2>6, <2>7, <2>8 DEF AgreementOK, Agrees
<1> QED BY <1>4, <1>5

LEMMA DeleteAgrees ==
    ASSUME IInv, AgreementOK, NEW d \in Deleters, BeginDelete(d) \/ Unregister(d) \/ WriteDelete(d)
    PROVE  KeptAgree
<1>1. d \in Threads
  BY ThreadFacts
<1>2. pinned' = pinned /\ own' = own /\ tested' = tested
  BY DEF BeginDelete, Unregister, WriteDelete, artifacts, history, testState
<1>3. \A u \in Threads : Agrees(copy'[u])
  <2>1. CASE copy' = copy
    BY <2>1 DEF AgreementOK
  <2>2. CASE copy' = [copy EXCEPT ![d] = doc] \/ copy' = [copy EXCEPT ![d] = NoBodies]
    BY <1>1, <2>2, OneCopy, AgreesAnyway
  <2> QED BY <2>1, <2>2 DEF BeginDelete, Unregister, WriteDelete, EndDelete, Forget, Read
<1>4. \A n \in Runtimes : registry'[n] \in {None, registry[n]}
  BY DEF BeginDelete, Unregister, WriteDelete
<1>5. Agrees(registry')
  BY <1>4, AgreesPart DEF AgreementOK
<1> QED BY <1>2, <1>3, <1>5 DEF AgreementOK, KeptAgree

LEMMA RunAgrees ==
    ASSUME IInv, AgreementOK, NEW j \in Runs, RunStep(j)
    PROVE  KeptAgree
<1>1. j \in Threads
  BY ThreadFacts
<1>2. pinned' = pinned /\ own' = own /\ tested' = tested
  BY DEF RunStep, BeginRun, LoadForRun, SubmitRun, RefuseRun, EndRun, artifacts, history, testState
<1>3. \A u \in Threads : Agrees(copy'[u])
  <2>1. CASE copy' = copy
    BY <2>1 DEF AgreementOK
  <2>2. CASE copy' = [copy EXCEPT ![j] = doc] \/ copy' = [copy EXCEPT ![j] = NoBodies]
    BY <1>1, <2>2, OneCopy, AgreesAnyway
  <2> QED BY <2>1, <2>2 DEF RunStep, BeginRun, LoadForRun, SubmitRun, RefuseRun, EndRun, Forget, Read
<1>4. Agrees(registry')
  <2>1. registry' = registry \/ registry' = Loaded(copy[j])
    BY DEF RunStep, BeginRun, LoadForRun, SubmitRun, RefuseRun, EndRun
  <2> QED BY <1>1, <2>1, AgreesLoaded DEF AgreementOK
<1> QED BY <1>2, <1>3, <1>4 DEF AgreementOK, KeptAgree

LEMMA SessionAgrees ==
    ASSUME IInv, AgreementOK, NEW s \in Sessions, SessionStep(s)
    PROVE  KeptAgree
<1>1. s \in Threads /\ s \in Sessions \cup Results
  BY ThreadFacts
<1>2. tested' = tested
  BY DEF SessionStep, BeginSession, LoadForSession, PinSession, SaveSession,
     ExtendSession, SaveOperators, RefuseSession,
     history, testState
<1>3. \A u \in Threads : Agrees(copy'[u])
  <2>1. CASE copy' = copy
    BY <2>1 DEF AgreementOK
  <2>2. CASE copy' = [copy EXCEPT ![s] = doc] \/ copy' = [copy EXCEPT ![s] = NoBodies]
    BY <1>1, <2>2, OneCopy, AgreesAnyway
  <2> QED BY <2>1, <2>2 DEF SessionStep, BeginSession, LoadForSession, PinSession, SaveSession,
     ExtendSession, SaveOperators, RefuseSession, Forget, Read
<1>4. Agrees(registry')
  <2>1. registry' = registry \/ registry' = Loaded(copy[s])
    BY DEF SessionStep, BeginSession, LoadForSession, PinSession, SaveSession,
     ExtendSession, SaveOperators, RefuseSession
  <2> QED BY <1>1, <2>1, AgreesLoaded DEF AgreementOK
<1>5. \A a \in Sessions \cup Results : Agrees(pinned'[a])
  <2>1. CASE pinned' = pinned
    BY <2>1 DEF AgreementOK
  <2>2. CASE PinSession(s)
    <3> DEFINE latest == [n \in Runtimes |-> IF n[1] \in Known(doc) /\ n = LatestName(doc, n[1])
                                             THEN doc[n] ELSE None]
    <3>1. pinned' = [pinned EXCEPT ![s] = latest]
      BY <2>2 DEF PinSession
    <3>2. \A n \in Runtimes : latest[n] \in {None, doc[n]}
      OBVIOUS
    <3> HIDE DEF latest
    <3>3. Agrees(latest)
      BY <3>2, AgreesAnyway, AgreesPart
    <3> QED BY <1>1, <3>1, <3>3, OnePin
  <2> QED BY <2>1, <2>2 DEF SessionStep, BeginSession, LoadForSession, SaveSession, ExtendSession,
          SaveOperators, RefuseSession, artifacts
<1>6. \A a \in Sessions \cup Results : Agrees(own'[a])
  <2>1. CASE own' = own
    BY <2>1 DEF AgreementOK
  <2>2. CASE PinSession(s)
    <3>1. own' = [own EXCEPT ![s] = copy[s]]
      BY <2>2 DEF PinSession
    <3>2. Agrees(copy[s])
      BY <1>1 DEF AgreementOK
    <3> QED BY <1>1, <3>1, <3>2, OneOwn
  <2>3. CASE SaveOperators(s)
    <3> DEFINE all == Overlay(own[s], copy[s])
    <3>1. own' = [own EXCEPT ![s] = all]
      BY <1>1, <2>3 DEF SaveOperators, IInv, TypeOK
    <3>2. \A n \in Runtimes : all[n] \in {None, own[s][n], copy[s][n]}
      BY DEF Overlay
    <3> HIDE DEF all
    <3>3. Agrees(all)
      BY <1>1, <3>2, AgreesPart DEF AgreementOK
    <3> QED BY <1>1, <3>1, <3>3, OneOwn
  <2> QED BY <2>1, <2>2, <2>3 DEF SessionStep, BeginSession, LoadForSession, SaveSession,
          ExtendSession, RefuseSession, artifacts
<1> QED BY <1>2, <1>3, <1>4, <1>5, <1>6 DEF AgreementOK, KeptAgree

(* What a client registers by name means what the client brought.            *)
LEMMA OwnAgrees ==
    ASSUME IInv, OneEditor, AgreementOK, [Next]_vars,
           AddOperator \/ \E t \in Runs \cup Sessions : RegisterOwn(t)
    PROVE  AgreementOK'
<1>1. PICK o \in Operators :
         /\ Register(o[1], o[2]) \/ registry' = registry
         /\ \/ copy' = copy
            \/ \E t \in Runs \cup Sessions : copy' = [copy EXCEPT ![t][o[1]] = o[2]]
         /\ brought' = brought \cup {o}
  BY DEF AddOperator, RegisterOwn
<1>2. UNCHANGED <<pinned, own, tested, gone>>
  BY DEF AddOperator, RegisterOwn, artifacts, testState
<1>3. o[1] \in Runtimes /\ o = <<o[1], o[2]>>
  BY FormulaAssumption
<1>4. <<o[1], o[2]>> \in brought'
  BY <1>1, <1>3
<1>5. ASSUME NEW x, Agrees(x), NEW n \in Runtimes, n \notin gone', x[n] # None
      PROVE  Means(n, x[n])'
  <2>1. Means(n, x[n])
    BY <1>2, <1>5 DEF Agrees
  <2> QED BY <1>5, <2>1, MeaningsStay
<1>6. ASSUME NEW x, Agrees(x), NEW y, \A n \in Runtimes : y[n] = IF n = o[1] THEN o[2] ELSE x[n],
             NEW n \in Runtimes, n \notin gone', y[n] # None
      PROVE  Means(n, y[n])'
  <2>1. CASE n = o[1]
    <3>1. <<n, y[n]>> \in brought'
      BY <1>4, <1>6, <2>1
    <3> QED BY <3>1 DEF Means
  <2>2. CASE n # o[1]
    <3>1. y[n] = x[n]
      BY <1>6, <2>2
    <3> QED BY <1>5, <1>6, <3>1 DEF Means
  <2> QED BY <2>1, <2>2
<1>7. ASSUME NEW n \in Runtimes, n \notin gone', registry'[n] # None
      PROVE  Means(n, registry[n])'
  <2>1. Agrees(registry)
    BY DEF AgreementOK
  <2>2. CASE registry' = registry
    BY <1>5, <1>7, <2>1, <2>2 DEF Means
  <2>3. CASE Register(o[1], o[2])
    <3>1. \A m \in Runtimes : registry'[m] = IF m = o[1] THEN o[2] ELSE registry[m]
      BY <1>3, <2>3 DEF Register, IInv, TypeOK, MaybeBodies
    <3> QED BY <1>6, <1>7, <2>1, <3>1 DEF Means
  <2> QED BY <1>1, <2>2, <2>3
<1>8. ASSUME NEW u \in Threads, NEW n \in Runtimes, n \notin gone', copy'[u][n] # None
      PROVE  Means(n, copy[u][n])'
  <2>1. Agrees(copy[u])
    BY DEF AgreementOK
  <2>2. CASE copy'[u] = copy[u]
    BY <1>5, <1>8, <2>1, <2>2 DEF Means
  <2>3. CASE copy'[u] # copy[u]
    <3>1. PICK t \in Runs \cup Sessions : copy' = [copy EXCEPT ![t][o[1]] = o[2]]
      BY <1>1, <2>3
    <3>2. u = t /\ copy'[u] = [copy[u] EXCEPT ![o[1]] = o[2]]
      BY <2>3, <3>1 DEF IInv, TypeOK
    <3>3. copy[u] \in MaybeBodies
      BY DEF IInv, TypeOK
    <3>4. \A m \in Runtimes : copy'[u][m] = IF m = o[1] THEN o[2] ELSE copy[u][m]
      BY <1>3, <3>2, <3>3 DEF MaybeBodies
    <3> QED BY <1>6, <1>8, <2>1, <3>4 DEF Means
  <2> QED BY <2>2, <2>3
<1>9. Agrees(registry)'
  BY <1>7 DEF Agrees
<1>10. \A u \in Threads : Agrees(copy[u])'
  BY <1>8 DEF Agrees
<1>11. \A a \in Sessions \cup Results : Agrees(pinned[a])' /\ Agrees(own[a])'
  BY <1>2, <1>5 DEF Agrees, AgreementOK
<1>12. \A a \in Readers \cup Results : Agrees(tested[a].ran)'
  BY <1>2, <1>5 DEF Agrees, AgreementOK
<1> QED BY <1>9, <1>10, <1>11, <1>12 DEF AgreementOK

LEMMA ReaderAgrees ==
    ASSUME IInv, AgreementOK, NEW r \in Readers,
           \/ BeginLoad(r) \/ Load(r) \/ BeginTest(r) \/ LoadForTest(r) \/ Resolve(r)
           \/ Expand(r) \/ RefuseTest(r)
    PROVE  KeptAgree
<1>1. r \in Threads /\ r \in Readers \cup Results /\ pinned' = pinned /\ own' = own
  BY ThreadFacts DEF BeginLoad, Load, BeginTest, LoadForTest, Resolve, Expand, RefuseTest, artifacts
<1>2. Agrees(registry')
  <2>1. registry' = registry \/ registry' = Loaded(copy[r])
    BY DEF BeginLoad, Load, BeginTest, LoadForTest, Resolve, Expand, RefuseTest
  <2> QED BY <1>1, <2>1, AgreesLoaded DEF AgreementOK
<1>3. \A u \in Threads : Agrees(copy'[u])
  <2>1. CASE copy' = copy
    BY <2>1 DEF AgreementOK
  <2>2. CASE copy' = [copy EXCEPT ![r] = doc] \/ copy' = [copy EXCEPT ![r] = NoBodies]
    BY <1>1, <2>2, OneCopy, AgreesAnyway
  <2>3. CASE LoadForTest(r)
    <3> DEFINE left == [n \in Runtimes |-> IF registry'[n] = None THEN copy[r][n] ELSE None]
    <3>1. copy' = [copy EXCEPT ![r] = left]
      BY <2>3 DEF LoadForTest
    <3>2. \A n \in Runtimes : left[n] \in {None, copy[r][n]}
      OBVIOUS
    <3> HIDE DEF left
    <3>3. Agrees(left)
      BY <1>1, <3>2, AgreesPart DEF AgreementOK
    <3> QED BY <1>1, <3>1, <3>3, OneCopy
  <2> QED BY <2>1, <2>2, <2>3 DEF BeginLoad, Load, BeginTest, Resolve, Expand, RefuseTest,
          Forget, Read
<1>4. \A a \in Readers \cup Results : Agrees(tested'[a].ran)
  <2>1. CASE tested' = tested
    BY <2>1 DEF AgreementOK
  <2>2. CASE Resolve(r) \/ Expand(r)
    <3>1. PICK names, start :
             tested' = [tested EXCEPT ![r].names = names,
                                      ![r].ran = [n \in Runtimes |->
                                          IF n \in start THEN registry[n] ELSE None]]
      <4>1. CASE Resolve(r)
        <5>1. PICK start :
                 tested' = [tested EXCEPT ![r].names = Closure(doc, start),
                                          ![r].ran = [n \in Runtimes |->
                                              IF n \in start THEN registry[n] ELSE None]]
          BY <4>1 DEF Resolve
        <5> DEFINE names == Closure(doc, start)
        <5>2. tested' = [tested EXCEPT ![r].names = names,
                                       ![r].ran = [n \in Runtimes |->
                                              IF n \in start THEN registry[n] ELSE None]]
          BY <5>1
        <5> HIDE DEF names
        <5> QED BY <5>2
      <4>2. CASE Expand(r)
        <5> DEFINE needed == Closure(registry, Present(tested[r].ran))
                   ran == [n \in Runtimes |-> IF n \in needed THEN registry[n] ELSE None]
        <5>1. tested' = [tested EXCEPT ![r].ran = ran]
          BY <4>2 DEF Expand
        <5> HIDE DEF ran
        <5>2. tested' = [tested EXCEPT ![r].names = tested[r].names, ![r].ran = ran]
          BY <1>1, <5>1 DEF IInv, TypeOK
        <5> QED BY <5>2 DEF ran
      <4> QED BY <2>2, <4>1, <4>2
    <3> DEFINE ran == [n \in Runtimes |-> IF n \in start THEN registry[n] ELSE None]
    <3>2. \A n \in Runtimes : ran[n] \in {None, registry[n]}
      OBVIOUS
    <3>3. tested' = [tested EXCEPT ![r].names = names, ![r].ran = ran]
      BY <3>1
    <3> HIDE DEF ran
    <3>4. Agrees(ran)
      BY <3>2, AgreesPart DEF AgreementOK
    <3>5. tested'[r].ran = ran /\ \A a \in (Readers \cup Results) \ {r} : tested'[a] = tested[a]
      BY <1>1, <3>3 DEF IInv, TypeOK
    <3> QED BY <3>4, <3>5 DEF AgreementOK
  <2>3. CASE RefuseTest(r)
    <3>1. tested' = [tested EXCEPT ![r] = Untested]
      BY <2>3 DEF RefuseTest
    <3> QED BY <1>1, <3>1, OneTest, AgreesAnyway
  <2> QED BY <2>1, <2>2, <2>3 DEF BeginLoad, Load, BeginTest, LoadForTest, history, testState
<1> QED BY <1>1, <1>2, <1>3, <1>4 DEF AgreementOK, KeptAgree

LEMMA AsideAgrees ==
    ASSUME IInv, AgreementOK,
           \/ UNCHANGED vars
           \/ \E r \in Readers : EndTest(r) \/ KeepTest(r) \/ ClearTest(r)
           \/ \E k \in Results : SaveResult(k)
           \/ \E a \in Sessions \cup Results : DeleteArtifact(a) \/ Materialize(a)
           \/ \E n \in Runtimes : RemoveOperator(n)
    PROVE  KeptAgree
<1>1. CASE UNCHANGED <<registry, pinned, own, copy, tested>>
  BY <1>1 DEF AgreementOK, KeptAgree
<1>2. ASSUME NEW r \in Readers, KeepTest(r) PROVE KeptAgree
  <2>1. PICK k \in Results : tested' = [tested EXCEPT ![k] = tested[r]]
    BY <1>2 DEF KeepTest
  <2>2. Agrees(tested[r].ran)
    BY DEF AgreementOK
  <2>3. \A x \in Readers \cup Results : Agrees(tested'[x].ran)
    BY <2>1, <2>2, OneTest
  <2> QED BY <1>2, <2>3 DEF KeepTest, AgreementOK, KeptAgree
<1>3. ASSUME NEW r \in Readers, ClearTest(r) PROVE KeptAgree
  <2>1. tested' = [tested EXCEPT ![r] = Untested]
    BY <1>3 DEF ClearTest
  <2>2. \A x \in Readers \cup Results : Agrees(tested'[x].ran)
    BY <2>1, OneTest, AgreesAnyway
  <2> QED BY <1>3, <2>2 DEF ClearTest, artifacts, AgreementOK, KeptAgree
<1>4. ASSUME NEW k \in Results, SaveResult(k) PROVE KeptAgree
  <2>1. PICK needed : pinned' = [pinned EXCEPT ![k] =
                        [m \in Runtimes |-> IF m \in needed THEN registry[m] ELSE None]]
    BY <1>4 DEF SaveResult
  <2> DEFINE spec == [m \in Runtimes |-> IF m \in needed THEN registry[m] ELSE None]
  <2>2. \A n \in Runtimes : spec[n] \in {None, registry[n]}
    OBVIOUS
  <2>3. pinned' = [pinned EXCEPT ![k] = spec]
    BY <2>1
  <2> HIDE DEF spec
  <2>4. Agrees(spec)
    BY <2>2, AgreesPart DEF AgreementOK
  <2>5. \A x \in Sessions \cup Results : Agrees(pinned'[x])
    BY <2>3, <2>4, OnePin
  <2> QED BY <1>4, <2>5 DEF SaveResult, history, testState, AgreementOK, KeptAgree
<1>5. ASSUME NEW a \in Sessions \cup Results, DeleteArtifact(a) PROVE KeptAgree
  <2>1. \A x \in Sessions \cup Results : Agrees(pinned'[x]) /\ Agrees(own'[x])
    BY <1>5, OnePin, OneOwn, AgreesAnyway DEF DeleteArtifact
  <2>2. \A x \in Readers \cup Results : Agrees(tested'[x].ran)
    <3>1. tested' = [x \in Readers \cup Results |-> IF x = a THEN Untested ELSE tested[x]]
      BY <1>5 DEF DeleteArtifact
    <3> QED BY <3>1, AgreesAnyway DEF AgreementOK
  <2> QED BY <1>5, <2>1, <2>2 DEF DeleteArtifact, AgreementOK, KeptAgree
<1>6. ASSUME NEW a \in Sessions \cup Results, Materialize(a) PROVE KeptAgree
  <2>0. PICK n \in Runtimes :
             \E b \in {pinned[a][n], own[a][n]} \ {None} : Register(n, b)
    BY <1>6 DEF Materialize
  <2>1. PICK b \in {pinned[a][n], own[a][n]} \ {None} : Register(n, b)
    BY <2>0
  <2>2. \A m \in Runtimes : registry'[m] = IF m = n THEN b ELSE registry[m]
    BY <2>1 DEF Register, IInv, TypeOK, MaybeBodies
  <2>3. Agrees(registry) /\ Agrees(pinned[a]) /\ Agrees(own[a])
    BY DEF AgreementOK
  <2>4. Agrees(registry')
    BY <2>2, <2>3 DEF Agrees
  <2> QED BY <1>6, <2>4 DEF Materialize, artifacts, history, testState, AgreementOK, KeptAgree
<1>7. ASSUME NEW n \in Runtimes, RemoveOperator(n) PROVE KeptAgree
  <2>1. \A m \in Runtimes : registry'[m] \in {None, registry[m]}
    BY <1>7 DEF RemoveOperator, IInv, TypeOK, MaybeBodies
  <2>2. Agrees(registry')
    BY <2>1, AgreesPart DEF AgreementOK
  <2> QED BY <1>7, <2>2 DEF RemoveOperator, artifacts, history, testState, AgreementOK, KeptAgree
<1>8. ASSUME NEW r \in Readers, EndTest(r) PROVE KeptAgree
  BY <1>1, <1>8 DEF EndTest, artifacts
<1>9. CASE UNCHANGED vars
  BY <1>1, <1>9 DEF vars
<1> QED BY <1>2, <1>3, <1>4, <1>5, <1>6, <1>7, <1>8, <1>9

LEMMA RestartAgrees ==
    ASSUME IInv, AgreementOK, Restart
    PROVE  KeptAgree
<1>1. registry' = NoBodies /\ copy' = [t \in Threads |-> NoBodies]
  BY DEF Restart
<1>2. /\ pinned' = [a \in Sessions \cup Results |-> IF a \in saved THEN pinned[a] ELSE NoBodies]
      /\ own' = [a \in Sessions \cup Results |-> IF a \in saved THEN own[a] ELSE NoBodies]
  BY DEF Restart
<1>3. tested' = [a \in Readers \cup Results |-> IF a \in Readers THEN Untested ELSE tested[a]]
  BY DEF Restart
<1> QED BY <1>1, <1>2, <1>3, AgreesAnyway DEF AgreementOK, KeptAgree

LEMMA AgreementKept ==
    ASSUME IInv, OneEditor, AgreementOK, [Next]_vars
    PROVE  AgreementOK'
<1>1. ASSUME NEW m \in Managed, MergeCatalog(m) PROVE KeptAgree
  BY <1>1 DEF MergeCatalog, artifacts, history, testState, AgreementOK, KeptAgree
<1>2. ASSUME NEW e \in Editors,
             BeginEdit(e) \/ PlanEdit(e) \/ RefuseEdit(e) \/ RegisterEdit(e) \/ WriteEdit(e)
      PROVE  AgreementOK'
  BY <1>2, EditAgrees
<1>3. KeptAgree => AgreementOK'
  BY AgreementMoves
<1> QED BY <1>1, <1>2, <1>3, DeleteAgrees, RunAgrees, SessionAgrees, OwnAgrees, ReaderAgrees,
        AsideAgrees, RestartAgrees DEF Next, RunStep, SessionStep

-----------------------------------------------------------------------------
(* What tests recorded.                                                      *)

LEMMA RecordsStay ==
    ASSUME IInv, [Next]_vars, NEW a \in Readers \cup Results, tested'[a] = tested[a]
    PROVE  (Ran(a) => Ran(a)') /\ (Resolved(a) => Resolved(a)')
<1> DEFINE names == tested[a].names
<1>1. names \subseteq Runtimes /\ tested'[a].names = names
  BY DEF IInv, TypeOK
<1>2. names \cap gone' = {} => names \cap gone = {}
  BY GoneGrows
<1>3. ASSUME names \cap gone' = {}, NEW n \in names, doc[n] # None
      PROVE  doc'[n] = doc[n]
  BY <1>1, <1>3, GoneGrows
<1>4. ASSUME Ran(a) PROVE Ran(a)'
  <2> SUFFICES ASSUME names \cap gone' = {}
               PROVE  /\ \A n \in names : doc'[n] # None
                      /\ RanBrought(a)' \/ \A n \in names : doc'[n] = tested[a].ran[n]
    BY <1>1 DEF Ran
  <2>1. /\ \A n \in names : doc[n] # None
        /\ RanBrought(a) \/ \A n \in names : doc[n] = tested[a].ran[n]
    BY <1>2, <1>4 DEF Ran
  <2>2. \A n \in names : doc'[n] = doc[n]
    BY <1>3, <2>1
  <2>3. RanBrought(a) => RanBrought(a)'
    BY <2>2, GoneGrows DEF RanBrought
  <2> QED BY <2>1, <2>2, <2>3
<1>5. ASSUME Resolved(a) PROVE Resolved(a)'
  <2> SUFFICES ASSUME names \cap gone' = {}
               PROVE  /\ \A n \in names : doc'[n] # None
                      /\ \A S \in SUBSET names :
                            (/\ names \cap Present(tested[a].ran) \subseteq S
                             /\ \A m \in S : doc'[m].uses \cap names \subseteq S)
                            => names \subseteq S
    BY <1>1 DEF Resolved, Present
  <2>1. \A n \in names : doc[n] # None
    BY <1>2, <1>5 DEF Resolved
  <2>2. \A n \in names : doc'[n] = doc[n]
    BY <1>3, <2>1
  <2> QED BY <1>2, <1>5, <2>1, <2>2 DEF Resolved
<1> QED BY <1>4, <1>5

LEMMA ResolveRecords ==
    ASSUME IInv, NEW r \in Readers, Resolve(r)
    PROVE  Resolved(r)'
<1>1. PICK start :
         /\ start \subseteq Present(registry)
         /\ tested' = [tested EXCEPT ![r].names = Closure(doc, start),
                                     ![r].ran = [n \in Runtimes |->
                                          IF n \in start THEN registry[n] ELSE None]]
  BY DEF Resolve
<1> DEFINE names == Closure(doc, start)
           ran == [n \in Runtimes |-> IF n \in start THEN registry[n] ELSE None]
<1>2. /\ start \cap Present(doc) \subseteq names /\ names \subseteq Present(doc)
      /\ \A m \in names : doc[m].uses \cap Present(doc) \subseteq names
  BY ClosureFacts
<1>3. Present(ran) = start
  BY <1>1 DEF Present
<1>4. ASSUME NEW S \in SUBSET names, names \cap start \subseteq S,
             \A m \in S : doc[m].uses \cap names \subseteq S
      PROVE  names \subseteq S
  <2>1. S \in SUBSET Present(doc) /\ start \cap Present(doc) \subseteq S
    BY <1>2, <1>4
  <2>2. \A m \in S : doc[m].uses \cap Present(doc) \subseteq S
    BY <1>2, <1>4
  <2> QED BY <2>1, <2>2 DEF Closure
<1>5. tested' = [tested EXCEPT ![r].names = names, ![r].ran = ran]
  BY <1>1
<1> HIDE DEF names, ran
<1>6. tested'[r].names = names /\ tested'[r].ran = ran
  BY <1>5 DEF IInv, TypeOK
<1>7. doc' = doc
  BY DEF Resolve
<1> QED BY <1>2, <1>3, <1>4, <1>6, <1>7 DEF Resolved, Present

(* What a start is expanded to, by the registry, has all that was recorded,  *)
(* by the document.                                                          *)
LEMMA ExpandRecords ==
    ASSUME IInv, AgreementOK, NEW r \in Readers, Resolved(r), Expand(r)
    PROVE  Ran(r)'
<1> DEFINE names == tested[r].names
           needed == Closure(registry, Present(tested[r].ran))
           ran == [n \in Runtimes |-> IF n \in needed THEN registry[n] ELSE None]
<1>1. /\ Present(tested[r].ran) \subseteq needed
      /\ \A n \in needed : registry[n].uses \subseteq needed
      /\ tested' = [tested EXCEPT ![r].ran = ran]
      /\ UNCHANGED <<doc, gone, brought>>
  BY DEF Expand
<1>2. needed \subseteq Present(registry)
  BY ClosureFacts
<1> HIDE DEF needed
<1>3. names \subseteq Runtimes
  BY DEF IInv, TypeOK
<1> DEFINE Foreign == \E n \in names : ran[n] # doc[n] /\ <<n, ran[n]>> \in brought
<1>4. ASSUME names \cap gone = {}, ~Foreign, NEW n \in names, n \in needed
      PROVE  doc[n] = registry[n]
  <2>1. n \in Runtimes /\ registry[n] # None /\ doc[n] # None /\ ran[n] = registry[n]
    BY <1>2, <1>3, <1>4 DEF Present, Resolved
  <2>2. Means(n, registry[n])
    BY <1>4, <2>1 DEF AgreementOK, Agrees
  <2>3. <<n, registry[n]>> \in brought => doc[n] = registry[n]
    BY <1>4, <2>1
  <2> QED BY <2>1, <2>2, <2>3 DEF Means
<1>5. ASSUME names \cap gone = {}, ~Foreign PROVE names \subseteq needed
  <2> DEFINE S == names \cap needed
  <2>1. names \cap Present(tested[r].ran) \subseteq S
    BY <1>1
  <2>2. \A m \in S : doc[m].uses \cap names \subseteq S
    BY <1>1, <1>4, <1>5
  <2> HIDE DEF S
  <2>3. S \in SUBSET names
    BY DEF S
  <2>4. names \subseteq S
    BY <1>5, <2>1, <2>2, <2>3 DEF Resolved
  <2> QED BY <2>4 DEF S
<1>6. ran = [n \in Runtimes |-> IF n \in needed THEN registry[n] ELSE None]
  OBVIOUS
<1> HIDE DEF ran
<1>7. tested'[r].names = names /\ tested'[r].ran = ran
  BY <1>1 DEF IInv, TypeOK
<1>8. ASSUME names \cap gone = {}, ~Foreign, NEW n \in names
      PROVE  doc[n] = ran[n]
  <2>1. n \in needed /\ n \in Runtimes
    BY <1>3, <1>5, <1>8
  <2>2. doc[n] = registry[n]
    BY <1>4, <1>8, <2>1
  <2> QED BY <1>6, <2>1, <2>2
<1>9. names \cap gone = {} => \A n \in names : doc[n] # None
  BY DEF Resolved
<1>10. RanBrought(r)' <=> Foreign
  BY <1>1, <1>7 DEF RanBrought
<1> HIDE DEF Foreign
<1> QED BY <1>1, <1>7, <1>8, <1>9, <1>10 DEF Ran

(* A thread whose step leaves alone what was tested.                         *)
LEMMA ElsewhereKeeps ==
    ASSUME IInv, [Next]_vars, TestsOK, UNCHANGED tested,
           \A r \in Readers :
              /\ pc'[r] = "expand" <=> pc[r] = "expand"
              /\ pc'[r] \in {"load_test", "resolve", "expand"} => tests'[r] = "none"
    PROVE  TestsOK'
<1>1. ASSUME NEW a \in Readers \cup Results
      PROVE  IF a \in Readers /\ pc'[a] = "expand" THEN Resolved(a)' ELSE Ran(a)'
  <2>1. IF a \in Readers /\ pc[a] = "expand" THEN Resolved(a) ELSE Ran(a)
    BY DEF TestsOK
  <2>2. tested'[a] = tested[a]
    OBVIOUS
  <2> QED BY <2>1, <2>2, RecordsStay
<1> QED BY <1>1 DEF TestsOK

LEMMA OneRecord ==
    ASSUME IInv, [Next]_vars, TestsOK, NEW r \in Readers,
           \A a \in (Readers \cup Results) \ {r} : tested'[a] = tested[a],
           \A x \in Readers \ {r} : pc'[x] = pc[x] /\ tests'[x] = tests[x],
           IF pc'[r] = "expand" THEN Resolved(r)' ELSE Ran(r)',
           pc'[r] \in {"load_test", "resolve", "expand"} => tests'[r] = "none"
    PROVE  TestsOK'
<1>1. ASSUME NEW a \in Readers \cup Results
      PROVE  IF a \in Readers /\ pc'[a] = "expand" THEN Resolved(a)' ELSE Ran(a)'
  <2>1. IF a \in Readers /\ pc[a] = "expand" THEN Resolved(a) ELSE Ran(a)
    BY DEF TestsOK
  <2>2. CASE a = r
    BY <2>2
  <2>3. CASE a # r
    <3>1. tested'[a] = tested[a] /\ (a \in Readers => pc'[a] = pc[a])
      BY <2>3
    <3> QED BY <2>1, <3>1, RecordsStay
  <2> QED BY <2>2, <2>3
<1> QED BY <1>1 DEF TestsOK

LEMMA NothingRecorded ==
    ASSUME NEW a \in Readers \cup Results, tested'[a] = Untested
    PROVE  Ran(a)'
  BY DEF Ran, Untested

LEMMA ReaderRecords ==
    ASSUME IInv, [Next]_vars, AgreementOK, TestsOK, NEW r \in Readers,
           \/ BeginLoad(r) \/ Load(r) \/ BeginTest(r) \/ LoadForTest(r) \/ Resolve(r)
           \/ Expand(r) \/ RefuseTest(r)
    PROVE  TestsOK'
<1>1. r \in Threads /\ Readers \subseteq Threads /\ pc \in [Threads -> Places]
      /\ tests \in [Readers -> {"none", "live", "done", "over"}]
  BY ThreadFacts DEF IInv, TypeOK, Places
<1>2. \A x \in Readers \ {r} : pc'[x] = pc[x] /\ tests'[x] = tests[x]
  BY <1>1 DEF BeginLoad, Load, BeginTest, LoadForTest, Resolve, Expand, RefuseTest, Goto,
     history, testState
<1>3. \A a \in (Readers \cup Results) \ {r} : tested'[a] = tested[a]
  BY DEF BeginLoad, Load, BeginTest, LoadForTest, Resolve, Expand, RefuseTest,
     history, testState, IInv, TypeOK
<1>4. IF pc[r] = "expand" THEN Resolved(r) ELSE Ran(r)
  BY DEF TestsOK
<1>5. CASE BeginLoad(r) \/ Load(r) \/ BeginTest(r) \/ LoadForTest(r)
  <2>1. tested' = tested /\ tests' = tests /\ pc[r] # "expand" /\ pc'[r] # "expand"
    BY <1>1, <1>5 DEF BeginLoad, Load, BeginTest, LoadForTest, Goto, history, testState
  <2>2. pc'[r] \in {"load_test", "resolve", "expand"} => tests'[r] = "none"
    BY <1>1, <1>5 DEF BeginLoad, Load, BeginTest, LoadForTest, Goto, TestsOK, history, testState
  <2>3. Ran(r)'
    BY <1>4, <2>1, RecordsStay
  <2> QED BY <1>2, <1>3, <2>1, <2>2, <2>3, OneRecord
<1>6. CASE Resolve(r)
  <2>1. pc'[r] = "expand" /\ tests' = tests /\ tests[r] = "none"
    BY <1>1, <1>6 DEF Resolve, Goto, TestsOK
  <2>2. Resolved(r)'
    BY <1>6, ResolveRecords
  <2> QED BY <1>2, <1>3, <2>1, <2>2, OneRecord
<1>7. CASE Expand(r)
  <2>1. pc[r] = "expand" /\ pc'[r] = "idle"
    BY <1>1, <1>7 DEF Expand, Goto
  <2>2. Ran(r)'
    BY <1>4, <1>7, <2>1, ExpandRecords
  <2> QED BY <1>2, <1>3, <2>1, <2>2, OneRecord
<1>8. CASE RefuseTest(r)
  <2>1. pc'[r] = "idle" /\ tested'[r] = Untested
    BY <1>1, <1>8 DEF RefuseTest, Goto, IInv, TypeOK
  <2>2. Ran(r)'
    BY <2>1, NothingRecorded
  <2> QED BY <1>2, <1>3, <2>1, <2>2, OneRecord
<1> QED BY <1>5, <1>6, <1>7, <1>8

LEMMA JobRecords ==
    ASSUME IInv, [Next]_vars, TestsOK, NEW r \in Readers,
           EndTest(r) \/ KeepTest(r) \/ ClearTest(r)
    PROVE  TestsOK'
<1>1. /\ tests \in [Readers -> {"none", "live", "done", "over"}]
      /\ pc' = pc /\ tests[r] # "none"
      /\ \A x \in Readers \ {r} : tests'[x] = tests[x]
  BY DEF EndTest, KeepTest, ClearTest, IInv, TypeOK
<1>2. pc[r] \notin {"load_test", "resolve", "expand"} /\ Ran(r)
  BY <1>1 DEF TestsOK
<1>3. CASE EndTest(r)
  <2>1. tested' = tested
    BY <1>3 DEF EndTest
  <2>2. Ran(r)'
    BY <1>2, <2>1, RecordsStay
  <2> QED BY <1>1, <1>2, <2>1, <2>2, OneRecord
<1>4. CASE ClearTest(r)
  <2>1. tested' = [tested EXCEPT ![r] = Untested]
    BY <1>4 DEF ClearTest
  <2>2. tested'[r] = Untested /\ \A a \in (Readers \cup Results) \ {r} : tested'[a] = tested[a]
    BY <2>1 DEF IInv, TypeOK
  <2>3. Ran(r)'
    BY <2>2, NothingRecorded
  <2> QED BY <1>1, <1>2, <2>2, <2>3, OneRecord
<1>5. CASE KeepTest(r)
  <2>1. PICK k \in Results : tested' = [tested EXCEPT ![k] = tested[r]]
    BY <1>5 DEF KeepTest
  <2>2. /\ tested'[k] = tested[r] /\ k \notin Readers /\ UNCHANGED <<doc, gone, brought>>
        /\ tests' = tests
        /\ \A a \in (Readers \cup Results) \ {k} : tested'[a] = tested[a]
    BY <1>5, <2>1, FormulaAssumption DEF KeepTest, IInv, TypeOK
  <2>3. Ran(k)'
    BY <1>2, <2>2 DEF Ran, RanBrought
  <2>4. ASSUME NEW a \in Readers \cup Results
        PROVE  IF a \in Readers /\ pc'[a] = "expand" THEN Resolved(a)' ELSE Ran(a)'
    <3>1. IF a \in Readers /\ pc[a] = "expand" THEN Resolved(a) ELSE Ran(a)
      BY DEF TestsOK
    <3>2. CASE a = k
      BY <2>2, <2>3, <3>2
    <3>3. CASE a # k
      <4>1. tested'[a] = tested[a]
        BY <2>2, <3>3
      <4> QED BY <1>1, <3>1, <4>1, RecordsStay
    <3> QED BY <3>2, <3>3
  <2>5. \A x \in Readers : pc'[x] \in {"load_test", "resolve", "expand"} => tests'[x] = "none"
    BY <1>1, <2>2 DEF TestsOK
  <2> QED BY <2>4, <2>5 DEF TestsOK
<1> QED BY <1>3, <1>4, <1>5

LEMMA ArtifactRecords ==
    ASSUME IInv, [Next]_vars, TestsOK,
           (\E a \in Sessions \cup Results : DeleteArtifact(a)) \/ Restart
    PROVE  TestsOK'
<1>1. \A a \in Readers \cup Results : tested'[a] = tested[a] \/ tested'[a] = Untested
  BY DEF DeleteArtifact, Restart
<1>2. CASE \E a \in Sessions \cup Results : DeleteArtifact(a)
  <2>1. pc' = pc /\ tests' = tests /\ \A r \in Readers : tested'[r] = tested[r]
    BY <1>2, FormulaAssumption DEF DeleteArtifact
  <2>2. ASSUME NEW a \in Readers \cup Results
        PROVE  IF a \in Readers /\ pc'[a] = "expand" THEN Resolved(a)' ELSE Ran(a)'
    <3>1. IF a \in Readers /\ pc[a] = "expand" THEN Resolved(a) ELSE Ran(a)
      BY DEF TestsOK
    <3>2. CASE tested'[a] = tested[a]
      BY <2>1, <3>1, <3>2, RecordsStay
    <3>3. CASE tested'[a] = Untested /\ a \notin Readers
      BY <3>3, NothingRecorded
    <3> QED BY <1>1, <2>1, <3>2, <3>3
  <2> QED BY <2>1, <2>2 DEF TestsOK
<1>3. CASE Restart
  <2>1. /\ \A r \in Readers : tested'[r] = Untested
        /\ \A t \in Threads : pc'[t] = "idle"
    BY <1>3 DEF Restart
  <2>2. \A r \in Readers : pc'[r] = "idle"
    BY <2>1, ThreadFacts
  <2>3. ASSUME NEW a \in Readers \cup Results PROVE Ran(a)'
    <3>1. CASE tested'[a] = Untested
      BY <3>1, NothingRecorded
    <3>2. CASE tested'[a] = tested[a] /\ a \notin Readers
      <4>1. Ran(a)
        BY <3>2 DEF TestsOK
      <4> QED BY <3>2, <4>1, RecordsStay
    <3> QED BY <1>1, <2>1, <3>1, <3>2
  <2> QED BY <2>2, <2>3 DEF TestsOK
<1> QED BY <1>2, <1>3

LEMMA TestsKept ==
    ASSUME IInv, [Next]_vars, AgreementOK, TestsOK
    PROVE  TestsOK'
<1>1. pc \in [Threads -> Places] /\ Readers \subseteq Threads
  BY ThreadFacts DEF IInv, TypeOK, Places
<1>2. ASSUME UNCHANGED <<tests, tested>>, \A r \in Readers : pc'[r] = pc[r] PROVE TestsOK'
  BY <1>2, ElsewhereKeeps DEF TestsOK
<1>3. ASSUME NEW t \in Threads \ Readers, NEW label, pc' = [pc EXCEPT ![t] = label],
             UNCHANGED <<tests, tested>>
      PROVE  TestsOK'
  BY <1>1, <1>2, <1>3
<1>4. ASSUME NEW m \in Managed, MergeCatalog(m) PROVE TestsOK'
  BY <1>2, <1>4 DEF MergeCatalog, history, testState
<1>5. ASSUME NEW e \in Editors,
             BeginEdit(e) \/ PlanEdit(e) \/ RefuseEdit(e) \/ RegisterEdit(e) \/ WriteEdit(e)
      PROVE  TestsOK'
  <2>1. UNCHANGED <<tests, tested>> /\ \E label : pc' = [pc EXCEPT ![e] = label]
    BY <1>5 DEF BeginEdit, PlanEdit, RefuseEdit, RegisterEdit, WriteEdit, Done, Goto,
       history, testState
  <2> QED BY <1>3, <2>1, ThreadFacts
<1>6. ASSUME NEW d \in Deleters, BeginDelete(d) \/ Unregister(d) \/ WriteDelete(d)
      PROVE  TestsOK'
  <2>1. UNCHANGED <<tests, tested>> /\ \E label : pc' = [pc EXCEPT ![d] = label]
    BY <1>6 DEF BeginDelete, Unregister, WriteDelete, EndDelete, Goto, history, testState
  <2> QED BY <1>3, <2>1, ThreadFacts
<1>7. ASSUME NEW j \in Runs, RunStep(j) PROVE TestsOK'
  <2>1. UNCHANGED <<tests, tested>> /\ (pc' = pc \/ \E label : pc' = [pc EXCEPT ![j] = label])
    BY <1>7 DEF RunStep, BeginRun, LoadForRun, SubmitRun, RefuseRun, EndRun, Goto, history, testState
  <2> QED BY <1>2, <1>3, <2>1, ThreadFacts
<1>8. ASSUME NEW s \in Sessions, SessionStep(s) PROVE TestsOK'
  <2>1. UNCHANGED <<tests, tested>> /\ \E label : pc' = [pc EXCEPT ![s] = label]
    BY <1>8 DEF SessionStep, BeginSession, LoadForSession, PinSession, SaveSession,
     ExtendSession, SaveOperators, RefuseSession, Goto, history,
       testState
  <2> QED BY <1>3, <2>1, ThreadFacts
<1>9. ASSUME \/ \E k \in Results : SaveResult(k)
             \/ \E a \in Sessions \cup Results : Materialize(a)
             \/ \E n \in Runtimes : RemoveOperator(n)
             \/ AddOperator \/ \E t \in Runs \cup Sessions : RegisterOwn(t)
             \/ UNCHANGED vars
      PROVE  TestsOK'
  BY <1>2, <1>9 DEF SaveResult, Materialize, RemoveOperator, AddOperator, RegisterOwn, vars,
     history, testState
<1> QED BY <1>4, <1>5, <1>6, <1>7, <1>8, <1>9, ReaderRecords, JobRecords, ArtifactRecords
        DEF Next, RunStep, SessionStep

(* The revisions a test records, and a result kept from it, are what it ran  *)
(* (app.py 3015-3114), although it looks them up in the document and expands *)
(* the registry, without the lock: whatever is kept under the name of a      *)
(* revision has the one body the document has, or is about to get from the   *)
(* edit that registered it, in every registry, copy, session and result,     *)
(* unless a client brought it by that name; so the expansion by the registry *)
(* covers the list made by the document, or has such a body in it.           *)
THEOREM TestsCorrect ==
    ASSUME OneEditor
    PROVE  Spec => []TestRanItsRevisions
<1>1. Init => AgreementOK /\ TestsOK
  <2> SUFFICES ASSUME Init PROVE AgreementOK /\ TestsOK
    OBVIOUS
  <2>1. AgreementOK
    BY AgreesAnyway DEF Init, AgreementOK
  <2>2. \A a \in Readers \cup Results : Ran(a)
    BY DEF Init, Ran, Untested
  <2>3. \A r \in Readers : pc[r] = "idle"
    BY ThreadFacts DEF Init
  <2> QED BY <2>1, <2>2, <2>3 DEF TestsOK
<1>2. IInv /\ AgreementOK /\ TestsOK /\ [Next]_vars => (AgreementOK /\ TestsOK)'
  BY AgreementKept, TestsKept
<1>3. IInv /\ TestsOK => TestRanItsRevisions
  <2> SUFFICES ASSUME IInv, TestsOK, NEW a \in Readers \cup Results,
                      a \in saved \/ (a \in Readers /\ tests[a] # "none"),
                      tested[a].names \cap gone = {}
               PROVE  RanBrought(a) \/ \A n \in tested[a].names : doc[n] = tested[a].ran[n]
    BY DEF TestRanItsRevisions, RanBrought
  <2>1. saved \subseteq Sessions \cup Results
    BY DEF IInv, TypeOK
  <2>2. a \in Readers => tests[a] # "none"
    BY <2>1, ThreadFacts, FormulaAssumption
  <2>3. Ran(a)
    BY <2>2 DEF TestsOK
  <2> QED BY <2>3 DEF Ran
<1> QED BY <1>1, <1>2, <1>3, InvariantHolds, PTL DEF Spec
=============================================================================
