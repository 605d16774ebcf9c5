---------------------------- MODULE FormulaStore ----------------------------
(***************************************************************************)
(* Formulas and their revisions: the document formulas.json, the registry  *)
(* of operators in memory, and what refers to a revision by its runtime    *)
(* name: other formulas, live runs, saved sessions and saved results.      *)
(*                                                                          *)
(* Requests read the whole document, work on their copy and write it whole. *)
(* Only deletion and the submission of a run take _formula_lifecycle_lock.  *)
(* A reader may test a formula and keep the result.                         *)
(* Names, types, categories and wording of a formula are left out: a        *)
(* request that fails a check on them is one that is refused.  So are       *)
(* formulas a user had created under a name the catalog took later.         *)
(***************************************************************************)
EXTENDS Naturals, FiniteSets

CONSTANTS
    Families,       \* formula names
    Managed,        \* those of the packaged indicator catalog
    MaxRevision,    \* bound: revisions of one family
    Calcs,          \* calculations a body may stand for
    UserBodies,     \* what users put into a formula
    Operators,      \* the operators clients register by a runtime name of their
                    \* choice, with their bodies
    Editors,        \* threads that answer POST and PUT /formulas
    Deleters,       \* threads that answer DELETE /formulas
    Readers,        \* threads whose request lists formulas or tests one, each
                    \* with its test
    Runs,           \* POST /runs requests, each with its job
    Sessions,       \* threads that create and continue a session, each with its own
    Results,        \* requests that save a result, each with the result
    None,
    Stores,         \* the documents the process may find at its first start
    MaxRequests,    \* bound: requests of all kinds
    MaxRestarts     \* bound: process restarts, each with the same or a new catalog

Revisions == 1 .. MaxRevision
Runtimes == Families \X Revisions       \* runtime names: name, name__r2, ...
Body == [uses : SUBSET Runtimes, calc : Calcs, active : BOOLEAN]
Threads == Editors \cup Deleters \cup Readers \cup Runs \cup Sessions

ASSUME FormulaAssumption ==
    /\ MaxRevision \in Nat \ {0} /\ MaxRestarts \in Nat /\ MaxRequests \in Nat
    /\ Managed \subseteq Families
    /\ UserBodies \subseteq Body
    /\ Operators \subseteq Runtimes \X Body
    /\ Stores \subseteq [Runtimes -> Body \cup {None}]
    /\ None \notin Body \cup Threads \cup Families \cup Calcs
    /\ Editors \cap (Deleters \cup Readers \cup Runs \cup Sessions) = {}
    /\ Deleters \cap (Readers \cup Runs \cup Sessions) = {}
    /\ Readers \cap (Runs \cup Sessions) = {}
    /\ Runs \cap Sessions = {}
    /\ Results \cap (Readers \cup Sessions) = {}

VARIABLES
    doc,        \* formulas.json: the body of each revision, or None
    registry,   \* USER_OPERATORS: the body each runtime name evaluates to, or None
    packaged,   \* the calculation this program version packages per managed family, or None
    lock,       \* who holds _formula_lifecycle_lock
    pc,
    copy,       \* the document each thread read
    draft,      \* what an editor or deleter was asked for
    plan,       \* the revisions an editor is about to publish
    jobs,       \* run jobs: "absent", "live" or "over"
    pins,       \* the runtime names a run's metadata pins
    saved,      \* the sessions and results on disk
    pinned,     \* the operator specs each of them embeds
    own,        \* the operators a session came with, which it embeds too
    removed,    \* runtime names taken out by DELETE /operators
    brought,    \* history: the operators clients registered by name
    gone,       \* history: the revisions that left the document, or were
                \* registered and did not reach it before the process exited
    tests,      \* _formula_test_jobs: where the test of each reader stands
    tested,     \* what a test or a result kept from one records and ran
    keeps,      \* kept_result_id of each test
    requests,
    restarts

vars == <<doc, registry, packaged, lock, pc, copy, draft, plan, jobs, pins,
          saved, pinned, own, removed, brought, gone, tests, tested, keeps, requests,
          restarts>>
artifacts == <<saved, pinned, own>>
runState == <<jobs, pins>>
testState == <<tests, tested, keeps>>
process == <<packaged, requests, restarts>>
history == <<gone, brought, testState>>

NoBodies == [n \in Runtimes |-> None]
Untested == [names |-> {}, ran |-> NoBodies]
NoDraft == [family |-> None, body |-> None, upgrade |-> FALSE]

-----------------------------------------------------------------------------
(* Reading a document.                                                       *)

Present(d) == {n \in Runtimes : d[n] # None}
Published(d, f) == {r \in Revisions : d[<<f, r>>] # None}
Known(d) == {f \in Families : Published(d, f) # {}}
Latest(d, f) == CHOOSE r \in Published(d, f) : \A s \in Published(d, f) : s <= r
LatestName(d, f) == <<f, Latest(d, f)>>
LatestBody(d, f) == d[LatestName(d, f)]

(* Revisions of a family are numbered from 1 without a gap, and what the     *)
(* catalog packages uses no other formula.                                   *)
Contiguous(d) ==
    \A n \in Present(d) : n[2] = 1 \/ d[<<n[1], n[2] - 1>>] # None

ManagedStandAlone(d) == \A n \in Present(d) : n[1] \in Managed => d[n].uses = {}

ASSUME StoresAssumption ==
    \A d \in Stores : Contiguous(d) /\ ManagedStandAlone(d)

Overlay(d, new) == [n \in Runtimes |-> IF new[n] # None THEN new[n] ELSE d[n]]
Without(d, f) == [n \in Runtimes |-> IF n[1] = f THEN None ELSE d[n]]

(* Everything in start and all it uses, directly or not. *)
Closure(d, start) ==
    {n \in Present(d) :
        \A S \in SUBSET Present(d) :
            (/\ start \cap Present(d) \subseteq S
             /\ \A m \in S : d[m].uses \cap Present(d) \subseteq S) => n \in S}

(* The families whose latest revisions follow a new revision of f. *)
Upgraded(d, f) ==
    {g \in Known(d) :
        \A S \in SUBSET Known(d) :
            (/\ f \in S
             /\ \A h \in Known(d) :
                   (\E k \in S : LatestName(d, k) \in LatestBody(d, h).uses) => h \in S)
            => g \in S}

(* _assert_latest_formula_dag: no set of families whose latest revisions all *)
(* use a member of the set.                                                  *)
LatestAcyclic(d) ==
    \A S \in SUBSET Known(d) \ {{}} :
        \E f \in S : \A n \in LatestBody(d, f).uses : n[1] \notin S

-----------------------------------------------------------------------------
(* The packaged catalog is merged by the first read that finds it different: *)
(* a family it adds or changes gets a revision, one it dropped is retired.   *)
(* The code merges all families in one read; nobody reads in between here.   *)
CatalogBody(m) ==
    IF packaged[m] # None THEN [uses |-> {}, calc |-> packaged[m], active |-> TRUE]
    ELSE [LatestBody(doc, m) EXCEPT !.active = FALSE]

NeedsMerge(m) ==
    IF m \in Known(doc) THEN LatestBody(doc, m) # CatalogBody(m)
    ELSE packaged[m] # None

Merged == \A m \in Managed : ~NeedsMerge(m)

NextRevision(d, f) == IF f \in Known(d) THEN Latest(d, f) + 1 ELSE 1

MergeCatalog(m) ==
    /\ NeedsMerge(m)
    /\ NextRevision(doc, m) \in Revisions
    /\ doc' = [doc EXCEPT ![<<m, NextRevision(doc, m)>>] = CatalogBody(m)]
    /\ UNCHANGED <<registry, lock, pc, copy, draft, plan, runState, artifacts,
                   removed, process, history>>

Goto(t, label) == pc' = [pc EXCEPT ![t] = label]
Read(t) == copy' = [copy EXCEPT ![t] = doc]
Request == requests < MaxRequests /\ requests' = requests + 1
Forget(t) == copy' = [copy EXCEPT ![t] = NoBodies]

-----------------------------------------------------------------------------
(* _formula_impact: who would notice a change of family f.                   *)
UsedBy(f, names) == \E n \in names : n[1] = f

(* A faulty variant: only other formulas are asked. *)
Referenced_FormulasOnly(f) ==
    \E n \in Present(doc) : n[1] # f /\ UsedBy(f, doc[n].uses \cap Present(doc))

Referenced(f) ==
    \/ \E n \in Present(doc) : n[1] # f /\ UsedBy(f, doc[n].uses \cap Present(doc))
    \/ \E a \in saved : UsedBy(f, Present(pinned[a]) \cap Present(doc))
    \/ \E j \in Runs : jobs[j] = "live" /\ UsedBy(f, pins[j] \cap Present(doc))

-----------------------------------------------------------------------------
(* POST and PUT /formulas.                                                   *)
BeginEdit(e) ==
    /\ Request
    /\ pc[e] = "idle"
    /\ Merged
    /\ \E f \in Families \ Managed, b \in UserBodies, up \in BOOLEAN :
          draft' = [draft EXCEPT ![e] = [family |-> f, body |-> b, upgrade |-> up]]
    /\ Read(e)
    /\ Goto(e, "edit")
    /\ UNCHANGED <<doc, registry, lock, plan, runState, artifacts, removed,
                   packaged, restarts, history>>

NewBody(e, d, g) ==
    LET f == draft[e].family
        moved == Upgraded(d, f)
    IN  IF g = f THEN draft[e].body
        ELSE [LatestBody(d, g) EXCEPT !.uses =
                 {IF n[1] \in moved /\ n = LatestName(d, n[1])
                  THEN <<n[1], n[2] + 1>> ELSE n : n \in @}]

(* Whether the calculation is new is asked of a second read of the document, *)
(* not of the copy the request writes back.                                  *)
ChangesNothing(e) ==
    LET f == draft[e].family
    IN  f \in Known(copy[e]) /\ f \in Known(doc) /\ LatestBody(doc, f) = draft[e].body

(* A faulty variant: a changed calculation replaces the revision in place. *)
Planned_InPlace(e) ==
    LET f == draft[e].family
        here == copy[e]
    IN  IF f \in Known(here)
        THEN [NoBodies EXCEPT ![LatestName(here, f)] = draft[e].body]
        ELSE [NoBodies EXCEPT ![<<f, 1>>] = draft[e].body]

(* The revisions an edit publishes: the latest one again if the calculation  *)
(* stays; else a new one of the family and, if it is in use, of each formula *)
(* whose latest revision follows.                                            *)
Planned(e) ==
    LET f == draft[e].family
        here == copy[e]
        next(g) == <<g, NextRevision(IF g = f THEN here ELSE doc, g)>>
        moved == IF f \in Known(here) /\ Referenced(f)
                 THEN Upgraded(doc, f) \cap Known(here) ELSE {f}
    IN  IF ChangesNothing(e)
        THEN [NoBodies EXCEPT ![LatestName(here, f)] = draft[e].body]
        ELSE [n \in Runtimes |->
                IF \E g \in moved : n = next(g) THEN NewBody(e, doc, n[1]) ELSE None]

Room(e) ==
    \A f \in Upgraded(doc, draft[e].family) \cup {draft[e].family} :
        NextRevision(doc, f) \in Revisions

(* The checks of add_formula and update_formula before anything is changed.  *)
PlanEdit(e) ==
    LET f == draft[e].family
    IN  /\ pc[e] = "edit"
        /\ Merged
        /\ f \in Known(copy[e]) => f \in Known(doc)
        /\ Room(e)
        /\ \A n \in draft[e].body.uses : registry[n] # None
        /\ (f \in Known(copy[e]) /\ ~ChangesNothing(e) /\ Referenced(f))
              => draft[e].upgrade
        /\ plan' = [plan EXCEPT ![e] = Planned(e)]
        /\ LatestAcyclic(Overlay(copy[e], plan'[e]))
        /\ Goto(e, IF ChangesNothing(e) THEN "write" ELSE "register")
        /\ UNCHANGED <<doc, registry, lock, copy, draft, runState, artifacts,
                       removed, process, history>>

Done(e) ==
    /\ Goto(e, "idle")
    /\ Forget(e)
    /\ draft' = [draft EXCEPT ![e] = NoDraft]
    /\ plan' = [plan EXCEPT ![e] = NoBodies]

(* Any check may refuse the request. *)
RefuseEdit(e) ==
    /\ pc[e] = "edit"
    /\ Done(e)
    /\ UNCHANGED <<doc, registry, lock, runState, artifacts, removed, process, history>>

(* The candidates are registered one after the other; if a name is taken     *)
(* those registered before are taken out again and nothing is written.       *)
RegisterEdit(e) ==
    /\ pc[e] = "register"
    /\ IF Present(plan[e]) \cap Present(registry) = {}
          /\ \A n \in Present(plan[e]) :
                plan[e][n].uses \subseteq Present(registry) \cup Present(plan[e])
       THEN /\ registry' = Overlay(registry, plan[e])
            /\ Goto(e, "write")
            /\ UNCHANGED <<copy, draft, plan>>
       ELSE Done(e) /\ UNCHANGED registry
    /\ UNCHANGED <<doc, lock, runState, artifacts, removed, process, history>>

WriteEdit(e) ==
    /\ pc[e] = "write"
    /\ doc' = Overlay(copy[e], plan[e])
    /\ gone' = gone \cup (Present(doc) \ Present(doc'))
    /\ Done(e)
    /\ UNCHANGED <<registry, lock, runState, artifacts, removed, process, brought,
                   testState>>

-----------------------------------------------------------------------------
(* DELETE /formulas/{name}, under the lock: read, ask who refers to it,      *)
(* unregister, write.                                                        *)
BeginDelete(d) ==
    /\ Request
    /\ pc[d] = "idle"
    /\ lock = None
    /\ Merged
    /\ \E f \in Known(doc) \ Managed :
          draft' = [draft EXCEPT ![d] = [NoDraft EXCEPT !.family = f]]
    /\ lock' = d
    /\ Read(d)
    /\ Goto(d, "delete")
    /\ UNCHANGED <<doc, registry, plan, runState, artifacts, removed, packaged,
                   restarts, history>>

EndDelete(d) ==
    /\ lock' = None
    /\ Goto(d, "idle")
    /\ Forget(d)
    /\ draft' = [draft EXCEPT ![d] = NoDraft]

Unregister(d) ==
    LET f == draft[d].family
    IN  /\ pc[d] = "delete"
        /\ Merged
        /\ IF f \in Known(doc) /\ ~Referenced(f)
           THEN /\ registry' = [n \in Runtimes |->
                        IF n[1] = f /\ copy[d][n] # None THEN None ELSE registry[n]]
                /\ Goto(d, "remove")
                /\ UNCHANGED <<lock, copy, draft>>
           ELSE EndDelete(d) /\ UNCHANGED registry
        /\ UNCHANGED <<doc, plan, runState, artifacts, removed, process, history>>

(* A faulty variant: only the first revision, which has the formula's name. *)
WriteDelete_FirstOnly(d) ==
    /\ pc[d] = "remove"
    /\ doc' = [copy[d] EXCEPT ![<<draft[d].family, 1>>] = None]
    /\ gone' = gone \cup (Present(doc) \ Present(doc'))
    /\ EndDelete(d)
    /\ UNCHANGED <<registry, plan, runState, artifacts, removed, process, brought,
                   testState>>

WriteDelete(d) ==
    /\ pc[d] = "remove"
    /\ doc' = Without(copy[d], draft[d].family)
    /\ gone' = gone \cup (Present(doc) \ Present(doc'))
    /\ EndDelete(d)
    /\ UNCHANGED <<registry, plan, runState, artifacts, removed, process, brought,
                   testState>>

-----------------------------------------------------------------------------
(* _load_persisted_formulas: what was read becomes what is registered.  A    *)
(* name stays as it is if its definition does or the document lacks it (but  *)
(* managed names then go); else it is registered again, if all it uses is.   *)
Standing(d) ==
    {n \in Present(registry) : registry[n] = d[n] \/ (d[n] = None /\ n[1] \notin Managed)}

Loaded(d) ==
    LET registered ==
            UNION {S \in SUBSET (Standing(d) \cup Present(d)) :
                      \A n \in S : n \in Standing(d) \/ d[n].uses \subseteq S}
    IN  [n \in Runtimes |->
            IF n \notin registered THEN None ELSE IF d[n] # None THEN d[n] ELSE registry[n]]

BeginLoad(r) ==
    /\ Request
    /\ pc[r] = "idle"
    /\ Merged
    /\ Read(r)
    /\ Goto(r, "load")
    /\ UNCHANGED <<doc, registry, lock, draft, plan, runState, artifacts,
                   removed, packaged, restarts, history>>

Load(r) ==
    /\ pc[r] = "load"
    /\ registry' = Loaded(copy[r])
    /\ Forget(r)
    /\ Goto(r, "idle")
    /\ UNCHANGED <<doc, lock, draft, plan, runState, artifacts, removed,
                   process, history>>

-----------------------------------------------------------------------------
(* POST /formula-tests: load; look a revision up and list what it uses, by   *)
(* the document; expand it, by the registry; submit a job for the expansion. *)
(* Requests to keep one test come one at a time.                             *)
BeginTest(r) ==
    /\ Request
    /\ pc[r] = "idle" /\ tests[r] = "none"
    /\ Merged
    /\ Read(r)
    /\ Goto(r, "load_test")
    /\ UNCHANGED <<doc, registry, lock, draft, plan, runState, artifacts,
                   removed, packaged,
                   restarts, history>>

(* What could not be registered is kept. *)
LoadForTest(r) ==
    /\ pc[r] = "load_test"
    /\ registry' = Loaded(copy[r])
    /\ copy' = [copy EXCEPT ![r] =
                  [n \in Runtimes |-> IF registry'[n] = None THEN copy[r][n] ELSE None]]
    /\ Goto(r, "resolve")
    /\ UNCHANGED <<doc, lock, draft, plan, runState, artifacts, removed,
                   process, history>>

(* A saved revision or a draft, its inputs bound to fields, revisions,       *)
(* results or numbers; a result counts as what it was expanded to.           *)
Resolve(r) ==
    /\ pc[r] = "resolve"
    /\ Merged
    /\ \E start \in {{n} : n \in Present(doc) \ Present(copy[r])}
                     \cup {b.uses : b \in UserBodies} :
          /\ start \subseteq Present(registry)
          /\ tested' = [tested EXCEPT ![r].names = Closure(doc, start),
                                     ![r].ran = [n \in Runtimes |->
                                          IF n \in start THEN registry[n] ELSE None]]
    /\ Forget(r)
    /\ Goto(r, "expand")
    /\ UNCHANGED <<doc, registry, lock, draft, plan, runState, artifacts,
                   removed, process,
                   gone, brought, tests, keeps>>

Expand(r) ==
    LET needed == Closure(registry, Present(tested[r].ran))
    IN  /\ pc[r] = "expand"
        /\ Present(tested[r].ran) \subseteq needed
        /\ \A n \in needed : registry[n].uses \subseteq needed
        /\ tests' = [tests EXCEPT ![r] = "live"]
        /\ tested' = [tested EXCEPT ![r].ran =
                         [n \in Runtimes |-> IF n \in needed THEN registry[n] ELSE None]]
        /\ Goto(r, "idle")
        /\ UNCHANGED <<doc, registry, lock, copy, draft, plan, runState,
                       artifacts, removed,
                       process, gone, brought, keeps>>

RefuseTest(r) ==
    /\ pc[r] \in {"resolve", "expand"}
    /\ tested' = [tested EXCEPT ![r] = Untested]
    /\ Forget(r)
    /\ Goto(r, "idle")
    /\ UNCHANGED <<doc, registry, lock, draft, plan, runState, artifacts,
                   removed, process,
                   gone, brought, tests, keeps>>

(* The job evaluates the expansion; it may be stopped, or fail. *)
EndTest(r) ==
    /\ tests[r] = "live"
    /\ \E end \in {"done", "over"} : tests' = [tests EXCEPT ![r] = end]
    /\ UNCHANGED <<doc, registry, lock, pc, copy, draft, plan, runState,
                   artifacts, removed,
                   process, gone, brought, tested, keeps>>

(* POST .../keep: saved once, and again if what was saved was deleted. An    *)
(* expansion needs no operators.                                             *)
KeepTest(r) ==
    /\ Request
    /\ tests[r] = "done" /\ keeps[r] \notin saved
    /\ \E k \in Results \ saved :
          /\ saved' = saved \cup {k}
          /\ keeps' = [keeps EXCEPT ![r] = k]
          /\ tested' = [tested EXCEPT ![k] = tested[r]]
    /\ UNCHANGED <<doc, registry, lock, pc, copy, draft, plan, runState, pinned, own, removed,
                   packaged, restarts, gone, brought, tests>>

ClearTest(r) ==
    /\ tests[r] \in {"done", "over"}
    /\ tests' = [tests EXCEPT ![r] = "none"]
    /\ tested' = [tested EXCEPT ![r] = Untested]
    /\ keeps' = [keeps EXCEPT ![r] = None]
    /\ UNCHANGED <<doc, registry, lock, pc, copy, draft, plan, runState,
                   artifacts, removed,
                   process, gone, brought>>

-----------------------------------------------------------------------------
(* POST /runs: load, pin and submit under the lock. *)
BeginRun(j) ==
    /\ Request
    /\ pc[j] = "idle"
    /\ jobs[j] = "absent"
    /\ lock = None
    /\ Merged
    /\ lock' = j
    /\ Read(j)
    /\ Goto(j, "load")
    /\ UNCHANGED <<doc, registry, draft, plan, runState, artifacts, removed,
                   packaged, restarts, history>>

LoadForRun(j) ==
    /\ pc[j] = "load"
    /\ registry' = Loaded(copy[j])
    /\ Forget(j)
    /\ Goto(j, "pin")
    /\ UNCHANGED <<doc, lock, draft, plan, runState, artifacts, removed,
                   process, history>>

PinsOf(d, chosen) == Closure(d, chosen)

(* The run pins the registered, active, enabled formulas and those its own   *)
(* enabled operators use, with all they use.  The document is read several   *)
(* times here, which is one step: what another request can write in between  *)
(* only adds revisions this run does not use.                                *)
SubmitRun(j) ==
    /\ pc[j] = "pin"
    /\ Merged
    /\ \E chosen \in SUBSET {LatestName(doc, f) : f \in Known(doc)} :
          /\ \A n \in chosen : doc[n].active /\ registry[n] # None
          /\ \E allowed \in SUBSET Present(copy[j]) :
                pins' = [pins EXCEPT ![j] =
                           PinsOf(doc, chosen \cup UNION {copy[j][n].uses : n \in allowed})]
    /\ jobs' = [jobs EXCEPT ![j] = "live"]
    /\ lock' = None
    /\ Forget(j)
    /\ Goto(j, "idle")
    /\ UNCHANGED <<doc, registry, draft, plan, artifacts, removed,
                   process, history>>

RefuseRun(j) ==
    /\ pc[j] = "pin"
    /\ lock' = None
    /\ Forget(j)
    /\ Goto(j, "idle")
    /\ UNCHANGED <<doc, registry, draft, plan, runState, artifacts, removed,
                   process, history>>

EndRun(j) ==
    /\ jobs[j] = "live"
    /\ jobs' = [jobs EXCEPT ![j] = "over"]
    /\ UNCHANGED <<doc, registry, lock, pc, copy, draft, plan, pins, artifacts,
                   removed, process, history>>

-----------------------------------------------------------------------------
(* Sessions embed the latest revisions as create_session read them after it  *)
(* had loaded what an earlier read found, and apart from these the operators *)
(* the request brought; results embed what their tree needs of the registry. *)
BeginSession(s) ==
    /\ Request
    /\ pc[s] = "idle"
    /\ s \notin saved
    /\ Merged
    /\ Read(s)
    /\ Goto(s, "load")
    /\ UNCHANGED <<doc, registry, lock, draft, plan, runState, artifacts, removed,
                   packaged, restarts, history>>

LoadForSession(s) ==
    /\ pc[s] = "load"
    /\ registry' = Loaded(copy[s])
    /\ Forget(s)
    /\ Goto(s, "pin")
    /\ UNCHANGED <<doc, lock, draft, plan, runState, artifacts, removed,
                   process, history>>

PinSession(s) ==
    /\ pc[s] = "pin"
    /\ Merged
    /\ own' = [own EXCEPT ![s] = copy[s]]
    /\ Forget(s)
    /\ pinned' = [pinned EXCEPT ![s] =
          [n \in Runtimes |-> IF n[1] \in Known(doc) /\ n = LatestName(doc, n[1])
                              THEN doc[n] ELSE None]]
    /\ Goto(s, "save")
    /\ UNCHANGED <<doc, registry, lock, draft, plan, runState, saved, removed, process,
                   history>>

SaveSession(s) ==
    /\ pc[s] = "save"
    /\ saved' = saved \cup {s}
    /\ Goto(s, "idle")
    /\ UNCHANGED <<doc, registry, lock, copy, draft, plan, runState, pinned, own,
                   removed, process, history>>

(* continue_session: the operators of the request, then those embedded, are  *)
(* made sure of (the latter is Materialize), then the former are saved.      *)
ExtendSession(s) ==
    /\ Request
    /\ pc[s] = "idle" /\ s \in saved
    /\ Goto(s, "extend")
    /\ UNCHANGED <<doc, registry, lock, copy, draft, plan, runState, artifacts, removed,
                   packaged, restarts, history>>

SaveOperators(s) ==
    /\ pc[s] = "extend" /\ s \in saved
    /\ own' = [own EXCEPT ![s] = Overlay(@, copy[s])]
    /\ Forget(s)
    /\ Goto(s, "idle")
    /\ UNCHANGED <<doc, registry, lock, draft, plan, runState, saved, pinned, removed,
                   process, history>>

RefuseSession(s) ==
    /\ pc[s] \in {"pin", "extend"}
    /\ Forget(s)
    /\ Goto(s, "idle")
    /\ UNCHANGED <<doc, registry, lock, draft, plan, runState, artifacts, removed,
                   process, history>>

SaveResult(k) ==
    /\ Request
    /\ k \notin saved
    /\ \E n \in Present(registry) :
          LET needed == Closure(registry, {n})
          IN  pinned' = [pinned EXCEPT ![k] =
                  [m \in Runtimes |-> IF m \in needed THEN registry[m] ELSE None]]
    /\ saved' = saved \cup {k}
    /\ UNCHANGED <<doc, registry, lock, pc, copy, draft, plan, runState, own,
                   removed, packaged, restarts, history>>

DeleteArtifact(a) ==
    /\ a \in saved
    /\ saved' = saved \ {a}
    /\ pinned' = [pinned EXCEPT ![a] = NoBodies]
    /\ own' = [own EXCEPT ![a] = NoBodies]
    /\ tested' = [x \in Readers \cup Results |-> IF x = a THEN Untested ELSE tested[x]]
    /\ UNCHANGED <<doc, registry, lock, pc, copy, draft, plan, runState, removed, process,
                   gone, brought, tests, keeps>>

-----------------------------------------------------------------------------
(* Operators that clients register by name, without the lock.                *)
Register(n, b) ==
    /\ registry[n] = None
    /\ b.uses \subseteq Present(registry)
    /\ registry' = [registry EXCEPT ![n] = b]

(* A session that is opened or continued, or a result used as a seed,        *)
(* registers what it embeds, one operator after the other; ensure_operator   *)
(* leaves a name that is registered alone.                                   *)
Materialize(a) ==
    /\ a \in saved
    /\ \E n \in Runtimes : \E b \in {pinned[a][n], own[a][n]} \ {None} : Register(n, b)
    /\ UNCHANGED <<doc, lock, pc, copy, draft, plan, runState, artifacts,
                   removed, process, history>>

(* POST /operators. *)
AddOperator ==
    /\ Request
    /\ \E o \in Operators :
          /\ Register(o[1], o[2])
          /\ brought' = brought \cup {o}
    /\ UNCHANGED <<doc, lock, pc, copy, draft, plan, runState, artifacts, removed,
                   packaged, restarts, gone, testState>>

(* The operators of a run or session, one after the other; one that comes    *)
(* with a continue may be registered with that body.                         *)
RegisterOwn(t) ==
    /\ pc[t] \in {"pin", "extend"}
    /\ \E o \in Operators :
          /\ \/ Register(o[1], o[2])
             \/ pc[t] = "extend" /\ registry[o[1]] = o[2] /\ UNCHANGED registry
          /\ copy' = [copy EXCEPT ![t][o[1]] = o[2]]
          /\ brought' = brought \cup {o}
    /\ UNCHANGED <<doc, lock, pc, draft, plan, runState, artifacts, removed, process,
                   gone, testState>>

(* DELETE /operators/{name} asks nobody, except for catalog formulas. *)
RemoveOperator(n) ==
    /\ Request
    /\ Merged
    /\ registry[n] # None
    /\ ~(n[1] \in Managed /\ doc[n] # None)
    /\ registry' = [registry EXCEPT ![n] = None]
    /\ removed' = removed \cup {n}
    /\ UNCHANGED <<doc, lock, pc, copy, draft, plan, runState, artifacts,
                   packaged, restarts, history>>

(* What an edit has registered and not written. *)
Unwritten ==
    {n \in Runtimes \ Present(doc) : \E e \in Editors : pc[e] = "write" /\ plan[e][n] # None}

(* The process exits and starts again, perhaps as a newer version. *)
Restart ==
    /\ restarts < MaxRestarts
    /\ restarts' = restarts + 1
    /\ packaged' \in {p \in [Managed -> Calcs \cup {None}] :
                        \A m \in Managed : p[m] = packaged[m]
                            \/ NextRevision(doc, m) \in Revisions}
    /\ registry' = NoBodies
    /\ lock' = None
    /\ pc' = [t \in Threads |-> "idle"]
    /\ copy' = [t \in Threads |-> NoBodies]
    /\ draft' = [t \in Editors \cup Deleters |-> NoDraft]
    /\ plan' = [e \in Editors |-> NoBodies]
    /\ jobs' = [j \in Runs |-> IF jobs[j] = "live" THEN "over" ELSE jobs[j]]
    /\ pinned' = [a \in Sessions \cup Results |->
                    IF a \in saved THEN pinned[a] ELSE NoBodies]
    /\ own' = [a \in Sessions \cup Results |->
                    IF a \in saved THEN own[a] ELSE NoBodies]
    /\ removed' = {}
    /\ tests' = [r \in Readers |-> "none"]
    /\ tested' = [a \in Readers \cup Results |->
                    IF a \in Readers THEN Untested ELSE tested[a]]
    /\ keeps' = [r \in Readers |-> None]
    /\ gone' = gone \cup Unwritten
    /\ UNCHANGED <<doc, pins, saved, brought, requests>>

-----------------------------------------------------------------------------
Init ==
    /\ doc \in Stores
    /\ registry = NoBodies
    /\ packaged \in [Managed -> Calcs]
    /\ lock = None
    /\ pc = [t \in Threads |-> "idle"]
    /\ copy = [t \in Threads |-> NoBodies]
    /\ draft = [t \in Editors \cup Deleters |-> NoDraft]
    /\ plan = [e \in Editors |-> NoBodies]
    /\ jobs = [j \in Runs |-> "absent"]
    /\ pins = [j \in Runs |-> {}]
    /\ saved = {}
    /\ pinned = [a \in Sessions \cup Results |-> NoBodies]
    /\ own = [a \in Sessions \cup Results |-> NoBodies]
    /\ removed = {}
    /\ brought = {}
    /\ gone = {}
    /\ tests = [r \in Readers |-> "none"]
    /\ tested = [a \in Readers \cup Results |-> Untested]
    /\ keeps = [r \in Readers |-> None]
    /\ requests = 0
    /\ restarts = 0

Next ==
    \/ \E m \in Managed : MergeCatalog(m)
    \/ \E e \in Editors : BeginEdit(e) \/ PlanEdit(e) \/ RefuseEdit(e)
                          \/ RegisterEdit(e) \/ WriteEdit(e)
    \/ \E d \in Deleters : BeginDelete(d) \/ Unregister(d) \/ WriteDelete(d)
    \/ \E r \in Readers : BeginLoad(r) \/ Load(r)
    \/ \E r \in Readers : BeginTest(r) \/ LoadForTest(r) \/ Resolve(r) \/ Expand(r)
                          \/ RefuseTest(r) \/ EndTest(r) \/ KeepTest(r) \/ ClearTest(r)
    \/ \E j \in Runs : BeginRun(j) \/ LoadForRun(j) \/ SubmitRun(j) \/ RefuseRun(j)
                        \/ EndRun(j)
    \/ \E s \in Sessions : BeginSession(s) \/ LoadForSession(s) \/ PinSession(s)
                            \/ SaveSession(s) \/ ExtendSession(s) \/ SaveOperators(s)
                            \/ RefuseSession(s)
    \/ \E k \in Results : SaveResult(k)
    \/ \E a \in Sessions \cup Results : DeleteArtifact(a) \/ Materialize(a)
    \/ AddOperator
    \/ \E t \in Runs \cup Sessions : RegisterOwn(t)
    \/ \E n \in Runtimes : RemoveOperator(n)
    \/ Restart

Spec == Init /\ [][Next]_vars

-----------------------------------------------------------------------------
MaybeBodies == [Runtimes -> Body \cup {None}]

TypeOK ==
    /\ doc \in MaybeBodies /\ Contiguous(doc)
    /\ registry \in MaybeBodies
    /\ packaged \in [Managed -> Calcs \cup {None}]
    /\ lock \in Deleters \cup Runs \cup {None}
    /\ pc \in [Threads -> {"idle", "edit", "register", "write", "delete",
                           "remove", "load", "load_test", "resolve", "expand", "pin", "save",
                           "extend"}]
    /\ copy \in [Threads -> MaybeBodies]
    /\ draft \in [Editors \cup Deleters ->
                    [family : Families \cup {None}, body : Body \cup {None},
                     upgrade : BOOLEAN]]
    /\ plan \in [Editors -> MaybeBodies]
    /\ jobs \in [Runs -> {"absent", "live", "over"}]
    /\ pins \in [Runs -> SUBSET Runtimes]
    /\ saved \subseteq Sessions \cup Results
    /\ pinned \in [Sessions \cup Results -> MaybeBodies]
    /\ own \in [Sessions \cup Results -> MaybeBodies]
    /\ removed \subseteq Runtimes
    /\ brought \subseteq Operators
    /\ gone \subseteq Runtimes
    /\ tests \in [Readers -> {"none", "live", "done", "over"}]
    /\ tested \in [Readers \cup Results ->
                       [names : SUBSET Runtimes, ran : MaybeBodies]]
    /\ keeps \in [Readers -> Results \cup {None}]
    /\ requests \in 0 .. MaxRequests
    /\ restarts \in 0 .. MaxRestarts

(* Every formula of a document has what it uses there.                        *)
SelfContained(d) == \A n \in Present(d) : d[n].uses \subseteq Present(d)
LoadsGaps(t) == pc[t] \in {"load", "load_test"} /\ pc'[t] # pc[t] /\ ~SelfContained(copy[t])

(* A live run keeps every formula it pinned: no deletion, edit, load, opened  *)
(* session or catalog update takes one that is registered out of the registry *)
(* under it (the comment at app.py 179).  Only a client that removes the      *)
(* operator by its name can, or one that loads a document in which a formula  *)
(* lacks what it uses: such a formula is not registered again, and a reader   *)
(* that is late may hold one that was deleted and replaced meanwhile.         *)
RunKeepsItsFormulas ==
    [][\A j \in Runs : jobs[j] = "live" /\ jobs'[j] = "live" =>
          \A n \in pins[j] \ removed' :
             registry[n] # None =>
                registry'[n] # None \/ \E t \in Threads : LoadsGaps(t)]_vars

(* A deletion never leaves a formula in the document that uses one it had    *)
(* read and took away, whatever was read or written between its read, its    *)
(* question who refers to the formula, and its write (app.py 3566-3600).  A  *)
(* revision an edit publishes after the question is not asked about: only a  *)
(* formula that named it before it existed could be left with it.            *)
DeletionSparesUsers ==
    [][\A d \in Deleters :
          pc[d] = "remove" /\ pc'[d] # "remove" /\ doc' # doc =>
             \A n \in Present(doc') :
                doc'[n].uses \cap Present(copy[d]) \subseteq Present(doc')]_vars

(* A published revision is never given another calculation while one edit is *)
(* under way at a time: what a formula, a session, a result or a run pinned  *)
(* by name means the same later (README.md 119-120, app.py 3515-3549).       *)
RevisionFixed ==
    [][\A n \in Runtimes :
          doc[n] # None /\ doc'[n] # None => doc'[n] = doc[n]]_vars

(* The revisions a test records (dependency_revisions), and a result kept    *)
(* from it, are what it ran, and still mean that as long as the document     *)
(* keeps them all: a test looks them up in one place and expands another,    *)
(* without the lock, between requests that register and write (app.py        *)
(* 3015-3114), one edit at a time.  Nothing is said of a revision that left  *)
(* the document, nor of one that an exit kept from being written: a result   *)
(* saved before the exit may still embed that one, and a later edit gives    *)
(* its name to another body.  Nor of a test that ran what a client had       *)
(* registered by the name of a revision: the registry takes it while the     *)
(* name is free, before an edit registers it or after DELETE /operators.     *)
TestRanItsRevisions ==
    \A a \in Readers \cup Results :
        LET names == tested[a].names
        IN  /\ a \in saved \/ (a \in Readers /\ tests[a] # "none")
            /\ names \cap gone = {}
            => \/ \A n \in names : doc[n] = tested[a].ran[n]
               \/ \E n \in names : /\ tested[a].ran[n] # doc[n]
                                    /\ <<n, tested[a].ran[n]>> \in brought
=============================================================================
