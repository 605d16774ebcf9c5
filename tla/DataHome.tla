------------------------------ MODULE DataHome ------------------------------
(***************************************************************************)
(* The data directory of the application: universes, the folders they are  *)
(* shown in, the price cache and the signals that are ranked from it, with *)
(* the requests that reach more than one of them.                          *)
(***************************************************************************)
EXTENDS UniverseStore, UniverseFolders, SignalDesk

CONSTANTS
    Main,       \* the process whose jobs fill the cache
    Catalog,    \* what the bundled universe holds
    Budgets     \* bound: requests of each kind, crashes included

VARIABLE budget

homeVars == <<universeVars, folderVars, priceVars, signalVars, budget>>

ASSUME HomeAssumption ==
    /\ Main \in Procs /\ Catalog \in Definitions /\ Contents \subseteq Definitions
    /\ Custom = Names \ {Reserved} /\ UniverseIds = UniverseNames
    /\ Budgets \subseteq [universes : Nat, folders : Nat, prices : Nat, signals : Nat]

DataTypeOK == UniversesTypeOK /\ FoldersTypeOK /\ PricesTypeOK /\ SignalsTypeOK

(* Bound: the directories a move left half way are for universes alone.      *)
Init ==
    /\ UniversesInit /\ FoldersInit /\ PricesInit /\ SignalsInit
    /\ budget \in Budgets
    /\ budget.folders + budget.prices + budget.signals > 0 => \A n \in Names : ~Exists(n)

Spends(kind) == budget[kind] > 0 /\ budget' = [budget EXCEPT ![kind] = @ - 1]
UniversesAlone == UNCHANGED <<folderVars, priceVars, signalVars>>
FoldersAlone == UNCHANGED <<universeVars, priceVars, signalVars>>
SignalsAlone == UNCHANGED <<universeVars, folderVars>>
PricesAlone == SignalsAlone /\ UNCHANGED signalVars

(* _known_universe_names: bundled ones and, after a load, those in memory.   *)
Known(p) == Bundled \cup {n \in DOMAIN loaded[p] : AfterLoad(p)[n] # NoFile}
LoadsNothing(p) == Free(p) /\ ~Exists(Reserved) /\ AfterLoad(p) = loaded[p]

-----------------------------------------------------------------------------
UniverseRequest(p) ==
    /\ Spends("universes")
    /\ UniversesAlone
    /\ \/ AskUniverse(p, Reserved, "idle")
       \/ \E n \in Names \ {Reserved}, after \in {"use", "remove"} : AskUniverse(p, n, after)
       \/ \E n \in Names \ {Reserved} : BeginSave(p, n)
       \/ CrashProcess(p)
       \/ p = Main /\ ClearUniverses

UniverseStep(p) ==
    /\ UNCHANGED budget
    /\ UniversesAlone
    /\ \/ \E n \in Range(LegacyNames) : ScanName(p, n) \/ RemoveDuplicate(p, n)
       \/ ScanEnds(p) \/ RemoveReserved(p) \/ CleanRefused(p)
       \/ LookForName(p) \/ OutOfNames(p) \/ LinkName(p) \/ LinkRefused(p)
       \/ LoadFiles(p) \/ RemoveUnknown(p)
       \/ \E c \in Contents : EndSave(p, c)

(* A deleted universe loses its place.                                       *)
UniverseRemoved(p) ==
    /\ RemoveUniverse(p) /\ ForgetUniverse(at[p].name)
    /\ UNCHANGED <<stored, gone, deletion, priceVars, signalVars, budget>>

(* A universe a user saved, wanted by a sync or a fill, or only looked at.   *)
UniverseUsed(p) ==
    /\ UseUniverse(p)
    /\ UNCHANGED <<folderVars, signalVars, budget>>
    /\ LET name == at[p].name
           def == loaded[p][name]
       IN  \/ UNCHANGED priceVars
           \/ /\ p = Main /\ def # NoFile
              /\ \E j \in Jobs : \/ \E from \in Starts, to \in Ends :
                                        SubmitSync(j, name, def, "incremental", from, to)
                                 \/ AskFill(j, name, def, "full")

FolderRequest(p) ==
    /\ Spends("folders")
    /\ FoldersAlone
    /\ \/ \E f \in UserFolders, parent \in Places : CreateFolder(f, parent)
       \/ \E f \in Folders, parent \in Places : UpdateFolder(f, parent)
       \/ \E f \in Folders : RenameFolder(f)
       \/ /\ LoadsNothing(p)
          /\ \/ \E f \in Folders : AskDeletion(f, Known(p))
             \/ \E u \in Known(p), place \in Places : MoveUniverses({u}, place)

FolderStep ==
    /\ UNCHANGED budget
    /\ FoldersAlone
    /\ DeleteFolder \/ RefuseDeletion

PriceRequest(j) ==
    /\ Spends("prices")
    /\ PricesAlone
    /\ \/ /\ LoadsNothing(Main)
          /\ \E u \in Bundled :
                \/ \E mode \in {"incremental", "refresh"}, from \in Starts, to \in Ends :
                       SubmitSync(j, u, Catalog, mode, from, to)
                \/ \E scope \in {"top_up", "full"} : AskFill(j, u, Catalog, scope)
       \/ \E from \in Starts : RunScript(j, Catalog, from)
       \/ StopSync(j)
       \/ ClearPrices

(* The process exits with its jobs.                                          *)
PricesRestart ==
    /\ \/ SyncLive /\ Spends("prices")
       \/ ~SyncLive /\ SignalsLive /\ Spends("signals")
    /\ RestartSync /\ RestartSignals
    /\ SignalsAlone

PriceStep(j) ==
    /\ UNCHANGED budget
    /\ PricesAlone
    /\ SubmitFill(j) \/ StartJob(j) \/ NextSymbol(j) \/ LoadSymbol(j) \/ FetchRange(j)
       \/ StoreStep(j)

SignalRequest(q) ==
    /\ Spends("signals")
    /\ SignalsAlone
    /\ \/ /\ LoadsNothing(Main)
          /\ \E mode \in {"refresh", "cached"}, as_of \in Ends : AskSignal(q, Catalog, mode, as_of)
       \/ StopSignal(q)

SignalJobStep(q) ==
    /\ UNCHANGED budget
    /\ SignalsAlone
    /\ SignalStep(q)

(* Bound: days pass only where there are prices to ask for.                  *)
Tomorrow ==
    /\ (\E j \in Jobs : job[j].status # "absent") \/ (\E q \in Asks : Working(q))
    /\ DayPasses
    /\ PricesAlone
    /\ UNCHANGED budget

Next ==
    \/ \E p \in Procs : UniverseRequest(p) \/ UniverseStep(p) \/ UniverseRemoved(p)
                        \/ UniverseUsed(p) \/ FolderRequest(p)
    \/ FolderStep
    \/ \E j \in Jobs : PriceRequest(j) \/ PriceStep(j)
    \/ \E q \in Asks : SignalRequest(q) \/ SignalJobStep(q)
    \/ PricesRestart
    \/ Tomorrow

Spec == Init /\ [][Next]_homeVars
=============================================================================
