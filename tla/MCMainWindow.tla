-------------------------------- MODULE MCMainWindow --------------------------------
(***************************************************************************)
(* What the application's pages keep and show, for TLC: the rows of the    *)
(* list, the image editor and the migration of what is stored, the links,  *)
(* the preferences, the appearance, the components, the updates and the    *)
(* requests of the extension. One of them moves in a behaviour and the     *)
(* others rest, so that their state spaces add up and do not multiply.     *)
(***************************************************************************)
EXTENDS StorageMigration, LinkIntake, BridgeRequests, LiveRows, AppUpdate, ImageEditor, Preferences, Appearance

CONSTANTS
    Focuses,
    Ids, MaxActs, CompMaxReleases, CompMaxFaults                   \* the components

VARIABLES
    installed, errors, catalog, compPublished, commands, compEvents, components,
    phases, rows, compOff, inFlight, backoff, overtaken, acts, compFaults,
    focus

Comp   == INSTANCE ComponentManager
            WITH MaxReleases <- CompMaxReleases, MaxFaults <- CompMaxFaults,
                 published <- compPublished, events <- compEvents,
                 off <- compOff, faults <- compFaults

ASSUME PartAssumption ==
    /\ RowConstants
    /\ EditorConstants
    /\ MigrationConstants
    /\ IntakeConstants
    /\ PrefConstants
    /\ LookConstants
    /\ Comp!ComponentConstants
    /\ UpdateConstants
    /\ BridgeConstants

compVars ==
    <<installed, errors, catalog, compPublished, commands, compEvents, components,
      phases, rows, compOff, inFlight, backoff, overtaken, acts, compFaults>>
partVars ==
    <<rowVars, editorVars, migrationVars, intakeVars, prefVars, lookVars, compVars,
      updateVars, bridgeVars, focus>>

\* What rests has one initial state.
MCInit ==
    /\ focus \in Focuses
    /\ RowInit /\ (focus # "rows" => \A j \in Jobs : raw[j] = NoJob)
    /\ EditorInit /\ (focus # "editor" => session = NoDoc)
    /\ MigrationInit /\ (focus # "store" => legacy.records = {} /\ oldKeys = [k \in Keys |-> "none"] /\ newKeys = oldKeys)
    /\ IntakeInit
    /\ PrefInit /\ (focus # "pref" => committed = Defaults)
    /\ LookInit /\ (focus # "look" => stored.look = 1)
    /\ Comp!ComponentInit /\ (focus # "comp" => installed = [id \in Ids |-> 0])
    /\ UpdateInit
    /\ BridgeInit /\ (focus # "bridge" => tools = TRUE)

Still(part) ==
    CASE part = "rows"    -> UNCHANGED rowVars
      [] part = "editor"  -> UNCHANGED editorVars
      [] part = "store"   -> UNCHANGED migrationVars
      [] part = "intake"  -> UNCHANGED intakeVars
      [] part = "pref"    -> UNCHANGED prefVars
      [] part = "look"    -> UNCHANGED lookVars
      [] part = "comp"    -> UNCHANGED compVars
      [] part = "update"  -> UNCHANGED updateVars
      [] part = "bridge"  -> UNCHANGED bridgeVars
Parts ==
    {"rows", "editor", "store", "intake", "pref", "look", "comp", "update", "bridge"}

In(part, action) == focus = part /\ action
Alone(part, action) ==
    /\ In(part, action) /\ UNCHANGED focus
    /\ \A other \in Parts \ {part} : Still(other)

MCNext ==
    \/ Alone("rows", RowNext)
    \/ Alone("editor", EditorNext)
    \/ Alone("store", MigrationNext)
    \/ Alone("intake", IntakeNext)
    \/ Alone("pref", PrefNext)
    \/ Alone("look", LookNext)
    \/ Alone("comp", Comp!ComponentNext)
    \/ Alone("update", UpdateNext)
    \/ Alone("bridge", BridgeNext)

MCSpec ==
    /\ MCInit /\ [][MCNext]_partVars

\* Every variable of the part that moves has its type; the others keep their initial state.
PartTypes ==
    /\ focus = "rows" => RowTypes
    /\ focus = "editor" => EditorTypes
    /\ focus = "store" => TypeOK
    /\ focus = "intake" => IntakeTypes
    /\ focus = "pref" => PrefTypes
    /\ focus = "look" => LookTypes
    /\ focus = "comp" => Comp!ComponentTypes
    /\ focus = "update" => UpdateTypes
    /\ focus = "bridge" => BridgeTypes

\* The properties of the parts, as the run names them.
DrawnIsTrue ==
    /\ (focus = "comp" => Comp!ComponentsSettle)
    /\ (focus = "rows" => RowsShowJobs)
    /\ (focus = "update" => UpdateTrue)
NothingForgotten ==
    /\ (focus = "intake" => PromptsKept)
    /\ (focus = "intake" => LinksServed)
    /\ (focus = "editor" => RestsSaved)
    /\ (focus = "pref" => SettingsKept)
    /\ (focus = "look" => LookSettles)
=============================================================================
