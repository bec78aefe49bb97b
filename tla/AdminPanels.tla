---------------------------- MODULE AdminPanels -----------------------------
(* The late-reaction windows of the site settings, the feature flags and the *)
(* cache button: panels that send one value to the server and then ask for   *)
(* it again.  Requests on their way are a set, from which the server takes   *)
(* them in any order: what keeps the order is that the panel waits.          *)
EXTENDS FiniteSets, Panel

CONSTANT Windows          \* window settings that may be stored

Inverted == "inverted"    \* settings with a window that ends before it starts
NoWindows == "none"

ASSUME AdminAssumption == Inverted \notin Windows /\ NoWindows \notin Windows

VARIABLES
    win,     \* the site settings and the query of the windows
    flg,     \* the feature flags, of which one is followed
    wipe,    \* the cache button
    kept     \* what the server holds, and the user's last word on it

adminVars == <<win, flg, wipe, kept>>

Fetch(V) == {"idle", "asked"} \cup V

WinType == [
    canManage : BOOLEAN,
    open : BOOLEAN,                            \* the dialog
    data : Windows \cup {NoWindows},           \* the query's data
    draft : Windows \cup {Inverted, NoWindows},  \* lateReactionDraft
    fetch : Fetch(Windows),
    saves : SUBSET Windows]                    \* requests not yet applied

FlgType == [
    edit : BOOLEAN,                            \* isEditMode
    data : BOOLEAN,                            \* the flag as the query has it
    fetch : {"idle", "asked", "read"},
    answer : BOOLEAN,                          \* what the request read, once it did
    error : BOOLEAN,                           \* the query's last fetch failed
    toggles : SUBSET BOOLEAN]                  \* requests not yet applied

KeptType == [windows : Windows, lastWindows : Windows, flag : BOOLEAN, lastFlag : BOOLEAN]

-----------------------------------------------------------------------------
(* What is rendered.                                                        *)

WinDirty == win.draft # NoWindows /\ win.data # NoWindows /\ win.draft # win.data

\* Variant: the form may be saved again while a save is on its way.
WindowsControlsHasty ==
    IF ~win.open THEN {"open"}
    ELSE {"close"}
           \cup If(win.draft # NoWindows /\ win.canManage, "edit")
           \cup If(WinDirty /\ win.canManage /\ win.draft # Inverted, "save")

WindowsControls ==
    IF ~win.open THEN {"open"}
    ELSE {"close"}
           \cup If(win.draft # NoWindows /\ win.canManage /\ win.saves = {}, "edit")
           \cup If(WinDirty /\ win.canManage /\ win.saves = {} /\ win.draft # Inverted, "save")

FlagsControls ==
    {"edit mode"} \cup If(~flg.error /\ flg.edit /\ flg.toggles = {}, "switch")

WipeControls ==
    CASE wipe = "idle" -> {"wipe"} [] wipe = "confirm" -> {"yes", "no"} [] OTHER -> {}

-----------------------------------------------------------------------------
(* The windows.  The draft is adjusted while rendering: to the query's data  *)
(* when the dialog opens or closes, and whenever other data comes.           *)

OpenWindows ==
    /\ "open" \in WindowsControls
    /\ win' = [win EXCEPT !.open = TRUE, !.draft = win.data, !.fetch = "asked"]
    /\ UNCHANGED <<flg, wipe, kept>>

CloseWindows ==
    /\ "close" \in WindowsControls
    /\ win' = [win EXCEPT !.open = FALSE, !.draft = win.data]
    /\ UNCHANGED <<flg, wipe, kept>>

EditWindows(w) ==
    /\ "edit" \in WindowsControls
    /\ win' = [win EXCEPT !.draft = w]
    /\ UNCHANGED <<flg, wipe, kept>>

SaveWindows ==
    /\ "save" \in WindowsControls
    /\ win' = [win EXCEPT !.saves = @ \cup {win.draft}]
    /\ kept' = [kept EXCEPT !.lastWindows = win.draft]
    /\ UNCHANGED <<flg, wipe>>

\* The server stores the windows and answers; the query is asked again, if the
\* dialog is open (a closed one asks when it opens).
WindowsSaved(w) ==
    /\ w \in win.saves
    /\ kept' = [kept EXCEPT !.windows = w]
    /\ win' = [win EXCEPT !.saves = @ \ {w}, !.fetch = IF win.open THEN "asked" ELSE @]
    /\ UNCHANGED <<flg, wipe>>

\* The request is refused or lost, or only its answer is: the user is told.
WindowsNotSaved(w) ==
    /\ w \in win.saves
    /\ win' = [win EXCEPT !.saves = @ \ {w}]
    /\ kept' \in {[kept EXCEPT !.windows = w], [kept EXCEPT !.lastWindows = kept.windows]}
    /\ UNCHANGED <<flg, wipe>>

WindowsRead ==
    /\ win.fetch = "asked"
    /\ win' = [win EXCEPT !.fetch = kept.windows]
    /\ UNCHANGED <<flg, wipe, kept>>

WindowsAnswer ==
    /\ win.fetch \in Windows
    /\ win' = [win EXCEPT !.fetch = "idle", !.data = win.fetch,
                          !.draft = IF win.fetch # win.data THEN win.fetch ELSE @]
    /\ UNCHANGED <<flg, wipe, kept>>

WindowsFail ==
    /\ win.fetch # "idle"
    /\ win' = [win EXCEPT !.fetch = "idle"]
    /\ UNCHANGED <<flg, wipe, kept>>

-----------------------------------------------------------------------------
(* The feature flags.                                                       *)

EditMode ==
    /\ "edit mode" \in FlagsControls
    /\ flg' = [flg EXCEPT !.edit = ~@]
    /\ UNCHANGED <<win, wipe, kept>>

\* handleToggle: the switch asks for the opposite of what it shows.
ToggleFlag ==
    /\ "switch" \in FlagsControls
    /\ flg' = [flg EXCEPT !.toggles = @ \cup {~flg.data}]
    /\ kept' = [kept EXCEPT !.lastFlag = ~flg.data]
    /\ UNCHANGED <<win, wipe>>

AskFlags(f) == [f EXCEPT !.fetch = "asked", !.answer = f.data]

FlagToggled(b) ==
    /\ b \in flg.toggles
    /\ kept' = [kept EXCEPT !.flag = b]
    /\ flg' = AskFlags([flg EXCEPT !.toggles = @ \ {b}])
    /\ UNCHANGED <<win, wipe>>

\* The server refuses ("success" is false), or the request or its answer is lost.
FlagNotToggled(b) ==
    /\ b \in flg.toggles
    /\ flg' = [flg EXCEPT !.toggles = @ \ {b}]
    /\ kept' \in {[kept EXCEPT !.flag = b], [kept EXCEPT !.lastFlag = kept.flag]}
    /\ UNCHANGED <<win, wipe>>

FlagsRead ==
    /\ flg.fetch = "asked"
    /\ flg' = [flg EXCEPT !.fetch = "read", !.answer = kept.flag]
    /\ UNCHANGED <<win, wipe, kept>>

FlagsAnswer ==
    /\ flg.fetch = "read"
    /\ flg' = [flg EXCEPT !.fetch = "idle", !.data = flg.answer, !.error = FALSE]
    /\ UNCHANGED <<win, wipe, kept>>

FlagsFail ==
    /\ flg.fetch # "idle"
    /\ flg' = [flg EXCEPT !.fetch = "idle", !.answer = flg.data, !.error = TRUE]
    /\ UNCHANGED <<win, wipe, kept>>

\* The window gets the focus: the queries in use are asked again.
FocusPanels ==
    /\ flg.fetch = "idle" /\ win.fetch = "idle"
    /\ flg' = AskFlags(flg)
    /\ win' = IF win.open THEN [win EXCEPT !.fetch = "asked"] ELSE win
    /\ UNCHANGED <<wipe, kept>>

\* The cache button asks, waits for the answer, and may be used again.
Wipe ==
    /\ \/ "wipe" \in WipeControls /\ wipe' = "confirm"
       \/ "yes" \in WipeControls /\ wipe' = "pending"
       \/ "no" \in WipeControls /\ wipe' = "idle"
       \/ wipe = "pending" /\ wipe' = "idle"
    /\ UNCHANGED <<win, flg, kept>>

-----------------------------------------------------------------------------
AdminInit ==
    /\ kept \in {k \in KeptType : k.lastWindows = k.windows /\ k.lastFlag = k.flag}
    /\ win \in [canManage : BOOLEAN, open : {FALSE}, data : {NoWindows}, draft : {NoWindows},
                fetch : {"idle"}, saves : {{}}]
    /\ flg = [edit |-> FALSE, data |-> kept.flag, fetch |-> "idle", answer |-> kept.flag,
              error |-> FALSE, toggles |-> {}]
    /\ wipe = "idle"

AdminNext ==
    \/ OpenWindows \/ CloseWindows \/ \E w \in Windows \cup {Inverted} : EditWindows(w)
    \/ SaveWindows \/ \E w \in Windows : WindowsSaved(w) \/ WindowsNotSaved(w)
    \/ WindowsRead \/ WindowsAnswer \/ WindowsFail
    \/ EditMode \/ ToggleFlag \/ \E b \in BOOLEAN : FlagToggled(b) \/ FlagNotToggled(b)
    \/ FlagsRead \/ FlagsAnswer \/ FlagsFail
    \/ FocusPanels \/ Wipe

AdminSpec == AdminInit /\ [][AdminNext]_adminVars

-----------------------------------------------------------------------------
AdminTypeOK == win \in WinType /\ flg \in FlgType /\ kept \in KeptType

WindowsSetting == INSTANCE Setting WITH
    Values <- Windows, value <- kept.windows, word <- kept.lastWindows,
    pending <- (win.saves # {})

FlagSetting == INSTANCE Setting WITH
    Values <- BOOLEAN, value <- kept.flag, word <- kept.lastFlag,
    pending <- (flg.toggles # {})

\* Each panel implements a setting: whatever is fetched, closed, opened again or
\* lost, a request is for the last word and the next one waits for it.
PanelsAreSettings == WindowsSetting!Spec /\ FlagSetting!Spec
=============================================================================
