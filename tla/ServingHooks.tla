---------------------------- MODULE ServingHooks ----------------------------
(***************************************************************************)
(* One Python process of the server, from the interpreter's start to the   *)
(* model it serves: sitecustomize.py and the hooks of adapter/sglang_patch *)
(* it installs, which change modules of SGLang already imported at once    *)
(* and the others when they are.  An exception in sitecustomize ends the   *)
(* process with status 78; one in an import or in a constructor ends it    *)
(* like any other.                                                         *)
(***************************************************************************)
EXTENDS ChunkSizer

CONSTANTS
    Statics,     \* values of --chunked-prefill-size
    Pages,       \* values of --page-size
    ScoreMibs,   \* values of DSV41_INDEXER_SCORE_BUDGET_MIB
    TableRows    \* rows of an Engram table

ASSUME StoreAssumption == TableRows \in Nat \ {0}
ASSUME ServerAssumption == Statics \subseteq Nat \ {0} /\ Pages \subseteq Nat
                           /\ ScoreMibs \subseteq Int

VARIABLES
    step,      \* where the process is
    adaptive, engram, kslice,   \* the switches
    settings,  \* the numbers of the environment, until the server is built
    finder,    \* the finder in sys.meta_path: "none", "chunk" or "kslice"
    loaded,    \* modules in sys.modules
    patched    \* what has been changed in them

switches == <<adaptive, engram, kslice>>
process == <<step, switches, settings, finder, loaded, patched>>

Modules == {"scheduler", "backend", "engram", "mla"}   \* those of SGLang the hooks change
Changes == {"sizer", "budget", "slices", "gate", "mla", "store"}
Switch == {"0", "1", "other"}
Settings == [budget : Budgets, cmin : Sizes, cmax : Sizes, scoreMib : ScoreMibs]
NoSettings == [budget |-> 0, cmin |-> 0, cmax |-> 0, scoreMib |-> 0]

ProcessTypeOK ==
    /\ step \in {"switches", "chunk", "kslice", "engram", "up", "serving", "refused", "dead"}
    /\ {adaptive, engram, kslice} \subseteq Switch
    /\ settings \in Settings \cup {NoSettings}
    /\ finder \in {"none", "chunk", "kslice"}
    /\ loaded \subseteq Modules /\ patched \subseteq Changes

(* Anything may have been imported before sitecustomize runs.              *)
ProcessInit ==
    /\ step = "switches"
    /\ adaptive \in Switch /\ engram \in Switch /\ kslice \in Switch
    /\ settings \in Settings
    /\ finder = "none" /\ loaded \in SUBSET Modules /\ patched = {}
    /\ sizer = NoSizer /\ static = Page

Go(s) == step' = s /\ UNCHANGED switches
Kept == UNCHANGED <<settings, hooks>>

(* What a finder changes in a module once it has been executed (_apply).   *)
Applied(f, m) ==
    CASE f = "chunk" /\ m = "scheduler"  -> {"sizer"}
      [] f = "chunk" /\ m = "backend"    -> {"budget", "slices"}
      [] f = "kslice" /\ m = "backend"   -> {"slices"}
      [] OTHER                           -> {}

AppliedAll(f, ms) == UNION {Applied(f, m) : m \in ms}

-----------------------------------------------------------------------------
(* sitecustomize                                                           *)

ReadSwitches ==
    /\ step = "switches"
    /\ LET valid == {adaptive, engram, kslice} \subseteq {"0", "1"}
       IN  Go(CASE ~valid                                          -> "refused"
                [] valid /\ adaptive = "1"                         -> "chunk"
                [] valid /\ adaptive = "0" /\ kslice = "1"         -> "kslice"
                [] valid /\ adaptive = "0" /\ kslice = "0"         -> "engram")
    /\ UNCHANGED <<finder, loaded, patched>> /\ Kept

(* settings()                                                              *)
ValidSettings ==
    /\ ValidSizer(settings.budget, settings.cmin, settings.cmax)
    /\ settings.scoreMib \in 1 .. 1024

(* Bug: modules that are imported already are left as they are.            *)
InstallChunkLater ==
    /\ step = "chunk"
    /\ IF ValidSettings THEN finder' = "chunk" /\ Go("engram")
                        ELSE UNCHANGED finder /\ Go("refused")
    /\ UNCHANGED <<loaded, patched>> /\ Kept

(* install() of the sizer: invalid settings raise.                         *)
InstallChunk ==
    /\ step = "chunk"
    /\ IF ValidSettings
       THEN finder' = "chunk" /\ patched' = AppliedAll("chunk", loaded) /\ Go("engram")
       ELSE UNCHANGED <<finder, patched>> /\ Go("refused")
    /\ UNCHANGED loaded /\ Kept

InstallKslice ==
    /\ step = "kslice"
    /\ finder' = "kslice" /\ patched' = AppliedAll("kslice", loaded) /\ Go("engram")
    /\ UNCHANGED loaded /\ Kept

(* install() of the file store imports the modules it changes, through the *)
(* finder if there is one.                                                 *)
InstallEngram ==
    /\ step = "engram"
    /\ IF engram = "1"
       THEN /\ loaded' = loaded \cup {"engram", "backend", "mla"}
            /\ patched' = patched \cup {"gate", "mla", "store"}
                                  \cup AppliedAll(finder, loaded' \ loaded)
       ELSE UNCHANGED <<loaded, patched>>
    /\ Go("up")
    /\ UNCHANGED finder /\ Kept

(* No DSV41_MODEL_PATH, an import that fails, a module that has drifted    *)
(* from the pinned one: the process ends before it serves.                 *)
Refuse ==
    /\ \/ step \in {"chunk", "kslice"}
       \/ step = "engram" /\ engram = "1"
    /\ Go("refused")
    /\ UNCHANGED <<finder, loaded, patched>> /\ Kept

-----------------------------------------------------------------------------
(* The server                                                              *)

(* Loader.exec_module: the module's own, then the hook's.                  *)
Import ==
    /\ step = "up"
    /\ \E m \in Modules \ loaded :
          /\ loaded' = loaded \cup {m}
          /\ patched' = patched \cup Applied(finder, m)
    /\ UNCHANGED <<step, switches, finder>> /\ Kept

ImportFails ==
    /\ step = "up" /\ finder # "none" /\ loaded # Modules
    /\ Go("dead")
    /\ UNCHANGED <<finder, loaded, patched>> /\ Kept

(* patched(): the sizers maybe_init_dynamic_chunk_sizer may build, none if *)
(* it raises.                                                              *)
Sized(page, size) ==
    IF "sizer" \notin patched THEN {NoSizer}
    ELSE {s \in {Capped(settings.budget, settings.cmin, settings.cmax, size)} :
             /\ page = Page /\ size \in {Page, 2 * Page}
             /\ ValidSizer(s.budget, s.cmin, s.cmax)}

(* FileEngramStore: the ranges of a shard hold the rows asked for, and the *)
(* scales follow the weights.                                              *)
StoreOpens(h) == h.weights = TableRows /\ h.scales = TableRows /\ h.gap = 0

Shard == [weights : {TableRows, TableRows - 1}, scales : {TableRows, TableRows - 1}, gap : {0, 1}]

(* The scheduler and the model are built; whatever raises ends the server. *)
Build ==
    /\ step = "up" /\ loaded = Modules
    /\ \E size \in Statics, page \in Pages, shard \in Shard :
          IF Sized(page, size) # {} /\ ("store" \in patched => StoreOpens(shard))
          THEN /\ sizer' \in Sized(page, size) /\ static' = size
               /\ settings' = NoSettings /\ Go("serving")
          ELSE Go("dead") /\ Kept
    /\ UNCHANGED <<finder, loaded, patched>>

Boot ==
    \/ ReadSwitches \/ InstallChunk \/ InstallKslice \/ InstallEngram \/ Refuse
    \/ Import \/ ImportFails \/ Build

-----------------------------------------------------------------------------
(* Properties.                                                             *)

(* A process that serves does so with every hook its switches ask for, in  *)
(* whatever order the modules came in ("that would silently serve without  *)
(* the memory/correctness hooks", sitecustomize.py:25).                    *)
ServesPatched ==
    step = "serving" =>
        /\ {adaptive, engram, kslice} \subseteq {"0", "1"}
        /\ IF adaptive = "1"
           THEN {"sizer", "budget", "slices"} \subseteq patched /\ sizer # NoSizer /\ SizerOK
           ELSE sizer = NoSizer
        /\ kslice = "1" => "slices" \in patched
        /\ engram = "1" => {"gate", "mla", "store"} \subseteq patched

=============================================================================
